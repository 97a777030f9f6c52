---------------------------- MODULE MCProvenance ----------------------------
(***************************************************************************)
(* Instances of Provenance: one scenario, a relative profile and a preset. *)
(***************************************************************************)
EXTENDS Provenance

CONSTANTS scenario, plain, preset, older

MCScenarios    == <<scenario>>
MCLevels       == <<older, preset>>
MCCodeLevels   == <<plain>>
\* A profile no validator reads, broken until it is edited; a preset an edit
\* breaks; a code_dir and a SYSTEM.md only the runner refuses; a scenario with a
\* file that cannot be read.
MCRefused      == {<<older, 0>>, <<preset, 2>>}
MCUnhashable   == {<<scenario, 1>>}
\* The scenario's first edit is taken back by the second; the preset's first edit
\* touches only what the hash skips.
MCDigest == [d \in Dirs |-> [v \in 0..2 |->
                IF (d = scenario /\ v = 2) \/ (d = preset /\ v = 1) THEN 0 ELSE v]]
MCOwnDigest == [d \in Dirs |-> [v \in 0..2 |-> v]]
MCUnchecked    == {<<scenario, 1>>, <<preset, 1>>}
=============================================================================
