---------------------------- MODULE SettingsSchema -----------------------------
(***************************************************************************)
(* The version contract of the settings                                    *)
(* (main/infrastructure/settings_schema.c): at boot the image compares its *)
(* own schema version with three keys, migrates the other namespaces if it *)
(* has to, and refuses to start on anything newer.  Power may fail between *)
(* any two writes, and another image may be flashed before the next boot.  *)
(*                                                                         *)
(* The code's one migration is from 0 to 1 and rewrites nothing.  Images   *)
(* of later versions are assumed to add steps that do, in the way the      *)
(* header asks: each may stop half-way and may be run again.               *)
(***************************************************************************)
EXTENDS Naturals, FiniteSets

CONSTANTS
  Images,    \* schema versions of the images that may be flashed
  First,     \* the one the device starts with
  Missing,   \* no such key
  MaxFaults  \* bound: writes that fail, power failures, images flashed

\* What the parameters are: versions are numbers, a missing key is none.
SchemaBounds == Images \subseteq Nat /\ First \in Nat /\ Missing \notin Nat

VARIABLES
  keys,    \* version, last_good and pending in flash
  data,    \* the version the other namespaces are in
  torn,    \* a migration of them has stopped half-way
  cur,     \* SI_SETTINGS_SCHEMA_CURRENT_VERSION of the running image
  pc, ver, \* where si_settings_schema_initialize is, and status.version
  faults

vars == <<keys, data, torn, cur, pc, ver, faults>>

Set(k, v) == keys' = [keys EXCEPT ![k] = v]
Newer(v) == v # Missing /\ v > cur

\* A write that fails ends the call with an error and status.initialized FALSE.
Fails ==
  /\ faults < MaxFaults
  /\ faults' = faults + 1
  /\ pc' = "refused"
  /\ UNCHANGED <<keys, data, torn, cur, ver>>

\* The three keys are read; anything newer than the image is left alone.
Read ==
  /\ pc = "read"
  /\ ver' = IF keys.version = Missing THEN cur ELSE keys.version
  /\ pc' = CASE keys.version = Missing -> "adopt"
             [] keys.version # Missing
                  /\ (Newer(keys.version) \/ Newer(keys.pending)) -> "refused"
             [] OTHER -> "stale"
  /\ UNCHANGED <<keys, data, torn, cur, faults>>

\* Settings without a version are taken over as they are: version, last good,
\* no pending marker.
Adopt ==
  \/ /\ pc = "adopt" /\ Set("version", ver) /\ pc' = "adopt_good"
     /\ UNCHANGED <<data, torn, cur, ver, faults>>
  \/ /\ pc = "adopt_good" /\ Set("last_good", ver) /\ pc' = "adopt_clear"
     /\ UNCHANGED <<data, torn, cur, ver, faults>>
  \/ /\ pc = "adopt_clear" /\ Set("pending", Missing) /\ pc' = "ready"
     /\ UNCHANGED <<data, torn, cur, ver, faults>>

\* A marker that the version has caught up with is dropped.
DropStale ==
  /\ pc = "stale"
  /\ IF keys.pending # Missing /\ keys.pending <= ver
       THEN Set("pending", Missing) ELSE UNCHANGED keys
  /\ pc' = IF ver < cur THEN "mark_good" ELSE "ready"
  /\ UNCHANGED <<data, torn, cur, ver, faults>>

\* Before the migration the last good version and the marker are stored.
Mark ==
  \/ /\ pc = "mark_good" /\ Set("last_good", ver) /\ pc' = "mark_pending"
     /\ UNCHANGED <<data, torn, cur, ver, faults>>
  \/ /\ pc = "mark_pending" /\ Set("pending", cur) /\ pc' = "migrate"
     /\ UNCHANGED <<data, torn, cur, ver, faults>>

\* run_migrations, one step at a time: begun, and finished.
Migrate ==
  /\ pc = "migrate" /\ ver < cur
  /\ \/ ~torn /\ torn' = TRUE /\ UNCHANGED <<data, ver>>
     \/ torn /\ torn' = FALSE /\ data' = ver + 1 /\ ver' = ver + 1
  /\ UNCHANGED <<keys, cur, pc, faults>>

\* After it the new version, the last good one, and no marker.
Finish ==
  \/ /\ pc = "migrate" /\ ver = cur /\ Set("version", ver) /\ pc' = "store_good"
     /\ UNCHANGED <<data, torn, cur, ver, faults>>
  \/ /\ pc = "store_good" /\ Set("last_good", ver) /\ pc' = "store_clear"
     /\ UNCHANGED <<data, torn, cur, ver, faults>>
  \/ /\ pc = "store_clear" /\ Set("pending", Missing) /\ pc' = "ready"
     /\ UNCHANGED <<data, torn, cur, ver, faults>>

Writing == {"adopt", "adopt_good", "adopt_clear", "stale", "mark_good",
            "mark_pending", "migrate", "store_good", "store_clear"}

WriteFails == pc \in Writing /\ Fails

\* Power fails, and perhaps another image is flashed before it comes back; not
\* before settings without a version were taken over, which only an image of
\* their own version may do.
PowerCycle ==
  /\ faults < MaxFaults
  /\ faults' = faults + 1
  /\ pc' = "read"
  /\ cur' \in IF keys.version = Missing THEN {cur} ELSE Images
  /\ ver' = 0
  /\ UNCHANGED <<keys, data, torn>>

Init ==
  /\ data \in {0, First}
  /\ keys \in {[version |-> v, last_good |-> Missing, pending |-> Missing] :
                 v \in {data} \cup (IF data = First THEN {Missing} ELSE {})}
  /\ torn = FALSE
  /\ cur = First
  /\ pc = "read" /\ ver = 0 /\ faults = 0

Boots == Read \/ Adopt \/ DropStale \/ Mark \/ Migrate \/ Finish

Next == Boots \/ WriteFails \/ PowerCycle

Spec == Init /\ [][Next]_vars

FairSpec == Spec /\ WF_vars(Boots)

-------------------------------------------------------------------------------
(* An image that reports its settings as initialized runs on data of its   *)
(* own version, whole: never on newer data, never on a migration that      *)
(* stopped half-way, whichever image began it.                             *)
ReadyMeansOwnVersion == pc = "ready" => data = cur /\ ~torn

(* While the data are half-way between two versions, or ahead of the       *)
(* version on record, the marker says so: that is all an older image has   *)
(* to go by.                                                               *)
HalfWayIsMarked ==
  torn \/ (keys.version # Missing /\ data # keys.version)
    => keys.pending # Missing /\ keys.pending > keys.version

(* The version on record, and the last good one, never run ahead of the    *)
(* data.                                                                   *)
RecordTrailsData ==
  /\ keys.version # Missing => keys.version <= data
  /\ keys.last_good # Missing => keys.last_good <= data
===============================================================================
