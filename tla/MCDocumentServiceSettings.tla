---------------------- MODULE MCDocumentServiceSettings ----------------------
(* Three settings of DocumentService side by side, of which a behaviour is  *)
(* in one: with two commands at once and everything else that may happen,   *)
(* there are too many states.                                               *)
EXTENDS MCDocumentService, Naturals, FiniteSets

VARIABLE setting

\* The history store is in reach: where nothing fails, and one by one.
Healthy == INSTANCE DocumentService WITH HistoryMayFail <- FALSE

\* Where no watcher looks, the kind of its pending change does not matter.
Unseen == INSTANCE DocumentService WITH RawKind <- {"Modified"}

UnderWay == {c \in Call : calls[c] # Idle}

SettingInit == ServiceInit /\ setting \in {"undisturbed", "unwatched", "one by one"}

SettingNext ==
  /\ UNCHANGED setting
  /\ \/ setting = "undisturbed" /\ Healthy!NextUndisturbed
     \/ setting = "unwatched" /\ Unseen!NextUnwatched
     \/ setting = "one by one" /\ Healthy!ServiceNext /\ Cardinality(UnderWay') <= 1

SettingSpec == SettingInit /\ [][SettingNext]_<<serviceVars, setting>>

\* While nothing fails and nobody else touches the file, the file and a clean
\* row of `drafts` are one version whenever no command runs, the latest recovery
\* snapshot is never another than the unsaved draft, and the app does not come
\* to take its own file for somebody else's.
VersionsAgree ==
  setting = "undisturbed" => OneVersion /\ DraftIsRecoverable /\ StaysOpenable
=============================================================================
