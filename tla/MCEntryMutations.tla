-------------------------- MODULE MCEntryMutations --------------------------
(* Two settings of EntryMutations, of which a behaviour is in one: two       *)
(* workers at once with every fault have too many states.                    *)
EXTENDS EntryMutations, TLC

CONSTANTS p1, p2, p3, f, first, second

MCHome == p1 :> first @@ p2 :> first @@ p3 :> second
EntrySymmetry == Permutations(Workers)

ASSUME FirstDrawing == p1 \in Paths /\ f \in Objects
ASSUME FewWorkers == IsFiniteSet(Workers)

VARIABLE setting

SettingInit ==
    /\ EntryInit
    /\ disk[p1] = f /\ \A p \in Paths \ {p1} : disk[p] = None
    /\ setting \in {"one by one", "at once"}

\* One worker at a time, in the first Workspace, with one of the faults ...
OneByOne ==
    /\ Cardinality(Running') <= 1
    /\ \A k \in Running' : task'[k].from # p3
    /\ disk'[p3] = None
    /\ external' + crashes' <= 1

\* ... or two, in both of them, within a minute, with stores that
\* fail, on one drawing.
AtOnce ==
    /\ external' = 0 /\ crashes' = 0 /\ mutations' <= 1 /\ old' = {}
    /\ \A p \in Paths : disk'[p] \in {f, None}

SettingNext ==
    /\ UNCHANGED setting
    /\ EntryNext
    /\ IF setting = "one by one" THEN OneByOne ELSE AtOnce

SettingSpec == SettingInit /\ [][SettingNext]_<<entryVars, setting>>

\* Replayed one by one, the rows and snapshots follow the file; and in every
\* order of replays the history of a drawing that was moved will be told.
StoresFollowFiles == HistoryIsTold /\ (setting = "one by one" => MetadataFollows)
=============================================================================
