------------------------- MODULE MCDocumentSession -------------------------
(* Two settings of DocumentSession, of which a behaviour is in one: nobody   *)
(* else at the file and every call succeeding, or all that may happen.       *)
EXTENDS DocumentSession

MCExternal == {-2}

VARIABLE setting

SettingInit == Init /\ setting \in {"alone", "shared"}

SettingNext ==
    /\ UNCHANGED setting
    /\ Next
    /\ setting = "alone" => writes' = 0 /\ failures' = 0

SettingSpec == SettingInit /\ [][SettingNext]_<<vars, setting>> /\ Fairness

\* Left alone, every edit is stored in the end: the debounce, the idle and the
\* maximum wait, the queue and the rejections of what is overtaken never lose
\* the last of them (draftScheduler.ts).
EditsAreStored ==
    (setting = "alone" /\ tab = "open" /\ kept < made) ~> (kept = made \/ tab = "closed")
=============================================================================
