------------------------------ MODULE MCStores ------------------------------
(* Components whose state no other one here shares, side by side: a          *)
(* behaviour is one of the component that `setting` names.  Each has its     *)
(* own variables in its module; here they take turns at s1 to s16, and those *)
(* a component does not need stay empty.                                     *)
EXTENDS AtomicWrite, Integers, TLC

CONSTANTS
  Path, Object, MaxDocuments, MaxStrange,                          \* Identity
  Request, MaxVersions, MaxTime, Interval, Retained, Page,         \* Versions
  Watched, MaxWrites, MaxEchoes,                                   \* Watcher
  Image, Drawing, Inside, AtHome, Root, MaxEdits, MaxCommands,     \* Images
  Window, WorkArea, Spot, MinWidth, MaxInitialWidth, Stagger, Grabbable, MaxExits,   \* Placement
  Workspace, Home, MaxWindows,                                     \* Restore
  MaxFaults, MaxChanges, MaxEvents                                 \* several of them

VARIABLES setting, s1, s2, s3, s4, s5, s6, s7, s8, s9, s10, s11, s12, s13, s14, s15, s16

MCWorkArea == {[x |-> 0, width |-> 4], [x |-> 4, width |-> 6]}
MCSpot == {[x |-> 1, width |-> 2], [x |-> 7, width |-> 2]}
MCHome == [d \in Drawing |-> IF d \in Inside THEN Root ELSE None]
Symmetry == Permutations(Writer)

Identity == INSTANCE DocumentIdentity WITH
  file <- s1, rows <- s2, command <- s3, rename <- s4, known <- s5, excused <- s6,
  strange <- s7, faults <- s8

Versions == INSTANCE VersionList WITH
  versions <- s1, used <- s2, baseline <- s3, clock <- s4, mark <- s5, receipt <- s6,
  told <- s7, cursor <- s8, reading <- s9, listed <- s10, there <- s11

Watcher == INSTANCE WatcherEvents WITH
  Path <- Watched,
  file <- s1, writes <- s2, notices <- s3, pending <- s4, batch <- s5, known <- s6,
  expected <- s7, saved <- s8, told <- s9, excused <- s10, changes <- s11, operations <- s12,
  owned <- s13

Images == INSTANCE SceneImages WITH
  Workspace <- Root,
  claimant <- s1, mounted <- s2, stored <- s3, granted <- s4, file <- s5, draft <- s6,
  shown <- s7, version <- s8, work <- s9, spent <- s10

Placement == INSTANCE WindowPlacement WITH
  displays <- s1, primary <- s2, windows <- s3, noticed <- s4, placing <- s5, normal <- s6,
  pending <- s7, scheduled <- s8, flushes <- s9, row <- s10, app <- s11, last <- s12,
  heard <- s13, restored <- s14, excused <- s15, spent <- s16

Restore == INSTANCE SessionRestore WITH
  files <- s1, roots <- s2, stored <- s3, phase <- s4, plan <- s5, windows <- s6,
  held <- s7, scheduled <- s8, mounted <- s9, caller <- s10, labels <- s11, created <- s12,
  awaited <- s13, stranded <- s14, events <- s15

ASSUME IdentityAssumption ==
  /\ MaxDocuments \in Nat /\ MaxStrange \in Nat /\ MaxFaults \in Nat
  /\ None \notin Object /\ None \notin Identity!Id
  /\ None \notin Identity!Row /\ None \notin Identity!Command

ASSUME VersionsAssumption ==
  /\ MaxVersions \in Nat /\ MaxTime \in Nat /\ Interval \in Nat /\ Retained \in Nat /\ Page \in Nat
  /\ None \notin Nat /\ None \notin Versions!Receipt /\ None \notin Versions!Key

ASSUME WatcherAssumption ==
  /\ MaxWrites \in Nat /\ MaxWrites >= 2 /\ MaxEchoes \in Nat /\ MaxChanges \in Nat
  /\ None \notin Nat /\ None \notin Watched \union Watcher!Raw

ASSUME ImagesAssumption ==
  /\ Inside \subseteq Drawing
  /\ MaxEdits \in Nat /\ MaxCommands \in Nat /\ MaxEvents \in Nat
  /\ None \notin Drawing \union {Root, "this", "another"}
  /\ None \notin Images!Scene /\ None \notin Images!Written
  /\ None \notin Images!Shown /\ None \notin Images!Task

\* A display is as wide as what a hand needs of a window, and so is a window.
ASSUME PlacementAssumption ==
  /\ \A area \in WorkArea : area \in Placement!Rect /\ area.width >= Grabbable
  /\ Spot \subseteq Placement!Rect
  /\ MinWidth \in Nat /\ MaxInitialWidth \in Nat /\ Stagger \in Nat
  /\ Grabbable \in Nat /\ MinWidth >= Grabbable
  /\ None \notin Workspace
  /\ None \notin Placement!Placed /\ None \notin Placement!Rect /\ None \notin Placement!Remembered

ASSUME RestoreAssumption ==
  /\ MaxWindows \in Nat \ {0} /\ MaxEvents \in Nat
  /\ None \notin Workspace \union Restore!Label /\ None \notin Restore!WindowRecord

-----------------------------------------------------------------------------
\* The variables from the given one on are empty.
Empty16 == s16 = None
Empty14 == s14 = None /\ s15 = None /\ Empty16
Empty12 == s12 = None /\ s13 = None /\ Empty14
Empty11 == s11 = None /\ Empty12
Empty9 == s9 = None /\ s10 = None /\ Empty11
Empty1 == s1 = None /\ s2 = None /\ s3 = None /\ s4 = None /\ s5 = None /\ s6 = None
          /\ s7 = None /\ s8 = None /\ Empty9

others == <<setting, writeVars>>
from16 == <<s16>>
from14 == <<s14, s15, from16>>
from12 == <<s12, s13, from14>>
from11 == <<s11, from12>>
from9 == <<s9, s10, from11>>
all == <<s1, s2, s3, s4, s5, s6, s7, s8, from9>>

StoresInit ==
  \/ setting = "write" /\ WriteInit /\ Empty1
  \/ /\ WriteInit /\ \A n \in Name : dir[n] = None
     /\ \A w \in Writer : job[w].kind = "save"
     /\ \/ setting = "identity" /\ Identity!IdentityInit /\ Empty9
        \/ setting = "versions" /\ Versions!ListInit /\ Empty12
        \/ setting = "watcher" /\ Watcher!WatchInit /\ Empty14
        \/ setting = "images" /\ Images!ImageInit /\ Empty11
        \/ setting = "placement" /\ Placement!PlacementInit
        \/ setting = "restore" /\ Restore!RestoreInit /\ Empty16

StoresNext ==
  \/ setting = "write" /\ WriteNext /\ UNCHANGED <<setting, all>>
  \/ setting = "identity" /\ Identity!IdentityNext /\ UNCHANGED <<others, from9>>
  \/ setting = "versions" /\ Versions!ListNext /\ UNCHANGED <<others, from12>>
  \/ setting = "watcher" /\ Watcher!WatchNext /\ UNCHANGED <<others, from14>>
  \/ setting = "images" /\ Images!ImageNext /\ UNCHANGED <<others, from11>>
  \/ setting = "placement" /\ Placement!PlacementNext /\ UNCHANGED others
  \/ setting = "restore" /\ Restore!RestoreNext /\ UNCHANGED <<others, from16>>

StoresSpec == StoresInit /\ [][StoresNext]_<<setting, writeVars, all>>

FilesKeepTheirHistory == setting = "identity" => Identity!FilesKeepTheirHistory
ListIsComplete == setting = "versions" => Versions!ListIsComplete
ChangesAreTold == setting = "watcher" => Watcher!ChangesAreTold
ImagesStand == setting = "images" => Images!ImagesStand
ImagesAreShown == setting = "images" => Images!ImagesAreShown
PlacementsArrive == setting = "placement" => Placement!PlacementsArrive
WindowsComeBackReachable == setting = "placement" => Placement!WindowsComeBackReachable
SessionComesBack == setting = "restore" => Restore!SessionComesBack
MountedAreOpen == setting = "restore" => Restore!MountedAreOpen
=============================================================================
