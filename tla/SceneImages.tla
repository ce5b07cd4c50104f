----------------------------- MODULE SceneImages ------------------------------
(***************************************************************************)
(* The images of a drawing.  The editor holds their bytes; a save stores   *)
(* each image once by its hash and writes a reference into the drawing     *)
(* (documents/assets.rs).  Where it stores them depends on the Workspace:  *)
(* its root's store while it is mounted, else the drawing's own folder.    *)
(* The window resolves the references again when it shows a drawing, by    *)
(* its own view of the Workspace (editor/assetResolver.ts).  Each drawing  *)
(* has a folder of its own here, which stands for the folder's store.      *)
(***************************************************************************)
EXTENDS Naturals, FiniteSets

CONSTANTS
  Image,      \* an image, known by its hash
  Drawing,
  Inside,     \* the drawings inside the Workspace
  AtHome,     \* the stores below the user's home, always readable
  Workspace,  \* its root
  None,
  MaxEdits, MaxCommands, MaxEvents   \* bounds; events: claims, crashes, other programs

Place == Drawing \union {Workspace}

VARIABLES
  claimant,  \* the window that has claimed the Workspace: this, another, None
  mounted,   \* the database's row for it, which follows the claim
  stored,    \* the images in each store
  granted,   \* what the webview may read outside the user's home
  file,      \* each drawing on disk
  draft,     \* its draft row, or what Recovery holds for it
  shown,     \* its session in the window
  version,   \* the images its last version in the history carries
  work,      \* the running command
  spent      \* bounds: edits, commands and events so far

imageVars == <<claimant, mounted, stored, granted, file, draft, shown, version, work, spent>>

-----------------------------------------------------------------------------
\* How a scene holds an image: its bytes, a reference, or (known to the model
\* only) a reference written down under another store than it was read from.
Form == {"none", "bytes", "ref", "stray"}
Scene == [Image -> Form]
Refers(s) == {i \in Image : s[i] \in {"ref", "stray"}}
Bytes(s) == {i \in Image : s[i] = "bytes"}
Images(s) == Bytes(s) \union Refers(s)
Held(images, form) == [i \in Image |-> IF i \in images THEN form ELSE "none"]

\* A written scene and the store its references are meant for.
Written == [scene : Scene, root : Place]
\* A session, with the store whose images its opening has asked access to.
Shown == [scene : Scene, canvas : Scene \union {None}, origin : Place,
          from : Place, asked : Place \union {None}]
Task == [kind : {"draft", "save", "saveAs", "elsewhere", "recover", "restore"},
         of : Drawing, to : Drawing, root : Place, scene : Scene, step : {"store", "write", "publish"}]

ImageTypeOK ==
  /\ claimant \in {None, "this", "another"} /\ mounted \in BOOLEAN
  /\ stored \in [Place -> SUBSET Image] /\ granted \subseteq Place \X Image
  /\ file \in [Drawing -> Written \union {None}] /\ draft \in [Drawing -> Written \union {None}]
  /\ shown \in [Drawing -> Shown \union {None}]
  /\ version \in [Drawing -> (SUBSET Image) \union {None}]
  /\ work \in Task \union {None}
  /\ spent \in [edits : 0..MaxEdits, commands : 0..MaxCommands, events : 0..MaxEvents]

ImageInit ==
  /\ claimant = None /\ mounted = FALSE
  /\ stored = [p \in Place |-> {}] /\ granted = {}
  /\ file = [d \in Drawing |-> [scene |-> Held({}, "ref"), root |-> d]]
  /\ draft = [d \in Drawing |-> None] /\ shown = [d \in Drawing |-> None]
  /\ version = [d \in Drawing |-> None] /\ work = None
  /\ spent = [edits |-> 0, commands |-> 0, events |-> 0]

Spend(what, most) == spent[what] < most /\ spent' = [spent EXCEPT ![what] = @ + 1]
Edited == Spend("edits", MaxEdits)
Called == Spend("commands", MaxCommands)
Event == Spend("events", MaxEvents)

-----------------------------------------------------------------------------
(* Where a drawing's images are.                                           *)

owning_workspace(d) == IF mounted /\ d \in Inside THEN Workspace ELSE None

AssetRoot(d) == IF owning_workspace(d) = None THEN d ELSE owning_workspace(d)

\* The window sees only a Workspace of its own.
ShownRoot(d) == IF claimant = "this" /\ d \in Inside THEN Workspace ELSE d

Readable(root, i) == i \in stored[root] /\ (root \in AtHome \/ <<root, i>> \in granted)

\* A slip of Grant: only the Workspace's store is granted.
GrantWorkspaceOnly(root, s) ==
  granted' = IF root # Workspace THEN granted
             ELSE granted \union {<<root, i>> : i \in Refers(s) \intersect stored[root]}

Grant(root, s) ==
  granted' = IF root \in AtHome THEN granted
             ELSE granted \union {<<root, i>> : i \in Refers(s) \intersect stored[root]}

\* What the canvas shows of a scene; a reference that cannot be read stays.
Resolved(s, root) ==
  [i \in Image |-> IF i \in Refers(s) /\ Readable(root, i) THEN "bytes" ELSE s[i]]

-----------------------------------------------------------------------------
(* The Workspace is claimed and released by this window or another; its    *)
(* row follows.  A window releases a Workspace when its tabs are closed.   *)

Claim(w) ==
  /\ work = None \/ w # "this"
  /\ claimant # w /\ (claimant = "this" => \A d \in Inside : shown[d] = None)
  /\ claimant' = w
  /\ Event
  /\ UNCHANGED <<mounted, stored, granted, file, draft, shown, version, work>>

Mount ==
  /\ mounted # (claimant # None) /\ mounted' = ~mounted
  /\ UNCHANGED <<claimant, stored, granted, file, draft, shown, version, work, spent>>

-----------------------------------------------------------------------------
(* Showing a drawing: doc_open, or the scene Recovery hands over, and then *)
(* the resolving of its images.                                            *)

Show(d, written, asked) ==
  shown' = [shown EXCEPT ![d] = [scene |-> written.scene, canvas |-> None, origin |-> written.root,
                                 from |-> d, asked |-> asked]]

Open(d) ==
  /\ work = None /\ shown[d] = None /\ file[d] # None
  /\ Show(d, file[d], AssetRoot(d))
  /\ Grant(AssetRoot(d), file[d].scene)
  /\ UNCHANGED <<claimant, mounted, stored, file, draft, version, work, spent>>

Restored(d) ==
  /\ work = None /\ shown[d] = None /\ draft[d] # None
  /\ Show(d, draft[d], None)
  /\ UNCHANGED <<claimant, mounted, stored, granted, file, draft, version, work, spent>>

Resolve(d) ==
  /\ shown[d] # None /\ shown[d].canvas = None
  /\ shown' = [shown EXCEPT ![d].canvas = Resolved(shown[d].scene, ShownRoot(d)),
                            ![d].from = ShownRoot(d)]
  /\ UNCHANGED <<claimant, mounted, stored, granted, file, draft, version, work, spent>>

\* Images are added, or something else changes; the session takes over what
\* the canvas holds.
Edit(d) ==
  /\ shown[d] # None /\ shown[d].canvas # None
  /\ \E added \in SUBSET {i \in Image : shown[d].canvas[i] = "none"} :
       LET c == [i \in Image |-> IF i \in added THEN "bytes" ELSE shown[d].canvas[i]] IN
         shown' = [shown EXCEPT ![d].canvas = c, ![d].scene = c]
  /\ Edited
  /\ UNCHANGED <<claimant, mounted, stored, granted, file, draft, version, work>>

Close(d) ==
  /\ work = None /\ shown[d] # None
  /\ shown' = [shown EXCEPT ![d] = None] /\ draft' = [draft EXCEPT ![d] = None]
  /\ UNCHANGED <<claimant, mounted, stored, granted, file, version, work, spent>>

-----------------------------------------------------------------------------
(* Saving: the root is settled when the path is authorized, the images are *)
(* stored, then the scene is written.                                      *)

Begin(kind, d, t, scene, origin) ==
  LET root == AssetRoot(t) IN
    work' = [kind |-> kind, of |-> d, to |-> t, root |-> root, step |-> "store",
             scene |-> [i \in Image |-> IF scene[i] = "ref" /\ root # origin THEN "stray" ELSE scene[i]]]

Save(d) ==
  /\ work = None /\ shown[d] # None /\ file[d] # None
  /\ \E kind \in {"draft", "save"} : Begin(kind, d, d, shown[d].scene, shown[d].origin)
  /\ Called
  /\ UNCHANGED <<claimant, mounted, stored, granted, file, draft, shown, version>>

\* The drawing's file is gone: its session is saved under another path or its own.
SaveOrphanedAs(d, t) ==
  /\ work = None /\ shown[d] # None /\ file[d] = None /\ (t # d => shown[t] = None)
  /\ Begin("saveAs", d, t, shown[d].scene, shown[d].origin)
  /\ Called
  /\ UNCHANGED <<claimant, mounted, stored, granted, file, draft, shown, version>>

\* A conflict's draft or Recovery's scene is saved elsewhere with its images
\* embedded again, or not at all.
Reembeddable(d) == Refers(draft[d].scene) \subseteq stored[AssetRoot(d)]

SaveElsewhere(d, t) ==
  /\ work = None /\ t # d /\ shown[t] = None /\ draft[d] # None /\ Reembeddable(d)
  /\ shown[d] # None => file[d] # None
  /\ Begin(IF shown[d] # None THEN "elsewhere" ELSE "recover", d, t,
           Held(Images(draft[d].scene), "bytes"), t)
  /\ Called
  /\ UNCHANGED <<claimant, mounted, stored, granted, file, draft, shown, version>>

\* The history restores its version: the current scene can be kept, and the
\* version brings its own images.
Capturable(d) == Refers(shown[d].scene) \subseteq stored[AssetRoot(d)]

RestoreVersion(d) ==
  /\ work = None /\ shown[d] # None /\ file[d] # None /\ version[d] # None /\ Capturable(d)
  /\ Begin("restore", d, d, Held(version[d], "bytes"), d)
  /\ Called
  /\ UNCHANGED <<claimant, mounted, stored, granted, file, draft, shown, version>>

At(step) == work # None /\ work.step = step
Goto(step) == work' = [work EXCEPT !.step = step]
Fresh(w) == Bytes(w.scene)
Stores(w) == w.kind # "recover"        \* Recovery writes the bytes and keeps the row so

\* A slip of StoreImages: an image that fails to be written is passed over.
StoreImagesTrying ==
  /\ At("store") /\ Goto("write")
  /\ \E some \in SUBSET Fresh(work) :
       stored' = [stored EXCEPT ![work.root] = @ \union some]
  /\ UNCHANGED <<claimant, mounted, granted, file, draft, shown, version, spent>>

StoreImages ==
  /\ At("store") /\ Goto("write")
  /\ stored' = IF Stores(work)
               THEN [stored EXCEPT ![work.root] = @ \union Fresh(work)] ELSE stored
  /\ UNCHANGED <<claimant, mounted, granted, file, draft, shown, version, spent>>

\* One image fails to be written: nothing refers to those before it.
StoreFails ==
  /\ At("store") /\ Stores(work)
  /\ \E some \in SUBSET Fresh(work) :
       /\ some # Fresh(work) \/ some = {}
       /\ stored' = [stored EXCEPT ![work.root] = @ \union some]
  /\ work' = None
  /\ UNCHANGED <<claimant, mounted, granted, file, draft, shown, version, spent>>

\* An invalid scene is refused before anything is stored.
Refuse ==
  /\ At("store") /\ work.kind # "restore" /\ work' = None
  /\ UNCHANGED <<claimant, mounted, stored, granted, file, draft, shown, version, spent>>

\* The file or the row cannot be written, or another program has changed the
\* drawing: what is stored stays.
WriteFails ==
  /\ At("write") /\ work' = None
  /\ UNCHANGED <<claimant, mounted, stored, granted, file, draft, shown, version, spent>>

References(w) == [i \in Image |-> IF w.scene[i] = "bytes" THEN "ref" ELSE w.scene[i]]
Record(w) == [scene |-> References(w), root |-> w.root]

WriteDraft ==
  /\ At("write") /\ work.kind = "draft"
  /\ draft' = [draft EXCEPT ![work.of] = Record(work)]
  /\ work' = None
  /\ UNCHANGED <<claimant, mounted, stored, granted, file, shown, version, spent>>

WriteFile ==
  /\ At("write") /\ work.kind \in {"save", "saveAs"}
  /\ file' = [file EXCEPT ![work.to] = Record(work)]
  /\ draft' = [draft EXCEPT ![work.to] = Record(work), ![work.of] = IF work.of = work.to THEN Record(work) ELSE None]
  /\ shown' = IF work.of = work.to THEN shown
              ELSE [shown EXCEPT ![work.of] = None, ![work.to] = shown[work.of]]
  /\ Goto("publish")
  /\ UNCHANGED <<claimant, mounted, stored, granted, version, spent>>

\* The file carries its images; the row of the new path refers to them.
WriteElsewhere ==
  /\ At("write") /\ work.kind \in {"elsewhere", "recover"}
  /\ file' = [file EXCEPT ![work.to] = [scene |-> work.scene, root |-> work.root]]
  /\ draft' = [draft EXCEPT ![work.of] = None,
                            ![work.to] = IF Stores(work) THEN Record(work)
                                         ELSE [scene |-> work.scene, root |-> work.root]]
  /\ shown' = [shown EXCEPT ![work.of] = None, ![work.to] = shown[work.of]]
  /\ work' = None
  /\ UNCHANGED <<claimant, mounted, stored, granted, version, spent>>

WriteVersion ==
  /\ At("write") /\ work.kind = "restore"
  /\ file' = [file EXCEPT ![work.to] = Record(work)]
  /\ draft' = [draft EXCEPT ![work.to] = Record(work)]
  /\ Grant(work.root, References(work))
  /\ Show(work.of, Record(work), work.root)
  /\ work' = None
  /\ UNCHANGED <<claimant, mounted, stored, version, spent>>

\* The checkpoint's version takes copies of the images, or is left out.
Publishable(w) == Refers(References(w)) \subseteq stored[w.root]

Publish ==
  /\ At("publish") /\ work' = None
  /\ version' = IF Publishable(work)
                THEN [version EXCEPT ![work.to] = Images(work.scene)] ELSE version
  /\ UNCHANGED <<claimant, mounted, stored, granted, file, draft, shown, spent>>

-----------------------------------------------------------------------------
(* Another program writes a drawing as the standard has it, or removes it; *)
(* the process ends.                                                       *)

Foreign(d) ==
  /\ work = None
  /\ file' = [file EXCEPT ![d] = [scene |-> Held(Image, "bytes"), root |-> d]]
  /\ Event
  /\ UNCHANGED <<claimant, mounted, stored, granted, draft, shown, version, work>>

Remove(d) ==
  /\ work = None /\ file[d] # None /\ file' = [file EXCEPT ![d] = None]
  /\ Event
  /\ UNCHANGED <<claimant, mounted, stored, granted, draft, shown, version, work>>

Crash ==
  /\ shown' = [d \in Drawing |-> None] /\ work' = None /\ granted' = {} /\ claimant' = None
  /\ Event
  /\ UNCHANGED <<mounted, stored, file, draft, version>>

ImageNext ==
  \/ \E w \in {None, "this", "another"} : Claim(w)
  \/ \E d \in Drawing :
       Open(d) \/ Restored(d) \/ Resolve(d) \/ Edit(d) \/ Close(d) \/ Save(d)
         \/ RestoreVersion(d) \/ Foreign(d) \/ Remove(d)
  \/ \E d, t \in Drawing : SaveOrphanedAs(d, t) \/ SaveElsewhere(d, t)
  \/ Mount \/ StoreImages \/ StoreFails \/ Refuse \/ WriteFails \/ WriteDraft \/ WriteFile \/ WriteElsewhere
  \/ WriteVersion \/ Publish \/ Crash

ImageSpec == ImageInit /\ [][ImageNext]_imageVars

-----------------------------------------------------------------------------
\* Every image a drawing or a draft refers to is in the store it was written
\* for, whatever fails or ends in between, unless the reference was written
\* down under another store than the one it had been read from: storing
\* (externalize_files) always precedes the writing of the reference.
Stands(scene, root) == \A i \in Image : scene[i] = "ref" => i \in stored[root]

ImagesStand ==
  \A d \in Drawing : \A w \in {file[d], draft[d]} \ {None} : Stands(w.scene, w.root)

\* A drawing shows the images that its window looks for where they were meant
\* to be, if that store is at the user's home, or is the one that the drawing's
\* opening asked access to: not if the Workspace was mounted or released
\* between the last save and the opening.
Shows(s) ==
  s.canvas # None /\ s.from = s.origin /\ (s.origin \in AtHome \/ s.asked = s.origin) =>
    \A i \in Image : s.canvas[i] # "ref"

ImagesAreShown == \A d \in Drawing : shown[d] # None => Shows(shown[d])

\* What the two rest on.  A session refers to what is stored for it, and may
\* read what its opening asked for.
SessionStands(s) ==
  /\ Stands(s.scene, s.origin)
  /\ s.canvas # None => Stands(s.canvas, s.origin)
  /\ s.canvas = None /\ s.asked = s.origin =>
       \A i \in Image : s.scene[i] = "ref" => Readable(s.origin, i)

\* A command writes references to what it has found or has stored before.
WorkStands ==
  /\ Stands(work.scene, work.root)
  /\ work.step # "store" /\ Stores(work) => Fresh(work) \subseteq stored[work.root]

ImageInv ==
  /\ ImageTypeOK
  /\ ImagesStand
  /\ ImagesAreShown
  /\ \A d \in Drawing : shown[d] # None => SessionStands(shown[d])
  /\ work # None => WorkStands
=============================================================================
