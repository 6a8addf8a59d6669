----------------------------- MODULE CloneWrite -----------------------------
(***************************************************************************)
(* Cloning a portal layer into a GeoPackage that may already be there, and *)
(* open in the project: by the Clone dialog, which closes the layers       *)
(* reading the file and puts them back if the write fails, and by the      *)
(* Processing algorithm, which does neither.                               *)
(*                                                                         *)
(* Code: gratisgis_qgis/ui/clone_dialog.py, offline/clone.py,              *)
(* layer_placement.py, processing/provider.py (CloneLayerAlgorithm).       *)
(*                                                                         *)
(* The dialog's write is one stretch of the GUI thread: no user, and no    *)
(* other dialog, acts in the middle of it.  The algorithm runs on a worker.*)
(***************************************************************************)
EXTENDS Happenings, Naturals, FiniteSets, FiniteSetsExt

CONSTANTS
    MaxClones,   \* bound: clones begun
    MaxReaders   \* bound: project layers that read the file

VARIABLES
    copy,        \* the file at the target path: its data and its two tables
    readers,     \* project layers reading it
    unsaved,     \* those with edits in the buffer
    by,          \* [Clones -> who makes the clone]
    cpc,         \* [Clones -> where it is]
    body,        \* [Clones -> the feature collection it downloaded]
    staged,      \* [Clones -> the file in its staging directory]
    backup,      \* [Clones -> previous.bak beside it]
    removed,     \* [Clones -> layers it took out of the project]
    trouble,     \* [Clones -> whether it raised, before or after the promote]
    gone,        \* [Clones -> its dialog was closed meanwhile]
    before,      \* [Clones -> the file as the write found it]
    said,        \* [Clones -> the message box at its end]
    cdlg,        \* the clone dialog: "none", "open"
    cbusy,       \* its Clone button is disabled
    halted       \* QGIS has died

cloneFileVars == <<copy, staged, backup>>
cloneVars == <<copy, readers, unsaved, by, cpc, body, staged, backup, removed,
               trouble, gone, before, said, cdlg, cbusy, halted>>

Clones == 1 .. MaxClones
Readers == 1 .. MaxReaders

\* The origin of bytes and tables: a clone, the file of before, or neither.
Nothing == 0
Previous == MaxClones + 1
Torn == MaxClones + 2      \* half of one and half of another
Empty == MaxClones + 2     \* a baseline table without rows

File == [data : 0 .. Torn, base : 0 .. Empty, origin : BOOLEAN]
NoFile == [data |-> Nothing, base |-> Nothing, origin |-> FALSE]

ClonePlaces == {"idle", "download", "fetched", "failed", "stage", "origin", "promote",
                "aside", "overwrite", "putback", "readback", "entries", "written",
                "raised", "over"}

CloneTypeOK ==
    /\ copy \in File
    /\ readers \subseteq Readers /\ unsaved \subseteq readers
    /\ by \in [Clones -> {"none", "dialog", "algorithm"}]
    /\ cpc \in [Clones -> ClonePlaces]
    /\ body \in [Clones -> {"none", "features", "empty"}]
    /\ staged \in [Clones -> File] /\ backup \in [Clones -> File]
    /\ removed \in [Clones -> SUBSET Readers]
    /\ trouble \in [Clones -> {"none", "early", "late"}]
    /\ gone \in [Clones -> BOOLEAN]
    /\ before \in [Clones -> File]
    /\ said \in [Clones -> {"nothing", "cloned", "notwritten", "stillthere", "notreopened",
                            "nodownload"}]
    /\ cdlg \in {"none", "open"} /\ cbusy \in BOOLEAN
    /\ halted \in BOOLEAN

CloneInit ==
    /\ copy \in {NoFile, [data |-> Previous, base |-> Previous, origin |-> TRUE]}
    /\ readers \in {{}} \cup (IF copy = NoFile THEN {} ELSE SUBSET Readers)
    /\ unsaved = {}
    /\ by = [c \in Clones |-> "none"] /\ cpc = [c \in Clones |-> "idle"]
    /\ body = [c \in Clones |-> "none"]
    /\ staged = [c \in Clones |-> NoFile] /\ backup = [c \in Clones |-> NoFile]
    /\ removed = [c \in Clones |-> {}]
    /\ trouble = [c \in Clones |-> "none"] /\ gone = [c \in Clones |-> FALSE]
    /\ before = [c \in Clones |-> NoFile]
    /\ said = [c \in Clones |-> "nothing"]
    /\ cdlg = "none" /\ cbusy = FALSE /\ halted = FALSE

At(c, p) == ~halted /\ cpc[c] = p
To(c, p) == cpc' = [cpc EXCEPT ![c] = p]

\* What ends in the caller's except clause.
Raises(c, when) ==
    /\ To(c, "raised")
    /\ trouble' = [trouble EXCEPT ![c] = when]
    /\ staged' = [staged EXCEPT ![c] = NoFile]
    /\ backup' = [backup EXCEPT ![c] = NoFile]

\* The GUI thread is not in the middle of a dialog's write.
GuiIsFree ==
    ~halted /\ \A c \in Clones : by[c] = "dialog" => cpc[c] \in {"idle", "download", "fetched", "failed", "over"}

-----------------------------------------------------------------------------
(* Asking for a clone                                                      *)

NextClone(c) == by[c] = "none" /\ \A d \in 1 .. c - 1 : by[d] # "none"

Asked(c, who) ==
    /\ by' = [by EXCEPT ![c] = who]
    /\ To(c, "download")

\* Bound: not while a run of the algorithm is on.
OpenCloneDialog ==
    /\ May("clone") /\ GuiIsFree /\ cdlg = "none"
    /\ \E c \in Clones : NextClone(c)
    /\ \A c \in Clones : by[c] = "algorithm" => cpc[c] = "over"
    /\ cdlg' = "open" /\ cbusy' = FALSE
    /\ UNCHANGED <<copy, readers, unsaved, by, cpc, body, staged, backup, removed,
                   trouble, gone, before, said, halted>>

\* _on_clone, with the user's yes to "Overwrite?".  validate_clone_target's
\* errors, a no and a layer with unsaved edits change nothing.
PressClone(c) ==
    /\ GuiIsFree /\ cdlg = "open" /\ ~cbusy
    /\ NextClone(c)
    /\ copy # NoFile => readers \cap unsaved = {}
    /\ Asked(c, "dialog")
    /\ cbusy' = TRUE
    /\ UNCHANGED <<copy, readers, unsaved, body, staged, backup, removed, trouble,
                   gone, before, said, cdlg, halted>>

\* reject: the download, which nothing cancels, goes on.
RejectClone ==
    /\ GuiIsFree /\ cdlg = "open"
    /\ cdlg' = "none"
    /\ gone' = [c \in Clones |-> gone[c] \/ (by[c] = "dialog" /\ cpc[c] # "over")]
    /\ UNCHANGED <<copy, readers, unsaved, by, cpc, body, staged, backup, removed,
                   trouble, before, said, cbusy, halted>>

\* Bound: one run of the algorithm at a time, and none beside the dialog.
StartCloneAlgorithm(c) ==
    /\ May("algorithm") /\ GuiIsFree /\ cdlg = "none"
    /\ NextClone(c) /\ \A d \in 1 .. c - 1 : cpc[d] = "over"
    /\ Asked(c, "algorithm")
    /\ UNCHANGED <<copy, readers, unsaved, body, staged, backup, removed, trouble,
                   gone, before, said, cdlg, cbusy, halted>>

\* The download.  An answer that is no feature collection becomes an empty one.
Download(c) ==
    /\ At(c, "download")
    /\ \/ /\ To(c, "fetched")
          /\ body' \in {[body EXCEPT ![c] = "features"]} \cup
                       {b \in {[body EXCEPT ![c] = "empty"]} : May("garbled")}
       \/ /\ May("nodownload") /\ To(c, "failed") /\ UNCHANGED body
    /\ UNCHANGED <<copy, readers, unsaved, by, staged, backup, removed, trouble, gone,
                   before, said, cdlg, cbusy, halted>>

\* The dialog's failed callback, and the algorithm's exception.
DownloadFailed(c) ==
    /\ At(c, "failed") /\ (by[c] = "dialog" => GuiIsFree)
    /\ To(c, "over")
    /\ said' = IF gone[c] THEN said ELSE [said EXCEPT ![c] = "nodownload"]
    /\ cbusy' = (cbusy /\ (gone[c] \/ by[c] # "dialog"))
    /\ UNCHANGED <<copy, readers, unsaved, by, body, staged, backup, removed, trouble,
                   gone, before, cdlg, halted>>

-----------------------------------------------------------------------------
(* The write                                                               *)

\* (The callback that writes whether or not its dialog is still there.)
BeginWriteUnaware(c) ==
    /\ At(c, "fetched") /\ by[c] = "dialog" /\ GuiIsFree
    /\ To(c, "stage")
    /\ before' = [before EXCEPT ![c] = copy]
    /\ removed' = [removed EXCEPT ![c] = readers]
    /\ readers' = {} /\ unsaved' = {}
    /\ UNCHANGED <<copy, by, body, staged, backup, trouble, gone, said, cdlg, cbusy, halted>>

\* done, and the first half of _write_and_load: every project layer that reads
\* the file leaves the project.
BeginWrite(c) ==
    /\ At(c, "fetched") /\ by[c] = "dialog" /\ GuiIsFree
    /\ IF gone[c]
       THEN To(c, "over") /\ UNCHANGED <<before, removed, readers, unsaved>>
       ELSE /\ To(c, "stage")
            /\ before' = [before EXCEPT ![c] = copy]
            /\ removed' = [removed EXCEPT ![c] = readers]
            /\ readers' = {} /\ unsaved' = unsaved \ readers
    /\ UNCHANGED <<copy, by, body, staged, backup, trouble, gone, said, cdlg, cbusy, halted>>

\* CloneLayerAlgorithm: it may have been cancelled; it closes nothing.
BeginAlgorithmWrite(c) ==
    /\ At(c, "fetched") /\ by[c] = "algorithm"
    /\ \/ To(c, "stage") /\ before' = [before EXCEPT ![c] = copy]
       \/ May("cancelclone") /\ To(c, "over") /\ UNCHANGED before
    /\ UNCHANGED <<copy, readers, unsaved, by, body, staged, backup, removed, trouble,
                   gone, said, cdlg, cbusy, halted>>

unwritten == <<readers, unsaved, by, body, removed, gone, before, said, cdlg, cbusy, halted>>

\* safe_write_path's staging directory, and the features written into it.
StageFeatures(c) ==
    /\ At(c, "stage")
    /\ \/ /\ staged' = [staged EXCEPT ![c] = [data |-> c, base |-> Nothing, origin |-> FALSE]]
          /\ To(c, "origin") /\ UNCHANGED <<backup, trouble>>
       \/ May("writefails") /\ Raises(c, "early")
    /\ UNCHANGED <<copy, unwritten>>

\* _write_clone_source_table, best effort.
StageOrigin(c) ==
    /\ At(c, "origin")
    /\ staged' \in {[staged EXCEPT ![c].origin = TRUE]} \cup {s \in {staged} : May("writefails")}
    /\ To(c, "promote")
    /\ UNCHANGED <<copy, backup, trouble, unwritten>>

Promoted(c) ==
    /\ copy' = staged[c]
    /\ staged' = [staged EXCEPT ![c] = NoFile]
    /\ backup' = [backup EXCEPT ![c] = NoFile]
    /\ To(c, "readback")
    /\ UNCHANGED trouble

\* _promote's rename.  Windows refuses it while a handle is open on the target:
\* a layer's, or one GDAL has kept of a layer that is gone.
Rename(c) ==
    /\ At(c, "promote")
    /\ \/ (May("windows") => readers = {}) /\ Promoted(c)
       \/ /\ May("windows") /\ copy # NoFile
          /\ To(c, "aside") /\ UNCHANGED <<copy, staged, backup, trouble>>
       \/ May("writefails") /\ copy = NoFile /\ Raises(c, "early") /\ UNCHANGED copy
    /\ UNCHANGED unwritten

SetAside(c) ==
    /\ At(c, "aside")
    /\ \/ /\ backup' = [backup EXCEPT ![c] = copy]
          /\ copy' = [copy EXCEPT !.data = Torn]
          /\ To(c, "overwrite") /\ UNCHANGED <<staged, trouble>>
       \/ May("writefails") /\ Raises(c, "early") /\ UNCHANGED copy
    /\ UNCHANGED unwritten

\* The bytes written over the old ones: until the last, the file is neither.
OverwriteInPlace(c) ==
    /\ At(c, "overwrite")
    /\ \/ Promoted(c)
       \/ May("writefails") /\ To(c, "putback") /\ UNCHANGED <<copy, staged, backup, trouble>>
    /\ UNCHANGED unwritten

\* (The in-place write without its way back.)
PutNothingBack(c) ==
    /\ At(c, "putback")
    /\ UNCHANGED copy
    /\ Raises(c, "early")
    /\ UNCHANGED unwritten

\* The previous contents copied back; an OSError here is suppressed.
PutBack(c) ==
    /\ At(c, "putback")
    /\ copy' \in {backup[c]} \cup {f \in {copy} : May("putbackfails")}
    /\ Raises(c, "early")
    /\ UNCHANGED unwritten

\* _write_baseline_table reads the finished file back; write_baseline then
\* drops and creates its table, which commits,
ReadBack(c) ==
    /\ At(c, "readback")
    /\ \/ copy' = [copy EXCEPT !.base = Empty] /\ To(c, "entries") /\ UNCHANGED <<staged, backup, trouble>>
       \/ May("baselinefails") /\ Raises(c, "late") /\ UNCHANGED copy
    /\ UNCHANGED unwritten

\* and inserts the rows in a transaction.
WriteEntries(c) ==
    /\ At(c, "entries")
    /\ \/ copy' = [copy EXCEPT !.base = c] /\ To(c, "written") /\ UNCHANGED <<staged, backup, trouble>>
       \/ May("baselinefails") /\ Raises(c, "late") /\ UNCHANGED copy
    /\ UNCHANGED unwritten

-----------------------------------------------------------------------------
(* The end of a clone                                                      *)

FirstRemoved(c) == {r \in removed[c] : r = Min(removed[c])}

\* _write_and_load's good end: one layer on the new file, where the first of
\* the old ones was.  One that QGIS cannot open is only logged.
CloneWritten(c) ==
    /\ At(c, "written") /\ To(c, "over")
    /\ said' = [said EXCEPT ![c] = "cloned"]
    /\ IF by[c] = "dialog"
       THEN /\ LET r == IF removed[c] = {} THEN 1 ELSE Min(removed[c]) IN
               readers' \in {readers \cup {r}} \cup {s \in {readers} : May("noreopen")}
            /\ cdlg' = "none" /\ cbusy' = FALSE
       ELSE UNCHANGED <<readers, cdlg, cbusy>>
    /\ UNCHANGED <<copy, unsaved, by, body, staged, backup, removed, trouble, gone, before, halted>>

\* (A failed write that says so and does no more.)
CloneRaisedPlainly(c) ==
    /\ At(c, "raised") /\ To(c, "over")
    /\ said' = [said EXCEPT ![c] = "notwritten"]
    /\ cbusy' = (cbusy /\ by[c] # "dialog")
    /\ UNCHANGED <<copy, readers, unsaved, by, body, staged, backup, removed, trouble, gone,
                   before, cdlg, halted>>

\* Both except clauses of _write_and_load: _restore_removed reopens the first of
\* the layers that were taken out, and _restored_note says which it was.
CloneRaised(c) ==
    /\ At(c, "raised") /\ To(c, "over")
    /\ \/ /\ removed[c] = {}
          /\ said' = [said EXCEPT ![c] = "notwritten"] /\ UNCHANGED readers
       \/ /\ removed[c] # {}
          /\ said' = [said EXCEPT ![c] = "stillthere"]
          /\ readers' = readers \cup FirstRemoved(c)
       \/ /\ removed[c] # {} /\ May("noreopen")
          /\ said' = [said EXCEPT ![c] = "notreopened"] /\ UNCHANGED readers
    /\ cbusy' = (cbusy /\ by[c] # "dialog")
    /\ UNCHANGED <<copy, unsaved, by, body, staged, backup, removed, trouble, gone, before, cdlg, halted>>

\* Somebody begins to edit a layer of the project, or saves: no dialog is up.
EditReader(r) ==
    /\ May("edits") /\ GuiIsFree /\ cdlg = "none" /\ r \in readers
    /\ unsaved' \in {unsaved \cup {r}, unsaved \ {r}}
    /\ UNCHANGED <<copy, readers, by, cpc, body, staged, backup, removed, trouble, gone,
                   before, said, cdlg, cbusy, halted>>

Die ==
    /\ May("death") /\ ~halted
    /\ \E c \in Clones : cpc[c] \notin {"idle", "over"}
    /\ halted' = TRUE
    /\ UNCHANGED <<copy, readers, unsaved, by, cpc, body, staged, backup, removed, trouble,
                   gone, before, said, cdlg, cbusy>>

CloneStep(c) ==
    \/ Download(c) \/ DownloadFailed(c) \/ BeginWrite(c) \/ BeginAlgorithmWrite(c)
    \/ StageFeatures(c) \/ StageOrigin(c) \/ Rename(c) \/ SetAside(c)
    \/ OverwriteInPlace(c) \/ PutBack(c) \/ ReadBack(c) \/ WriteEntries(c)
    \/ CloneWritten(c) \/ CloneRaised(c)

CloneUser ==
    \/ OpenCloneDialog \/ RejectClone \/ Die
    \/ \E c \in Clones : PressClone(c) \/ StartCloneAlgorithm(c)
    \/ \E r \in Readers : EditReader(r)

CloneNext == CloneUser \/ \E c \in Clones : CloneStep(c)
=============================================================================
