-------------------------- MODULE CloneWriteProofs --------------------------
(***************************************************************************)
(* Proofs about the clone writes of Desk, for any number of clones and of  *)
(* project layers, and any failures: the file at the target is the old     *)
(* copy or a new one, and a write that failed early left nothing there.    *)
(***************************************************************************)
EXTENDS Desk, WellFoundedInduction, TLAPS

Writing == {"stage", "origin", "promote", "aside", "overwrite", "putback", "readback",
            "entries", "written", "raised"}
InPlace == {"overwrite", "putback"}
Placed == {"readback", "entries", "written", "raised", "over"}

\* The part of the types that the argument needs.
FilesTypeOK ==
    /\ copy \in File
    /\ by \in [Clones -> {"none", "dialog", "algorithm"}]
    /\ cpc \in [Clones -> ClonePlaces]
    /\ staged \in [Clones -> File] /\ backup \in [Clones -> File]
    /\ trouble \in [Clones -> {"none", "early", "late"}]

\* One clone at a time writes: clones are begun in order, the dialog's callback
\* waits for the GUI thread, and the algorithm has the file to itself.
Turns ==
    /\ \A c \in Clones : by[c] = "none" <=> cpc[c] = "idle"
    /\ \A c, d \in Clones : c < d /\ by[c] = "none" => by[d] = "none"
    /\ \A c, d \in Clones : cpc[c] \in Writing /\ cpc[d] \in Writing => c = d
    /\ \A c \in Clones : by[c] = "algorithm" /\ cpc[c] # "over" =>
           cdlg = "none" /\ \A d \in Clones : d # c => cpc[d] \in {"idle", "over"}

\* Nothing of clone c may be at the target: it is not there yet, or has failed.
Kept(c) == cpc[c] \notin Placed \/ trouble[c] = "early"

\* What is staged is the clone's own; neither the file nor a backup of it holds
\* anything of a clone that is kept out.
StagedInv(c) ==
    /\ cpc[c] \in {"origin", "promote", "aside"} \cup InPlace => staged[c].data = c
    /\ trouble[c] # "none" => cpc[c] \in {"raised", "over"}
    /\ Kept(c) => /\ copy.data # c
                  /\ \A d \in Clones : cpc[d] \in InPlace => backup[d].data # c

\* A torn file is one being overwritten, or one that could not be put back.
TornInv ==
    /\ copy.data = Torn => halted \/ May("putbackfails") \/ \E c \in Clones : cpc[c] \in InPlace
    /\ \A c \in Clones : cpc[c] \in InPlace /\ backup[c].data = Torn => May("putbackfails")

CloneInv == FilesTypeOK /\ Turns /\ (\A c \in Clones : StagedInv(c)) /\ TornInv

-----------------------------------------------------------------------------
(* Files                                                                   *)

\* The origins of bytes are told apart.
LEMMA Origins ==
    /\ \A c \in Clones : c # Nothing /\ c # Previous /\ c # Torn /\ c \in 0 .. Torn
    /\ {Nothing, Previous, Torn, Empty} \subseteq 0 .. Torn
    /\ Torn # Nothing /\ Torn # Previous
BY DeskAssumption DEF Clones, Nothing, Previous, Torn, Empty

\* What a write makes of a file.
LEMMA FileMoves ==
    ASSUME NEW t \in File
    PROVE  /\ [t EXCEPT !.data = Torn] \in File /\ [t EXCEPT !.data = Torn].data = Torn
           /\ [t EXCEPT !.origin = TRUE] \in File /\ [t EXCEPT !.origin = TRUE].data = t.data
           /\ \A b \in 0 .. Empty :
                 [t EXCEPT !.base = b] \in File /\ [t EXCEPT !.base = b].data = t.data
BY Origins DEF File, Torn, Empty

\* The two files that are made from nothing.
LEMMA NewFiles ==
    /\ NoFile \in File /\ NoFile.data = Nothing
    /\ \A c \in Clones :
          LET t == [data |-> c, base |-> Nothing, origin |-> FALSE] IN t \in File /\ t.data = c
BY Origins DEF File, NoFile, Nothing, Empty, Torn

\* Before the first clone.
LEMMA CloneInvInit == DeskInit => CloneInv
<1> SUFFICES ASSUME CloneInit PROVE CloneInv
  BY DEF DeskInit
<1> USE DEF CloneInit
<1>1. copy \in File /\ copy.data # Torn /\ \A c \in Clones : copy.data # c
  <2>1. CASE copy = NoFile
    BY <2>1, NewFiles, Origins
  <2>2. CASE copy = [data |-> Previous, base |-> Previous, origin |-> TRUE]
    <3>1. Previous \in 0 .. Torn /\ Previous \in 0 .. Empty
      BY Origins DEF Torn, Empty
    <3> QED
      BY <2>2, <3>1, Origins DEF File
  <2> QED
    BY <2>1, <2>2
<1>2. FilesTypeOK
  BY <1>1, NewFiles DEF FilesTypeOK, ClonePlaces
<1>3. Turns
  BY DEF Turns, Writing
<1>4. (\A c \in Clones : StagedInv(c)) /\ TornInv
  BY <1>1 DEF StagedInv, TornInv, Kept, Placed, InPlace
<1> QED
  BY <1>2, <1>3, <1>4 DEF CloneInv

-----------------------------------------------------------------------------
(* The steps of a clone                                                    *)

\* A step of one clone leaves the others where they are.
LEMMA OthersStay ==
    ASSUME FilesTypeOK, NEW c \in Clones, CloneStep(c)
    PROVE  /\ ~halted /\ by' = by /\ (cdlg' = cdlg \/ cdlg' = "none")
           /\ \A d \in Clones : d # c => /\ cpc'[d] = cpc[d] /\ staged'[d] = staged[d]
                                         /\ backup'[d] = backup[d] /\ trouble'[d] = trouble[d]
<1> USE DEF At, To, Raises, Promoted, unwritten, FilesTypeOK
<1>1. CASE Download(c) \/ DownloadFailed(c) \/ BeginWrite(c) \/ BeginAlgorithmWrite(c)
  BY <1>1 DEF Download, DownloadFailed, BeginWrite, BeginAlgorithmWrite, GuiIsFree
<1>2. CASE StageFeatures(c) \/ StageOrigin(c) \/ Rename(c)
  BY <1>2 DEF StageFeatures, StageOrigin, Rename
<1>3. CASE SetAside(c) \/ OverwriteInPlace(c) \/ PutBack(c)
  BY <1>3 DEF SetAside, OverwriteInPlace, PutBack
<1>4. CASE ReadBack(c) \/ WriteEntries(c) \/ CloneWritten(c) \/ CloneRaised(c)
  BY <1>4 DEF ReadBack, WriteEntries, CloneWritten, CloneRaised
<1> QED
  BY <1>1, <1>2, <1>3, <1>4 DEF CloneStep

\* Where a step takes its own clone.
Order(from, to) ==
    \/ from = "download" /\ to \in {"fetched", "failed"}
    \/ from = "failed" /\ to = "over"
    \/ from = "fetched" /\ to \in {"stage", "over"}
    \/ from = "stage" /\ to \in {"origin", "raised"}
    \/ from = "origin" /\ to = "promote"
    \/ from = "promote" /\ to \in {"readback", "aside", "raised"}
    \/ from = "aside" /\ to \in {"overwrite", "raised"}
    \/ from = "overwrite" /\ to \in {"readback", "putback"}
    \/ from = "putback" /\ to = "raised"
    \/ from = "readback" /\ to \in {"entries", "raised"}
    \/ from = "entries" /\ to \in {"written", "raised"}
    \/ from = "written" /\ to = "over"
    \/ from = "raised" /\ to = "over"

\* Every step goes by that order.
LEMMA InOrder ==
    ASSUME FilesTypeOK, NEW c \in Clones, CloneStep(c)
    PROVE  Order(cpc[c], cpc'[c])
BY DEF CloneStep, Download, DownloadFailed, BeginWrite, BeginAlgorithmWrite, StageFeatures,
       StageOrigin, Rename, SetAside, OverwriteInPlace, PutBack, ReadBack, WriteEntries,
       CloneWritten, CloneRaised, At, To, Raises, Promoted, FilesTypeOK, Order

\* And what it makes of the files, by the place it starts from.  A step that
\* raises drops what was staged and set aside.
Works(c) ==
    \/ /\ UNCHANGED <<copy, staged, backup, trouble>>
       /\ cpc'[c] \notin InPlace /\ (Kept(c)' => Kept(c))
       /\ cpc'[c] \in {"origin", "promote", "aside"} => cpc[c] \in {"origin", "promote", "aside"}
       /\ cpc[c] \notin InPlace
    \/ /\ cpc[c] = "stage" /\ cpc'[c] = "origin" /\ UNCHANGED <<copy, backup, trouble>>
       /\ staged'[c] \in File /\ staged'[c].data = c
    \/ /\ cpc[c] = "origin" /\ cpc'[c] = "promote" /\ UNCHANGED <<copy, backup, trouble>>
       /\ staged'[c] \in File /\ staged'[c].data = staged[c].data
    \/ /\ cpc[c] \in {"promote", "overwrite"} /\ cpc'[c] = "readback"
       /\ copy' = staged[c] /\ UNCHANGED trouble
       /\ staged'[c] = NoFile /\ backup'[c] = NoFile
    \/ /\ cpc[c] = "aside" /\ cpc'[c] = "overwrite" /\ UNCHANGED <<staged, trouble>>
       /\ backup'[c] = copy /\ copy' \in File /\ copy'.data = Torn
    \/ cpc[c] = "overwrite" /\ cpc'[c] = "putback" /\ UNCHANGED <<copy, staged, backup, trouble>>
    \/ /\ cpc[c] \in {"readback", "entries"} /\ cpc'[c] \in {"entries", "written"}
       /\ UNCHANGED <<staged, backup, trouble>> /\ copy' \in File /\ copy'.data = copy.data
    \/ /\ cpc[c] \in {"stage", "promote", "aside"} /\ cpc'[c] = "raised" /\ trouble'[c] = "early"
       /\ UNCHANGED copy /\ staged'[c] = NoFile /\ backup'[c] = NoFile
    \/ /\ cpc[c] = "putback" /\ cpc'[c] = "raised" /\ trouble'[c] = "early"
       /\ copy' = backup[c] \/ (copy' = copy /\ May("putbackfails"))
       /\ staged'[c] = NoFile /\ backup'[c] = NoFile
    \/ /\ cpc[c] \in {"readback", "entries"} /\ cpc'[c] = "raised" /\ trouble'[c] = "late"
       /\ UNCHANGED copy /\ staged'[c] = NoFile /\ backup'[c] = NoFile

\* Every step of a clone is one of these.
LEMMA WorksSo ==
    ASSUME FilesTypeOK, NEW c \in Clones, StagedInv(c), CloneStep(c)
    PROVE  Works(c)
<1> USE DEF At, To, Raises, Promoted, unwritten, InPlace, Kept, Placed
<1>1. /\ copy \in File /\ staged[c] \in File /\ Empty \in 0 .. Empty /\ c \in 0 .. Empty
      /\ cpc \in [Clones -> ClonePlaces] /\ staged \in [Clones -> File]
      /\ backup \in [Clones -> File] /\ trouble \in [Clones -> {"none", "early", "late"}]
  BY Origins DEF FilesTypeOK, Torn, Empty
<1>2. CASE Download(c) \/ DownloadFailed(c) \/ BeginWrite(c) \/ BeginAlgorithmWrite(c)
  BY <1>1, <1>2 DEF Download, DownloadFailed, BeginWrite, BeginAlgorithmWrite, Works
<1>3. CASE StageFeatures(c)
  BY <1>1, <1>3, NewFiles DEF StageFeatures, Works
<1>4. CASE StageOrigin(c)
  <2>1. cpc[c] = "origin" /\ cpc'[c] = "promote" /\ UNCHANGED <<copy, backup, trouble>>
    BY <1>1, <1>4 DEF StageOrigin
  <2>2. CASE staged' = [staged EXCEPT ![c].origin = TRUE]
    <3>1. staged'[c] = [staged[c] EXCEPT !.origin = TRUE]
      BY <1>1, <2>2
    <3>2. staged'[c] \in File /\ staged'[c].data = staged[c].data
      BY <1>1, <3>1, FileMoves
    <3> QED
      BY <2>1, <3>2 DEF Works
  <2>3. CASE staged' = staged
    BY <1>1, <2>1, <2>3 DEF Works
  <2> QED
    BY <1>4, <2>2, <2>3 DEF StageOrigin
<1>5. CASE Rename(c)
  BY <1>1, <1>5 DEF Rename, Works
<1>6. CASE SetAside(c)
  BY <1>1, <1>6, FileMoves DEF SetAside, Works
<1>7. CASE OverwriteInPlace(c)
  BY <1>1, <1>7 DEF OverwriteInPlace, Works
<1>8. CASE PutBack(c)
  BY <1>1, <1>8 DEF PutBack, Works
<1>9. CASE ReadBack(c)
  <2>1. [copy EXCEPT !.base = Empty] \in File /\ [copy EXCEPT !.base = Empty].data = copy.data
    BY <1>1, FileMoves
  <2> QED
    BY <1>1, <1>9, <2>1 DEF ReadBack, Works
<1>10. CASE WriteEntries(c)
  <2>1. [copy EXCEPT !.base = c] \in File /\ [copy EXCEPT !.base = c].data = copy.data
    BY <1>1, FileMoves
  <2> QED
    BY <1>1, <1>10, <2>1 DEF WriteEntries, Works
<1>11. CASE CloneWritten(c)
  BY <1>1, <1>11 DEF CloneWritten, StagedInv, Works
<1>12. CASE CloneRaised(c)
  BY <1>1, <1>12 DEF CloneRaised, Works
<1> QED
  BY <1>2, <1>3, <1>4, <1>5, <1>6, <1>7, <1>8, <1>9, <1>10, <1>11, <1>12 DEF CloneStep

\* A step of a clone keeps the types.
LEMMA FilesTypeStep ==
    ASSUME FilesTypeOK, NEW c \in Clones, CloneStep(c)
    PROVE  FilesTypeOK'
<1> USE DEF At, To, Raises, Promoted, unwritten, FilesTypeOK, ClonePlaces
<1>0. NoFile \in File /\ copy \in File /\ staged[c] \in File /\ backup[c] \in File
  BY NewFiles
<1>1. CASE Download(c) \/ DownloadFailed(c) \/ BeginWrite(c) \/ BeginAlgorithmWrite(c)
  BY <1>1 DEF Download, DownloadFailed, BeginWrite, BeginAlgorithmWrite
<1>2. CASE StageFeatures(c)
  <2>1. [data |-> c, base |-> Nothing, origin |-> FALSE] \in File
    BY NewFiles
  <2>2. [staged EXCEPT ![c] = [data |-> c, base |-> Nothing, origin |-> FALSE]]
            \in [Clones -> File]
    BY <2>1
  <2>3. CASE /\ staged' = [staged EXCEPT ![c] = [data |-> c, base |-> Nothing, origin |-> FALSE]]
             /\ To(c, "origin") /\ UNCHANGED <<backup, trouble>>
    BY <1>0, <1>2, <2>2, <2>3 DEF StageFeatures
  <2>4. CASE Raises(c, "early")
    BY <1>0, <1>2, <2>4 DEF StageFeatures
  <2> QED
    BY <1>2, <2>3, <2>4 DEF StageFeatures
<1>3. CASE StageOrigin(c)
  <2>1. [staged[c] EXCEPT !.origin = TRUE] \in File
    BY <1>0, FileMoves
  <2>2. [staged EXCEPT ![c].origin = TRUE] \in [Clones -> File]
    BY <2>1
  <2> QED
    BY <1>3, <2>2 DEF StageOrigin
<1>4. CASE Rename(c)
  BY <1>0, <1>4 DEF Rename
<1>5. CASE SetAside(c)
  <2>1. [copy EXCEPT !.data = Torn] \in File
    BY <1>0, FileMoves
  <2> QED
    BY <1>0, <1>5, <2>1 DEF SetAside
<1>6. CASE OverwriteInPlace(c) \/ PutBack(c)
  BY <1>0, <1>6 DEF OverwriteInPlace, PutBack
<1>7. CASE ReadBack(c) \/ WriteEntries(c)
  <2>1. \A b \in 0 .. Empty : [copy EXCEPT !.base = b] \in File
    BY <1>0, FileMoves
  <2>2. Empty \in 0 .. Empty /\ c \in 0 .. Empty
    BY Origins DEF Torn, Empty
  <2> QED
    BY <1>0, <1>7, <2>1, <2>2 DEF ReadBack, WriteEntries
<1>8. CASE CloneWritten(c) \/ CloneRaised(c)
  BY <1>8 DEF CloneWritten, CloneRaised
<1> QED
  BY <1>1, <1>2, <1>3, <1>4, <1>5, <1>6, <1>7, <1>8 DEF CloneStep

\* Nobody else is writing when a clone begins to write.
LEMMA OneWriter ==
    ASSUME FilesTypeOK, Turns, NEW c \in Clones, BeginWrite(c) \/ BeginAlgorithmWrite(c),
           NEW d \in Clones, d # c
    PROVE  cpc[d] \notin Writing
<1>1. CASE BeginWrite(c)
  <2>1. by[d] # "algorithm" \/ cpc[d] = "over"
    BY <1>1 DEF BeginWrite, At, Turns
  <2>2. by[d] = "dialog" => cpc[d] \notin Writing
    BY <1>1 DEF BeginWrite, GuiIsFree, Writing
  <2>3. by[d] = "none" => cpc[d] = "idle"
    BY DEF Turns
  <2> QED
    BY <2>1, <2>2, <2>3 DEF FilesTypeOK, Writing
<1>2. CASE BeginAlgorithmWrite(c)
  BY <1>2 DEF BeginAlgorithmWrite, At, Turns, Writing
<1> QED
  BY <1>1, <1>2

\* A step of a clone keeps the turns.
LEMMA TurnStep ==
    ASSUME FilesTypeOK, Turns, NEW c \in Clones, CloneStep(c)
    PROVE  Turns'
<1>1. by' = by /\ (cdlg' = cdlg \/ cdlg' = "none") /\ \A d \in Clones : d # c => cpc'[d] = cpc[d]
  BY OthersStay
<1>2. Order(cpc[c], cpc'[c])
  BY InOrder
<1>3. cpc[c] \notin {"idle", "over"} /\ cpc'[c] # "idle"
  BY <1>2 DEF Order
<1>4. cpc'[c] \in Writing => cpc[c] \in Writing \/ \A d \in Clones : d # c => cpc[d] \notin Writing
  <2>1. CASE BeginWrite(c) \/ BeginAlgorithmWrite(c)
    BY <2>1, OneWriter
  <2>2. CASE cpc[c] # "fetched"
    BY <1>2, <2>2 DEF Order, Writing
  <2>3. cpc[c] = "fetched" => BeginWrite(c) \/ BeginAlgorithmWrite(c)
    BY DEF CloneStep, Download, DownloadFailed, StageFeatures, StageOrigin, Rename, SetAside,
           OverwriteInPlace, PutBack, ReadBack, WriteEntries, CloneWritten, CloneRaised, At
  <2> QED
    BY <2>1, <2>2, <2>3
<1>5. \A a \in Clones : by'[a] = "none" <=> cpc'[a] = "idle"
  BY <1>1, <1>3 DEF Turns
<1>6. \A a, d \in Clones : a < d /\ by'[a] = "none" => by'[d] = "none"
  BY <1>1 DEF Turns
<1>7. \A a, d \in Clones : cpc'[a] \in Writing /\ cpc'[d] \in Writing => a = d
  BY <1>1, <1>4 DEF Turns
<1>8. ASSUME NEW a \in Clones, by'[a] = "algorithm", cpc'[a] # "over"
      PROVE  cdlg' = "none" /\ \A d \in Clones : d # a => cpc'[d] \in {"idle", "over"}
  <2>1. cpc[a] # "over"
    BY <1>1, <1>3, <1>8
  <2>2. cdlg = "none" /\ \A d \in Clones : d # a => cpc[d] \in {"idle", "over"}
    BY <1>1, <1>8, <2>1 DEF Turns
  <2>3. a = c
    BY <1>3, <2>2
  <2> QED
    BY <1>1, <2>2, <2>3
<1> QED
  BY <1>5, <1>6, <1>7, <1>8 DEF Turns

\* A step of a clone keeps what is said of the files.
LEMMA FilesStep ==
    ASSUME CloneInv, NEW c \in Clones, CloneStep(c), UNCHANGED env
    PROVE  (\A d \in Clones : StagedInv(d)') /\ TornInv'
<1>0. FilesTypeOK /\ Turns /\ (\A d \in Clones : StagedInv(d)) /\ TornInv
  BY DEF CloneInv
<1>1. Works(c) /\ Order(cpc[c], cpc'[c])
  BY <1>0, WorksSo, InOrder
<1>2. /\ ~halted
      /\ \A d \in Clones : d # c => /\ cpc'[d] = cpc[d] /\ staged'[d] = staged[d]
                                    /\ backup'[d] = backup[d] /\ trouble'[d] = trouble[d]
  BY <1>0, OthersStay
<1>3. cpc[c] \in Writing => \A d \in Clones : d # c => cpc[d] \notin InPlace
  BY <1>0 DEF Turns, Writing, InPlace
<1>4. \A d \in Clones : d # c => (Kept(d)' <=> Kept(d))
  BY <1>2 DEF Kept
<1>5. StagedInv(c)
  BY <1>0
<1> USE DEF InPlace, Placed, Kept, StagedInv
<1>6. ASSUME NEW d \in Clones PROVE StagedInv(d)'
  <2>1. CASE d = c
    <3>1. cpc'[c] \in {"origin", "promote", "aside"} \cup InPlace => staged'[c].data = c
      BY <1>1, <1>5 DEF Works
    <3>2. trouble'[c] # "none" => cpc'[c] \in {"raised", "over"}
      BY <1>1, <1>5 DEF Works, Order
    <3>3. Kept(c)' => copy'.data # c
      BY <1>1, <1>5, Origins DEF Works
    <3>4. Kept(c)' => \A e \in Clones : cpc'[e] \in InPlace => backup'[e].data # c
      BY <1>1, <1>2, <1>5 DEF Works
    <3> QED
      BY <2>1, <3>1, <3>2, <3>3, <3>4
  <2>2. CASE d # c
    <3>1. cpc'[d] \in {"origin", "promote", "aside"} \cup InPlace => staged'[d].data = d
      BY <1>0, <1>2, <2>2
    <3>2. trouble'[d] # "none" => cpc'[d] \in {"raised", "over"}
      BY <1>0, <1>2, <2>2
    <3>3. Kept(d) => copy'.data # d
      BY <1>0, <1>1, <1>5, <2>2, Origins DEF Works
    <3>4. Kept(d) => \A e \in Clones : cpc'[e] \in InPlace => backup'[e].data # d
      BY <1>0, <1>1, <1>2, <2>2 DEF Works
    <3> QED
      BY <1>4, <2>2, <3>1, <3>2, <3>3, <3>4
  <2> QED
    BY <2>1, <2>2
<1>7. TornInv'
  <2> USE DEF TornInv, May
  <2>1. \A d \in Clones : cpc'[d] \in InPlace /\ backup'[d].data = Torn => May("putbackfails")
    <3>1. cpc[c] = "aside" /\ copy.data = Torn => May("putbackfails")
      BY <1>0, <1>2, <1>3 DEF Writing
    <3>2. cpc'[c] \in InPlace /\ backup'[c].data = Torn => May("putbackfails")
      BY <1>0, <1>1, <3>1 DEF Works
    <3> QED
      BY <1>0, <1>2, <3>2
  <2>2. copy'.data = Torn => May("putbackfails") \/ \E d \in Clones : cpc'[d] \in InPlace
    <3>1. copy'.data = Torn /\ copy' # copy =>
              copy'.data = copy.data \/ cpc'[c] \in InPlace \/ May("putbackfails")
      BY <1>0, <1>1, <1>5, Origins DEF Works
    <3>2. copy.data = Torn /\ copy'.data = copy.data /\ ~May("putbackfails") =>
              \E d \in Clones : cpc'[d] \in InPlace
      <4>1. SUFFICES ASSUME copy.data = Torn, copy'.data = copy.data, ~May("putbackfails")
                     PROVE  \E d \in Clones : cpc'[d] \in InPlace
        OBVIOUS
      <4>2. PICK d \in Clones : cpc[d] \in InPlace
        BY <1>0, <1>2, <4>1
      <4>3. d = c => cpc'[c] \in InPlace
        BY <1>0, <1>1, <1>5, <4>1, <4>2, Origins DEF Works
      <4> QED
        BY <1>2, <4>2, <4>3
    <3> QED
      BY <3>1, <3>2
  <2> QED
    BY <2>1, <2>2
<1> QED
  BY <1>6, <1>7

-----------------------------------------------------------------------------
(* The user, and everybody else                                            *)

\* A clone is asked for in its turn, by the dialog or by the algorithm.
LEMMA AskedKeeps ==
    ASSUME CloneInv, NEW c \in Clones, NEW who \in {"dialog", "algorithm"}, Asked(c, who),
           NextClone(c), cdlg' = cdlg, UNCHANGED <<env, copy, staged, backup, trouble, halted>>,
           \/ /\ who = "dialog"
              /\ \A d \in Clones : by[d] = "algorithm" => cpc[d] = "over"
           \/ /\ who = "algorithm" /\ cdlg = "none"
              /\ \A d \in 1 .. c - 1 : cpc[d] = "over"
    PROVE  CloneInv'
<1>0. FilesTypeOK /\ Turns /\ (\A d \in Clones : StagedInv(d)) /\ TornInv
  BY DEF CloneInv
<1>1. /\ cpc[c] = "idle" /\ by[c] = "none" /\ cpc'[c] = "download" /\ by'[c] = who
      /\ \A d \in Clones : d # c => cpc'[d] = cpc[d] /\ by'[d] = by[d]
      /\ \A d \in Clones : d < c => by[d] # "none"
      /\ \A d \in Clones : d > c => by[d] = "none" /\ cpc[d] = "idle"
  <2>1. \A d \in Clones : d < c => d \in 1 .. c - 1
    BY DEF Clones
  <2> QED
    BY <1>0, <2>1 DEF FilesTypeOK, Turns, Asked, To, NextClone
<1>2. FilesTypeOK'
  BY <1>0 DEF FilesTypeOK, Asked, To, ClonePlaces
<1>3. Turns'
  <2>1. /\ \A a \in Clones : by'[a] = "none" <=> cpc'[a] = "idle"
        /\ \A a, d \in Clones : cpc'[a] \in Writing /\ cpc'[d] \in Writing => a = d
    BY <1>0, <1>1 DEF Turns, Writing
  <2>2. ASSUME NEW a \in Clones, NEW d \in Clones, a < d, by'[a] = "none" PROVE by'[d] = "none"
    <3>1. a # c /\ by[a] = "none" /\ by[d] = "none"
      BY <1>0, <1>1, <2>2 DEF Turns
    <3>2. ~(a < c)
      BY <1>1, <3>1
    <3>3. d # c
      BY <2>2, <3>2
    <3> QED
      BY <1>1, <3>1, <3>3
  <2>3. ASSUME NEW a \in Clones, by'[a] = "algorithm", cpc'[a] # "over"
        PROVE  cdlg' = "none" /\ \A d \in Clones : d # a => cpc'[d] \in {"idle", "over"}
    <3>1. CASE who = "dialog" /\ \A d \in Clones : by[d] = "algorithm" => cpc[d] = "over"
      BY <1>1, <2>3, <3>1
    <3>2. CASE who = "algorithm" /\ cdlg = "none" /\ \A d \in 1 .. c - 1 : cpc[d] = "over"
      <4>1. \A d \in Clones : d # c => cpc[d] \in {"idle", "over"}
        <5>1. \A d \in Clones : d # c => d \in 1 .. c - 1 \/ d > c
          BY DEF Clones
        <5> QED
          BY <1>1, <3>2, <5>1
      <4>2. a = c
        BY <1>0, <1>1, <2>3, <4>1 DEF Turns
      <4> QED
        BY <1>1, <3>2, <4>1, <4>2
    <3> QED
      BY <3>1, <3>2
  <2> QED
    BY <2>1, <2>2, <2>3 DEF Turns
<1>4. \A d \in Clones : /\ cpc'[d] \in InPlace <=> cpc[d] \in InPlace
                        /\ cpc'[d] \in Placed <=> cpc[d] \in Placed
                        /\ cpc'[d] \in {"origin", "promote", "aside"} =>
                              cpc[d] \in {"origin", "promote", "aside"}
                        /\ cpc[d] \in {"raised", "over"} => cpc'[d] \in {"raised", "over"}
  BY <1>1 DEF InPlace, Placed
<1>5. (\A d \in Clones : StagedInv(d)') /\ TornInv'
  BY <1>0, <1>4 DEF StagedInv, TornInv, Kept, May
<1> QED
  BY <1>2, <1>3, <1>5 DEF CloneInv

\* What the user does besides, and a death, move no clone.
LEMMA UserKeeps ==
    ASSUME CloneInv, UNCHANGED <<env, copy, by, cpc, staged, backup, trouble>>,
           \/ cdlg' = cdlg \/ cdlg' = "none"
           \/ \A c \in Clones : by[c] = "algorithm" => cpc[c] = "over",
           halted => halted'
    PROVE  CloneInv'
BY DEF CloneInv, FilesTypeOK, Turns, StagedInv, TornInv, Kept, May

\* The invariant is inductive for the whole session.
LEMMA CloneInvStep == CloneInv /\ [DeskNext]_deskVars => CloneInv'
<1> SUFFICES ASSUME CloneInv, [DeskNext]_deskVars PROVE CloneInv'
  OBVIOUS
<1>0. FilesTypeOK /\ Turns /\ \A c \in Clones : StagedInv(c)
  BY DEF CloneInv
<1>1. ASSUME UNCHANGED <<env, cloneVars>> PROVE CloneInv'
  BY <1>1, UserKeeps DEF cloneVars
<1>2. ASSUME NEW c \in Clones, CloneStep(c), UNCHANGED env PROVE CloneInv'
  BY <1>0, <1>2, FilesTypeStep, TurnStep, FilesStep DEF CloneInv
<1>3. ASSUME CloneUser, UNCHANGED env PROVE CloneInv'
  <2>1. CASE OpenCloneDialog \/ RejectClone \/ Die \/ \E r \in Readers : EditReader(r)
    BY <1>3, <2>1, UserKeeps DEF OpenCloneDialog, RejectClone, Die, EditReader
  <2>2. ASSUME NEW c \in Clones, PressClone(c) PROVE CloneInv'
    <3>1. \A d \in Clones : by[d] = "algorithm" => cpc[d] = "over"
      BY <1>0, <2>2 DEF PressClone, Turns
    <3> QED
      BY <1>3, <2>2, <3>1, AskedKeeps DEF PressClone
  <2>3. ASSUME NEW c \in Clones, StartCloneAlgorithm(c) PROVE CloneInv'
    BY <1>3, <2>3, AskedKeeps DEF StartCloneAlgorithm
  <2> QED
    BY <1>3, <2>1, <2>2, <2>3 DEF CloneUser
<1>4. \/ UNCHANGED <<env, cloneVars>> \/ (CloneUser /\ UNCHANGED env)
      \/ \E c \in Clones : CloneStep(c) /\ UNCHANGED env
  BY DEF DeskNext, deskVars, CloneWorks, KeysWork, DockWorks, WatchWorks, ManagerClosed,
         ofClone, ofKeys, ofDock, ofWatch
<1> QED
  BY <1>1, <1>2, <1>3, <1>4

\* The file a clone replaces is the old one or a new one, whatever fails and at
\* whichever step, and a clone that failed before its file was in place left
\* nothing of itself.
THEOREM CopyIsKept == DeskSpec => []KeepsTheCopy
<1>1. CloneInv => KeepsTheCopy
  BY DEF CloneInv, KeepsTheCopy, TornInv, StagedInv, Kept, InPlace
<1> QED
  BY <1>1, CloneInvInit, CloneInvStep, PTL DEF DeskSpec

-----------------------------------------------------------------------------
(* What the dialog says, and the edits it must not lose                    *)

Fetching == {"download", "fetched", "failed"}

\* The dialog waits for this clone.
Waiting(c) == by[c] = "dialog" /\ cpc[c] # "over" /\ ~gone[c]

\* It waits for the newest clone only, and none that it left behind is written.
DialogInv ==
    /\ \A c \in Clones : Waiting(c) => cdlg = "open" /\ cbusy
    /\ \A c \in Clones : gone[c] => by[c] = "dialog" /\ cpc[c] \notin Writing
    /\ \A c, d \in Clones : c < d /\ by[d] # "none" =>
           cpc[c] = "over" \/ (cpc[c] \in Fetching /\ gone[c])

\* What reads the file is there to be read, and has no edits while the dialog
\* waits for a download.
EditInv ==
    /\ copy = NoFile => readers = {}
    /\ \A c \in Clones : Waiting(c) /\ cpc[c] \in Fetching => unsaved = {}
    /\ \A c \in Clones : cpc[c] \in Writing /\ removed[c] # {} => before[c] # NoFile

\* No clone has been written since.
Latest(c) == \A d \in Clones : d > c => cpc[d] \in {"idle", "download", "fetched"}

Note(c) ==
    /\ said[c] = "cloned" => copy.data = c /\ copy.base = c /\ (readers # {} \/ May("noreopen"))
    /\ said[c] = "stillthere" => Min(removed[c]) \in readers
    /\ said[c] = "notwritten" => removed[c] = {}
    /\ trouble[c] = "early" => copy = before[c] \/ copy.data = Torn
    /\ removed[c] # {} => said[c] \in {"cloned", "stillthere", "notreopened"}

\* The file, compared with what the write of clone c found there.
Progress(c) ==
    /\ cpc[c] \in {"idle"} \cup Fetching => removed[c] = {}
    /\ cpc[c] # "over" => said[c] = "nothing"
    /\ cpc[c] \in {"stage", "origin", "promote", "aside"} => copy = before[c]
    /\ cpc[c] = "aside" => copy # NoFile
    /\ cpc[c] \in InPlace => backup[c] = before[c] /\ copy.data = Torn /\ before[c] # NoFile
    /\ cpc[c] \in {"readback", "entries", "written"} => copy.data = c
    /\ cpc[c] = "written" => copy.base = c
    /\ cpc[c] = "raised" => \/ trouble[c] = "early" /\ (copy = before[c] \/ copy.data = Torn)
                            \/ trouble[c] = "late" /\ copy.data = c

NoteInv(c) == cpc[c] = "over" /\ by[c] = "dialog" /\ Latest(c) => Note(c)

DeskCloneInv ==
    CloneTypeOK /\ CloneInv /\ DialogInv /\ EditInv
        /\ (\A c \in Clones : Progress(c)) /\ \A c \in Clones : NoteInv(c)

\* The least of some naturals is one of them.
LEMMA LeastOf ==
    ASSUME NEW S \in SUBSET Nat, S # {}
    PROVE  Min(S) \in S
<1> DEFINE R == OpToRel(<, Nat)
<1>1. IsWellFoundedOn(R, Nat)
  BY NatLessThanWellFounded
<1>2. \A x, y \in Nat : <<y, x>> \in R <=> y < x
  BY DEF OpToRel
<1> HIDE DEF R
<1>3. PICK x \in S : \A y \in S : ~(<<y, x>> \in R)
  BY <1>1, WFMin
<1>4. \A y \in S : x <= y
  <2> SUFFICES ASSUME NEW y \in S PROVE x <= y
    OBVIOUS
  <2>1. ~(y < x)
    BY <1>2, <1>3
  <2> QED
    BY <2>1
<1> QED
  BY <1>4 DEF Min

\* The layer that is put back, or put first, is one of the project.
LEMMA FirstOne ==
    ASSUME CloneTypeOK, NEW c \in Clones, removed[c] # {}
    PROVE  Min(removed[c]) \in removed[c] /\ Min(removed[c]) \in Readers
           /\ FirstRemoved(c) = {Min(removed[c])}
<1>1. removed[c] \subseteq Readers /\ Readers \subseteq Nat
  BY DeskAssumption DEF CloneTypeOK, Readers
<1>2. Min(removed[c]) \in removed[c]
  BY <1>1, LeastOf
<1> QED
  BY <1>1, <1>2 DEF FirstRemoved

\* A step of one clone leaves what the others took and said.
LEMMA OthersKeep ==
    ASSUME CloneTypeOK, NEW c \in Clones, CloneStep(c)
    PROVE  /\ gone' = gone
           /\ \A d \in Clones : d # c => /\ removed'[d] = removed[d] /\ before'[d] = before[d]
                                         /\ said'[d] = said[d]
<1> USE DEF unwritten, CloneTypeOK
<1>1. CASE Download(c) \/ DownloadFailed(c) \/ BeginWrite(c) \/ BeginAlgorithmWrite(c)
  BY <1>1 DEF Download, DownloadFailed, BeginWrite, BeginAlgorithmWrite
<1>2. CASE StageFeatures(c) \/ StageOrigin(c) \/ Rename(c) \/ SetAside(c) \/ OverwriteInPlace(c)
           \/ PutBack(c) \/ ReadBack(c) \/ WriteEntries(c)
  BY <1>2 DEF StageFeatures, StageOrigin, Rename, SetAside, OverwriteInPlace, PutBack, ReadBack,
              WriteEntries
<1>3. CASE CloneWritten(c) \/ CloneRaised(c)
  BY <1>3 DEF CloneWritten, CloneRaised
<1> QED
  BY <1>1, <1>2, <1>3 DEF CloneStep

\* And keeps the types.
LEMMA CloneTypeStep ==
    ASSUME CloneTypeOK, NEW c \in Clones, CloneStep(c)
    PROVE  CloneTypeOK'
<1>1. FilesTypeOK'
  BY FilesTypeStep DEF CloneTypeOK, FilesTypeOK
<1>2. CASE Download(c) \/ DownloadFailed(c) \/ BeginWrite(c) \/ BeginAlgorithmWrite(c)
  BY <1>1, <1>2 DEF Download, DownloadFailed, BeginWrite, BeginAlgorithmWrite, CloneTypeOK, FilesTypeOK
<1>3. CASE StageFeatures(c) \/ StageOrigin(c) \/ Rename(c) \/ SetAside(c) \/ OverwriteInPlace(c)
           \/ PutBack(c) \/ ReadBack(c) \/ WriteEntries(c)
  <2>1. UNCHANGED unwritten
    BY <1>3 DEF StageFeatures, StageOrigin, Rename, SetAside, OverwriteInPlace, PutBack, ReadBack,
                WriteEntries
  <2> QED
    BY <1>1, <2>1 DEF unwritten, CloneTypeOK, FilesTypeOK
<1>4. CASE CloneWritten(c)
  <2>1. 1 \in Readers
    BY DeskAssumption DEF Readers
  <2>2. (IF removed[c] = {} THEN 1 ELSE Min(removed[c])) \in Readers
    BY <2>1, FirstOne
  <2> QED
    BY <1>1, <1>4, <2>2 DEF CloneWritten, CloneTypeOK, FilesTypeOK
<1>5. CASE CloneRaised(c)
  <2>1. FirstRemoved(c) \subseteq Readers
    BY DEF FirstRemoved, CloneTypeOK
  <2> QED
    BY <1>1, <1>5, <2>1 DEF CloneRaised, CloneTypeOK, FilesTypeOK
<1> QED
  BY <1>2, <1>3, <1>4, <1>5 DEF CloneStep

\* A step before the write: it begins the write, from the file and the layers as
\* they are, or it has touched neither.
Fetches(c) ==
    \/ /\ cpc'[c] = "stage" /\ before'[c] = copy /\ UNCHANGED <<copy, said, cdlg, cbusy>>
       /\ \/ /\ by[c] = "dialog" /\ ~gone[c]
             /\ removed'[c] = readers /\ readers' = {} /\ unsaved' = unsaved \ readers
          \/ by[c] = "algorithm" /\ UNCHANGED <<removed, readers, unsaved>>
    \/ /\ cpc'[c] \in Fetching \cup {"over"}
       /\ UNCHANGED <<copy, readers, unsaved, before, removed, trouble, cdlg>>
       /\ said'[c] = said[c] \/ (cpc'[c] = "over" /\ said'[c] = "nodownload")
       /\ cbusy' = cbusy \/ (Waiting(c) /\ cpc'[c] = "over")

LEMMA FetchesSo ==
    ASSUME CloneTypeOK, NEW c \in Clones, CloneStep(c), cpc[c] \in Fetching
    PROVE  Fetches(c)
<1> USE DEF At, To, CloneTypeOK, Fetching, Fetches, Waiting
<1>1. CASE Download(c)
  BY <1>1 DEF Download
<1>2. CASE DownloadFailed(c)
  BY <1>2 DEF DownloadFailed
<1>3. CASE BeginWrite(c)
  BY <1>3 DEF BeginWrite
<1>4. CASE BeginAlgorithmWrite(c)
  BY <1>4 DEF BeginAlgorithmWrite
<1>5. Download(c) \/ DownloadFailed(c) \/ BeginWrite(c) \/ BeginAlgorithmWrite(c)
  BY DEF CloneStep, StageFeatures, StageOrigin, Rename, SetAside, OverwriteInPlace, PutBack,
         ReadBack, WriteEntries, CloneWritten, CloneRaised
<1> QED
  BY <1>1, <1>2, <1>3, <1>4, <1>5

\* A step of the write up to its end leaves everything but the files; the last
\* one speaks.
LEMMA WritesSo ==
    ASSUME CloneTypeOK, NEW c \in Clones, CloneStep(c), cpc[c] \in Writing
    PROVE  \/ /\ UNCHANGED unwritten /\ cpc'[c] \in Writing /\ cpc[c] \notin {"written", "raised"}
           \/ CloneWritten(c) \/ CloneRaised(c)
<1>1. CASE StageFeatures(c) \/ StageOrigin(c) \/ Rename(c) \/ SetAside(c) \/ OverwriteInPlace(c)
           \/ PutBack(c) \/ ReadBack(c) \/ WriteEntries(c)
  <2>1. UNCHANGED unwritten /\ cpc[c] \notin {"written", "raised"}
    BY <1>1 DEF StageFeatures, StageOrigin, Rename, SetAside, OverwriteInPlace, PutBack, ReadBack,
                WriteEntries, At
  <2>2. cpc'[c] \in Writing
    BY <2>1, InOrder DEF Order, Writing, CloneTypeOK, FilesTypeOK
  <2> QED
    BY <2>1, <2>2
<1>2. ~(Download(c) \/ DownloadFailed(c) \/ BeginWrite(c) \/ BeginAlgorithmWrite(c))
  BY DEF Download, DownloadFailed, BeginWrite, BeginAlgorithmWrite, At, Writing
<1> QED
  BY <1>1, <1>2 DEF CloneStep

\* A clone that steps is being fetched or written.
LEMMA StepsFrom ==
    ASSUME CloneTypeOK, NEW c \in Clones, CloneStep(c)
    PROVE  cpc[c] \in Fetching \/ cpc[c] \in Writing
BY InOrder DEF Order, Fetching, Writing, CloneTypeOK, FilesTypeOK

LEMMA DialogStep ==
    ASSUME DeskCloneInv, NEW c \in Clones, CloneStep(c)
    PROVE  DialogInv'
<1>0. CloneTypeOK /\ FilesTypeOK /\ Turns /\ DialogInv
  BY DEF DeskCloneInv, CloneInv
<1>1. /\ gone' = gone /\ by' = by /\ \A d \in Clones : d # c => cpc'[d] = cpc[d]
  BY <1>0, OthersKeep, OthersStay
<1>2. Order(cpc[c], cpc'[c])
  BY <1>0, InOrder
<1>3. \A d \in Clones : d # c /\ Waiting(d) => ~Waiting(c)
  <2>1. \A a, d \in Clones : a < d /\ Waiting(a) /\ Waiting(d) => FALSE
    BY <1>0 DEF DialogInv, Waiting
  <2>2. \A d \in Clones : d # c => d < c \/ c < d
    BY DEF Clones
  <2> QED
    BY <2>1, <2>2
<1>4. ASSUME NEW d \in Clones, Waiting(d)' PROVE cdlg' = "open" /\ cbusy'
  <2>1. Waiting(d) /\ cdlg = "open" /\ cbusy
    BY <1>0, <1>1, <1>2, <1>4 DEF Waiting, Order, DialogInv
  <2>2. CASE cpc[c] \in Fetching
    <3>1. cdlg' = cdlg /\ (cbusy' = cbusy \/ (Waiting(c) /\ cpc'[c] = "over"))
      BY <1>0, <2>2, FetchesSo DEF Fetches
    <3>2. d = c => cpc'[c] # "over"
      BY <1>4 DEF Waiting
    <3> QED
      BY <1>3, <2>1, <3>1, <3>2
  <2>3. CASE cpc[c] \in Writing
    <3>1. CASE UNCHANGED unwritten
      BY <2>1, <3>1 DEF unwritten
    <3>2. CASE CloneWritten(c) \/ CloneRaised(c)
      <4>1. by[c] # "dialog"
        <5>1. cpc'[c] = "over"
          BY <1>0, <3>2 DEF CloneWritten, CloneRaised, To, CloneTypeOK
        <5>2. d # c /\ ~Waiting(c) /\ cpc[c] # "over"
          BY <1>3, <1>4, <2>1, <2>3, <5>1 DEF Waiting, Writing
        <5> QED
          BY <1>0, <2>3, <5>2 DEF Waiting, DialogInv
      <4> QED
        BY <2>1, <3>2, <4>1 DEF CloneWritten, CloneRaised
    <3> QED
      BY <1>0, <2>3, <3>1, <3>2, WritesSo
  <2> QED
    BY <1>0, <2>2, <2>3, StepsFrom
<1>5. ASSUME NEW d \in Clones, gone'[d] PROVE by'[d] = "dialog" /\ cpc'[d] \notin Writing
  <2>1. gone[d] /\ by[d] = "dialog" /\ cpc[d] \notin Writing
    BY <1>0, <1>1, <1>5 DEF DialogInv
  <2>2. CASE d = c
    <3>1. cpc[c] \in Fetching
      BY <1>0, <2>1, <2>2, StepsFrom
    <3> QED
      BY <1>0, <1>1, <2>1, <2>2, <3>1, FetchesSo DEF Fetches, Fetching, Writing
  <2> QED
    BY <1>1, <2>1, <2>2
<1>6. ASSUME NEW a \in Clones, NEW d \in Clones, a < d, by'[d] # "none"
      PROVE  cpc'[a] = "over" \/ (cpc'[a] \in Fetching /\ gone'[a])
  <2>1. cpc[a] = "over" \/ (cpc[a] \in Fetching /\ gone[a])
    BY <1>0, <1>1, <1>6 DEF DialogInv
  <2>2. CASE a = c
    <3>1. cpc[c] \in Fetching /\ gone[c] /\ by[c] = "dialog"
      BY <1>0, <1>2, <2>1, <2>2 DEF Order, DialogInv
    <3> QED
      BY <1>0, <1>1, <2>2, <3>1, FetchesSo DEF Fetches
  <2> QED
    BY <1>1, <2>1, <2>2
<1> QED
  BY <1>4, <1>5, <1>6 DEF DialogInv

\* What is at the target after a step was there before it, or is a file.
LEMMA StillAFile ==
    ASSUME DeskCloneInv, NEW c \in Clones, CloneStep(c), copy' = NoFile
    PROVE  copy = NoFile
<1>0. FilesTypeOK /\ StagedInv(c) /\ Progress(c)
  BY DEF DeskCloneInv, CloneInv
<1>1. Works(c)
  BY <1>0, WorksSo
<1>2. c # Nothing /\ Torn # Nothing /\ NoFile.data = Nothing
  BY Origins, NewFiles
<1> QED
  BY <1>0, <1>1, <1>2 DEF Works, StagedInv, InPlace, Progress

LEMMA EditStep ==
    ASSUME DeskCloneInv, NEW c \in Clones, CloneStep(c)
    PROVE  EditInv'
<1>0. /\ CloneTypeOK /\ FilesTypeOK /\ Turns /\ DialogInv /\ EditInv
      /\ \A d \in Clones : Progress(d) /\ StagedInv(d)
  BY DEF DeskCloneInv, CloneInv
<1>1. /\ gone' = gone /\ by' = by
      /\ \A d \in Clones : d # c => cpc'[d] = cpc[d] /\ removed'[d] = removed[d] /\ before'[d] = before[d]
  BY <1>0, OthersKeep, OthersStay
<1>2. copy' = NoFile => copy = NoFile
  BY StillAFile
<1>3. CASE cpc[c] \in Fetching
  <2>1. Fetches(c)
    BY <1>0, <1>3, FetchesSo
  <2>2. copy' = NoFile => readers' = {}
    BY <1>0, <2>1 DEF Fetches, EditInv
  <2>3. ASSUME NEW d \in Clones, Waiting(d)', cpc'[d] \in Fetching PROVE unsaved' = {}
    <3>1. Waiting(d) /\ cpc[d] \in Fetching
      BY <1>1, <1>3, <2>3 DEF Waiting, Fetching
    <3>2. unsaved = {}
      BY <1>0, <3>1 DEF EditInv
    <3> QED
      BY <2>1, <3>2 DEF Fetches
  <2>4. ASSUME NEW d \in Clones, cpc'[d] \in Writing, removed'[d] # {} PROVE before'[d] # NoFile
    <3>1. CASE d = c
      <4>1. removed[c] = {}
        BY <1>0, <1>3 DEF Progress
      <4>2. readers # {} => copy # NoFile
        BY <1>0 DEF EditInv
      <4> QED
        BY <2>1, <2>4, <3>1, <4>1, <4>2 DEF Fetches, Fetching, Writing
    <3> QED
      BY <1>0, <1>1, <2>4, <3>1 DEF EditInv
  <2> QED
    BY <2>2, <2>3, <2>4 DEF EditInv
<1>4. CASE cpc[c] \in Writing
  <2>1. \/ UNCHANGED unwritten \/ CloneWritten(c) \/ CloneRaised(c)
    BY <1>0, <1>4, WritesSo
  <2>2. unsaved' = unsaved /\ removed' = removed /\ before' = before
    BY <2>1 DEF unwritten, CloneWritten, CloneRaised
  <2>3. copy' = NoFile => readers' = {}
    <3>1. CASE UNCHANGED unwritten
      BY <1>0, <1>2, <3>1 DEF unwritten, EditInv
    <3>2. CASE CloneWritten(c)
      BY <1>0, <3>2, Origins, NewFiles DEF CloneWritten, At, Progress
    <3>3. CASE CloneRaised(c)
      <4>1. copy' = copy /\ cpc[c] = "raised"
        BY <3>3 DEF CloneRaised, At
      <4>2. removed[c] = {} => readers' = readers
        BY <3>3 DEF CloneRaised
      <4>3. removed[c] # {} => copy # NoFile
        BY <1>0, <1>4, <4>1, Origins, NewFiles DEF Progress, EditInv
      <4> QED
        BY <1>0, <4>1, <4>2, <4>3 DEF EditInv
    <3> QED
      BY <2>1, <3>1, <3>2, <3>3
  <2>4. \A d \in Clones : /\ cpc'[d] \in Fetching => cpc[d] \in Fetching
                          /\ cpc'[d] \in Writing => cpc[d] \in Writing
    <3>1. cpc'[c] \notin Fetching
      BY <1>0, <1>4, InOrder DEF Order, Fetching, Writing
    <3> QED
      BY <1>1, <1>4, <3>1
  <2>5. \A d \in Clones : Waiting(d)' /\ cpc'[d] \in Fetching => Waiting(d)
    BY <1>1, <2>4 DEF Waiting, Fetching
  <2> QED
    BY <1>0, <2>2, <2>3, <2>4, <2>5 DEF EditInv
<1> QED
  BY <1>0, <1>3, <1>4, StepsFrom

\* The clone that steps makes its progress.
LEMMA OwnProgress ==
    ASSUME DeskCloneInv, NEW c \in Clones, CloneStep(c)
    PROVE  Progress(c)'
<1>0. CloneTypeOK /\ FilesTypeOK /\ Progress(c) /\ StagedInv(c) /\ copy \in File
  BY DEF DeskCloneInv, CloneInv, FilesTypeOK
<1> USE DEF At, To, Raises, Promoted, unwritten, InPlace, Progress, Fetching
<1>1. /\ cpc \in [Clones -> ClonePlaces] /\ staged \in [Clones -> File]
      /\ backup \in [Clones -> File] /\ trouble \in [Clones -> {"none", "early", "late"}]
      /\ removed \in [Clones -> SUBSET Readers] /\ before \in [Clones -> File]
      /\ said \in [Clones -> {"nothing", "cloned", "notwritten", "stillthere", "notreopened",
                              "nodownload"}]
  BY <1>0 DEF CloneTypeOK
<1>2. CASE cpc[c] \in Fetching
  BY <1>0, <1>2, FetchesSo DEF Fetches
<1>3. CASE StageFeatures(c) \/ StageOrigin(c)
  BY <1>0, <1>1, <1>3 DEF StageFeatures, StageOrigin
<1>4. CASE Rename(c)
  BY <1>0, <1>1, <1>4 DEF Rename, StagedInv
<1>5. CASE SetAside(c)
  BY <1>0, <1>1, <1>5, FileMoves DEF SetAside
<1>6. CASE OverwriteInPlace(c)
  BY <1>0, <1>1, <1>6 DEF OverwriteInPlace, StagedInv
<1>7. CASE PutBack(c)
  BY <1>0, <1>1, <1>7 DEF PutBack
<1>8. CASE ReadBack(c)
  <2>1. [copy EXCEPT !.base = Empty].data = copy.data
    BY <1>0 DEF File
  <2> QED
    BY <1>0, <1>1, <1>8, <2>1 DEF ReadBack
<1>9. CASE WriteEntries(c)
  <2>1. [copy EXCEPT !.base = c].data = copy.data /\ [copy EXCEPT !.base = c].base = c
    BY <1>0 DEF File
  <2> QED
    BY <1>0, <1>1, <1>9, <2>1 DEF WriteEntries
<1>10. CASE CloneWritten(c) \/ CloneRaised(c)
  BY <1>0, <1>1, <1>10 DEF CloneWritten, CloneRaised
<1>11. CASE Download(c) \/ DownloadFailed(c) \/ BeginWrite(c) \/ BeginAlgorithmWrite(c)
  BY <1>2, <1>11 DEF Download, DownloadFailed, BeginWrite, BeginAlgorithmWrite
<1> QED
  BY <1>3, <1>4, <1>5, <1>6, <1>7, <1>8, <1>9, <1>10, <1>11 DEF CloneStep

\* No other clone's progress is disturbed by it.
LEMMA OtherProgress ==
    ASSUME DeskCloneInv, NEW c \in Clones, CloneStep(c), NEW d \in Clones, d # c
    PROVE  Progress(d)'
<1>0. CloneTypeOK /\ FilesTypeOK /\ Turns /\ Progress(d)
  BY DEF DeskCloneInv, CloneInv
<1>1. /\ cpc'[d] = cpc[d] /\ removed'[d] = removed[d] /\ before'[d] = before[d]
      /\ said'[d] = said[d] /\ backup'[d] = backup[d] /\ trouble'[d] = trouble[d]
  BY <1>0, OthersKeep, OthersStay
<1>2. cpc[d] \in Writing => copy' = copy
  <2>1. cpc[d] \in Writing => cpc[c] \notin Writing
    BY <1>0 DEF Turns
  <2>2. cpc[c] \in Fetching => copy' = copy
    BY <1>0, FetchesSo DEF Fetches
  <2> QED
    BY <1>0, <2>1, <2>2, StepsFrom
<1> QED
  BY <1>0, <1>1, <1>2 DEF Progress, Writing, InPlace, Fetching

\* What the dialog said last is so.
LEMMA NoteStep ==
    ASSUME DeskCloneInv, NEW c \in Clones, CloneStep(c), UNCHANGED env, NEW d \in Clones
    PROVE  NoteInv(d)'
<1>0. /\ CloneTypeOK /\ FilesTypeOK /\ Turns /\ DialogInv /\ EditInv
      /\ Progress(c) /\ StagedInv(c) /\ NoteInv(d)
  BY DEF DeskCloneInv, CloneInv
<1>1. by' = by /\ gone' = gone /\ Order(cpc[c], cpc'[c])
      /\ \A e \in Clones : e # c => /\ cpc'[e] = cpc[e] /\ removed'[e] = removed[e]
                                    /\ before'[e] = before[e] /\ said'[e] = said[e]
                                    /\ trouble'[e] = trouble[e]
  BY <1>0, OthersKeep, OthersStay, InOrder
<1> SUFFICES ASSUME cpc'[d] = "over", by[d] = "dialog", Latest(d)'
             PROVE  Note(d)'
  BY <1>1 DEF NoteInv
<1>2. CASE d # c
  <2>1. Latest(d)
    BY <1>1 DEF Latest, Order
  <2>2. Note(d)
    BY <1>0, <1>1, <1>2, <2>1 DEF NoteInv
  <2>3. cpc[c] \in Fetching /\ cpc'[c] # "stage"
    <3>1. CASE d < c
      BY <1>1, <3>1 DEF Latest, Fetching, Order
    <3>2. CASE c < d
      <4>1. cpc[c] \in Fetching /\ gone[c] /\ by[c] = "dialog"
        BY <1>0, <1>1, <3>2 DEF DialogInv, Order
      <4> QED
        BY <1>0, <4>1, FetchesSo DEF Fetches, Fetching
    <3> QED
      BY <1>2, <3>1, <3>2 DEF Clones
  <2>4. UNCHANGED <<copy, readers>>
    BY <1>0, <2>3, FetchesSo DEF Fetches, Fetching
  <2> QED
    BY <1>1, <1>2, <2>2, <2>4 DEF Note, May
<1>3. CASE d = c /\ cpc[c] \in Fetching
  <2>1. removed[c] = {} /\ said[c] = "nothing" /\ trouble[c] = "none"
    BY <1>0, <1>3 DEF Progress, Fetching, StagedInv, CloneTypeOK
  <2>2. /\ UNCHANGED <<copy, readers, removed, trouble>>
        /\ said'[c] \in {"nothing", "nodownload"}
    BY <1>0, <1>3, <2>1, FetchesSo DEF Fetches
  <2> QED
    BY <1>3, <2>1, <2>2 DEF Note
<1>4. CASE d = c /\ CloneWritten(c)
  <2>1. /\ cpc[c] = "written" /\ said'[c] = "cloned" /\ UNCHANGED <<copy, removed, trouble>>
        /\ readers' # {} \/ May("noreopen")
    BY <1>0, <1>4 DEF CloneWritten, At, CloneTypeOK
  <2>2. trouble[c] = "none" /\ copy.data = c /\ copy.base = c
    BY <1>0, <2>1 DEF Progress, StagedInv, CloneTypeOK
  <2> QED
    BY <1>4, <2>1, <2>2 DEF Note, May
<1>5. CASE d = c /\ CloneRaised(c)
  <2>1. cpc[c] = "raised" /\ UNCHANGED <<copy, removed, trouble, before>>
    BY <1>5 DEF CloneRaised, At
  <2>2. trouble[c] = "early" => copy = before[c] \/ copy.data = Torn
    BY <1>0, <2>1 DEF Progress
  <2>3. \/ removed[c] = {} /\ said'[c] = "notwritten"
        \/ removed[c] # {} /\ said'[c] = "stillthere" /\ readers' = readers \cup FirstRemoved(c)
        \/ removed[c] # {} /\ said'[c] = "notreopened"
    BY <1>0, <1>5 DEF CloneRaised, CloneTypeOK
  <2>4. removed[c] # {} => FirstRemoved(c) = {Min(removed[c])}
    BY <1>0, FirstOne
  <2> QED
    BY <1>5, <2>1, <2>2, <2>3, <2>4 DEF Note
<1>6. cpc[c] \in Writing /\ d = c => CloneWritten(c) \/ CloneRaised(c)
  BY <1>0, WritesSo DEF Writing
<1> QED
  BY <1>0, <1>2, <1>3, <1>4, <1>5, <1>6, StepsFrom

\* The user moves no clone on: what is said of each stays so.
LEMMA AsBefore ==
    ASSUME DeskCloneInv, UNCHANGED <<env, copy, readers, by, cpc, backup, removed, trouble, before, said>>
    PROVE  /\ \A c \in Clones : Progress(c)' /\ NoteInv(c)'
           /\ copy' = NoFile => readers' = {}
           /\ \A c \in Clones : cpc'[c] \in Writing /\ removed'[c] # {} => before'[c] # NoFile
BY DEF DeskCloneInv, Progress, NoteInv, Note, Latest, EditInv, May

\* The dialog is opened or closed, a layer edited or saved, or QGIS dies.
LEMMA UserStep ==
    ASSUME DeskCloneInv, UNCHANGED env,
           OpenCloneDialog \/ RejectClone \/ Die \/ \E r \in Readers : EditReader(r)
    PROVE  /\ CloneTypeOK' /\ DialogInv' /\ EditInv'
           /\ \A c \in Clones : Progress(c)' /\ NoteInv(c)'
<1>0. CloneTypeOK /\ Turns /\ DialogInv /\ EditInv
  BY DEF DeskCloneInv, CloneInv
<1>1. CASE OpenCloneDialog
  <2>1. \A c \in Clones : ~Waiting(c)
    BY <1>0, <1>1 DEF OpenCloneDialog, DialogInv
  <2>2. CloneTypeOK'
    BY <1>0, <1>1 DEF OpenCloneDialog, CloneTypeOK
  <2>3. DialogInv' /\ EditInv'
    BY <1>0, <1>1, <2>1 DEF OpenCloneDialog, DialogInv, EditInv, Waiting
  <2> QED
    BY <1>1, <2>2, <2>3, AsBefore DEF OpenCloneDialog
<1>2. CASE RejectClone
  <2>1. /\ UNCHANGED <<copy, readers, unsaved, by, cpc, removed, before>>
        /\ gone' = [c \in Clones |-> gone[c] \/ (by[c] = "dialog" /\ cpc[c] # "over")]
    BY <1>2 DEF RejectClone
  <2>2. CloneTypeOK'
    BY <1>0, <1>2 DEF RejectClone, CloneTypeOK
  <2>3. \A c \in Clones : ~Waiting(c)'
    BY <2>1 DEF Waiting
  <2>4. \A c \in Clones : gone'[c] => by[c] = "dialog" /\ cpc[c] \notin Writing
    BY <1>0, <1>2, <2>1 DEF RejectClone, GuiIsFree, DialogInv, Writing
  <2>5. DialogInv' /\ EditInv'
    BY <1>0, <2>1, <2>3, <2>4 DEF DialogInv, EditInv
  <2> QED
    BY <1>2, <2>2, <2>5, AsBefore DEF RejectClone
<1>3. CASE Die
  <2>1. CloneTypeOK'
    BY <1>0, <1>3 DEF Die, CloneTypeOK
  <2>2. DialogInv' /\ EditInv'
    BY <1>0, <1>3 DEF Die, DialogInv, EditInv, Waiting
  <2> QED
    BY <1>3, <2>1, <2>2, AsBefore DEF Die
<1>4. ASSUME NEW r \in Readers, EditReader(r)
      PROVE  /\ CloneTypeOK' /\ DialogInv' /\ EditInv'
             /\ \A c \in Clones : Progress(c)' /\ NoteInv(c)'
  <2>1. \A c \in Clones : ~Waiting(c)
    BY <1>0, <1>4 DEF EditReader, DialogInv
  <2>2. CloneTypeOK'
    BY <1>0, <1>4 DEF EditReader, CloneTypeOK
  <2>3. DialogInv' /\ EditInv'
    BY <1>0, <1>4, <2>1 DEF EditReader, DialogInv, EditInv, Waiting
  <2> QED
    BY <1>4, <2>2, <2>3, AsBefore DEF EditReader
<1> QED
  BY <1>1, <1>2, <1>3, <1>4

\* A clone is asked for: by the dialog, which was waiting for none, or by the
\* algorithm, when all are over.
LEMMA AskedStep ==
    ASSUME DeskCloneInv, NEW c \in Clones, PressClone(c) \/ StartCloneAlgorithm(c), UNCHANGED env
    PROVE  /\ CloneTypeOK' /\ DialogInv' /\ EditInv'
           /\ \A d \in Clones : Progress(d)' /\ NoteInv(d)'
<1>0. /\ CloneTypeOK /\ Turns /\ DialogInv /\ EditInv
      /\ \A d \in Clones : Progress(d) /\ NoteInv(d)
  BY DEF DeskCloneInv, CloneInv
<1>1. /\ cpc'[c] = "download" /\ cpc[c] = "idle" /\ by[c] = "none" /\ ~gone[c]
      /\ \A d \in Clones : d # c => cpc'[d] = cpc[d] /\ by'[d] = by[d]
      /\ UNCHANGED <<copy, readers, unsaved, backup, removed, trouble, gone, before, said, cdlg>>
  BY <1>0 DEF PressClone, StartCloneAlgorithm, Asked, To, NextClone, CloneTypeOK, Turns, DialogInv
<1>2. CloneTypeOK'
  BY <1>0 DEF PressClone, StartCloneAlgorithm, Asked, To, CloneTypeOK, ClonePlaces
<1>3. \A d \in Clones : d > c => by[d] = "none" /\ cpc[d] = "idle"
  BY <1>0, <1>1 DEF Turns
<1>4. \A d \in Clones : Progress(d)'
  BY <1>0, <1>1 DEF Progress, Fetching, InPlace
<1>5. ASSUME NEW d \in Clones PROVE NoteInv(d)'
  <2>1. Latest(d)' => Latest(d)
    BY <1>1 DEF Latest
  <2>2. d # c => NoteInv(d)'
    BY <1>0, <1>1, <2>1 DEF NoteInv, Note, May
  <2>3. d = c => NoteInv(d)'
    BY <1>1 DEF NoteInv
  <2> QED
    BY <2>2, <2>3
<1>6. \A d \in Clones : d < c => \/ cpc[d] = "over"
                                 \/ cpc[d] \in Fetching /\ gone[d]
  <2>1. CASE PressClone(c)
    <3> SUFFICES ASSUME NEW d \in Clones, d < c, cpc[d] # "over"
                 PROVE  cpc[d] \in Fetching /\ gone[d]
      OBVIOUS
    <3>1. by[d] # "none"
      BY <2>1 DEF PressClone, NextClone, Clones
    <3>2. by[d] = "dialog"
      BY <1>0, <2>1, <3>1 DEF PressClone, Turns, CloneTypeOK
    <3>3. gone[d] /\ cpc[d] \notin Writing /\ cpc[d] # "idle"
      BY <1>0, <2>1, <3>2 DEF PressClone, DialogInv, Waiting, Turns
    <3> QED
      BY <1>0, <3>3 DEF CloneTypeOK, ClonePlaces, Writing, Fetching
  <2>2. CASE StartCloneAlgorithm(c)
    BY <2>2 DEF StartCloneAlgorithm, Clones
  <2> QED
    BY <2>1, <2>2
<1>7. /\ \A d \in Clones : gone'[d] => by'[d] = "dialog" /\ cpc'[d] \notin Writing
      /\ \A a, d \in Clones : a < d /\ by'[d] # "none" =>
             cpc'[a] = "over" \/ (cpc'[a] \in Fetching /\ gone'[a])
  <2>1. \A d \in Clones : gone'[d] => by'[d] = "dialog" /\ cpc'[d] \notin Writing
    BY <1>0, <1>1 DEF DialogInv
  <2>2. ASSUME NEW a \in Clones, NEW d \in Clones, a < d, by'[d] # "none"
        PROVE  cpc'[a] = "over" \/ (cpc'[a] \in Fetching /\ gone'[a])
    <3>1. a # c
      BY <1>1, <1>3, <2>2 DEF Clones
    <3>2. CASE d = c
      BY <1>1, <1>6, <2>2, <3>1, <3>2
    <3>3. CASE d # c
      BY <1>0, <1>1, <2>2, <3>1, <3>3 DEF DialogInv
    <3> QED
      BY <3>2, <3>3
  <2> QED
    BY <2>1, <2>2
<1>8. CASE PressClone(c)
  <2>1. cdlg' = "open" /\ cbusy' /\ \A d \in Clones : ~Waiting(d)
    BY <1>0, <1>8 DEF PressClone, DialogInv
  <2>2. unsaved = {}
    BY <1>0, <1>8 DEF PressClone, EditInv, CloneTypeOK
  <2>3. DialogInv'
    BY <1>7, <2>1 DEF DialogInv
  <2>4. EditInv'
    BY <1>0, <1>1, <2>2 DEF EditInv, Writing
  <2> QED
    BY <1>2, <1>4, <1>5, <2>3, <2>4
<1>9. CASE StartCloneAlgorithm(c)
  <2>1. by'[c] = "algorithm" /\ cbusy' = cbusy
    BY <1>0, <1>9 DEF StartCloneAlgorithm, Asked, CloneTypeOK
  <2>2. \A d \in Clones : Waiting(d)' => Waiting(d) /\ d # c
    BY <1>1, <2>1 DEF Waiting
  <2>3. DialogInv'
    BY <1>0, <1>1, <1>7, <2>1, <2>2 DEF DialogInv
  <2>4. EditInv'
    BY <1>0, <1>1, <2>2 DEF EditInv, Writing
  <2> QED
    BY <1>2, <1>4, <1>5, <2>3, <2>4
<1> QED
  BY <1>8, <1>9

LEMMA DeskCloneInit == DeskInit => DeskCloneInv
<1> SUFFICES ASSUME DeskInit PROVE DeskCloneInv
  OBVIOUS
<1>1. CloneInv
  BY CloneInvInit
<1>2. CloneTypeOK
  <2>1. readers \subseteq Readers
    BY DEF DeskInit, CloneInit
  <2> QED
    BY <1>1, <2>1, NewFiles DEF DeskInit, CloneInit, CloneTypeOK, CloneInv, FilesTypeOK
<1>3. \A c \in Clones : cpc[c] = "idle" /\ by[c] = "none" /\ ~gone[c] /\ removed[c] = {}
                        /\ said[c] = "nothing"
  BY DEF DeskInit, CloneInit
<1>4. DialogInv /\ EditInv
  BY <1>3 DEF DeskInit, CloneInit, DialogInv, EditInv, Waiting, Writing
<1>5. \A c \in Clones : Progress(c) /\ NoteInv(c)
  BY <1>3 DEF Progress, NoteInv, InPlace
<1> QED
  BY <1>1, <1>2, <1>4, <1>5 DEF DeskCloneInv

\* What a step of the desk is to its clones.
LEMMA CloneMoves ==
    ASSUME [DeskNext]_deskVars
    PROVE  \/ UNCHANGED <<env, cloneVars>> \/ (CloneUser /\ UNCHANGED env)
           \/ \E c \in Clones : CloneStep(c) /\ UNCHANGED env
BY DEF DeskNext, deskVars, CloneWorks, KeysWork, DockWorks, WatchWorks, ManagerClosed,
       ofClone, ofKeys, ofDock, ofWatch

LEMMA DeskCloneStep == DeskCloneInv /\ [DeskNext]_deskVars => DeskCloneInv'
<1> SUFFICES ASSUME DeskCloneInv, [DeskNext]_deskVars PROVE DeskCloneInv'
  OBVIOUS
<1>1. CloneInv'
  BY CloneInvStep DEF DeskCloneInv
<1>2. CASE UNCHANGED <<env, cloneVars>>
  <2>1. CloneTypeOK' /\ DialogInv' /\ EditInv'
    BY <1>2 DEF cloneVars, DeskCloneInv, CloneTypeOK, DialogInv, EditInv, Waiting
  <2>2. \A c \in Clones : Progress(c)' /\ NoteInv(c)'
    BY <1>2, AsBefore DEF cloneVars
  <2> QED
    BY <1>1, <2>1, <2>2 DEF DeskCloneInv
<1>3. ASSUME CloneUser, UNCHANGED env PROVE DeskCloneInv'
  BY <1>1, <1>3, UserStep, AskedStep DEF CloneUser, DeskCloneInv
<1>4. ASSUME NEW c \in Clones, CloneStep(c), UNCHANGED env PROVE DeskCloneInv'
  <2>1. CloneTypeOK' /\ DialogInv' /\ EditInv'
    BY <1>4, CloneTypeStep, DialogStep, EditStep DEF DeskCloneInv
  <2>2. \A d \in Clones : Progress(d)' /\ NoteInv(d)'
    BY <1>4, OwnProgress, OtherProgress, NoteStep
  <2> QED
    BY <1>1, <2>1, <2>2 DEF DeskCloneInv
<1> QED
  BY <1>2, <1>3, <1>4, CloneMoves

\* What the last message of the clone dialog says of the file, of its baseline
\* and of the layers it took out of the project is so, whatever failed and
\* whoever else cloned.  (_write_and_load, _restore_removed, _restored_note.)
THEOREM NoteIsTrue == DeskSpec => []CloneNoteIsTrue
<1>1. DeskCloneInv => CloneNoteIsTrue
  BY DEF DeskCloneInv, CloneNoteIsTrue, NoteInv, Latest, Note
<1> QED
  BY <1>1, DeskCloneInit, DeskCloneStep, PTL DEF DeskSpec

\* No layer leaves the project with edits in its buffer: none can be made while
\* the dialog that looked for them waits.  (_on_clone, _has_unsaved_edits, done.)
THEOREM EditsStay == DeskSpec => UnsavedEditsStay
<1>1. DeskCloneInv /\ [DeskNext]_deskVars => [unsaved \subseteq readers']_deskVars
  <2> SUFFICES ASSUME DeskCloneInv, [DeskNext]_deskVars
               PROVE  unsaved \subseteq readers'
    OBVIOUS
  <2>0. CloneTypeOK /\ unsaved \subseteq readers /\ EditInv
    BY DEF DeskCloneInv, CloneTypeOK
  <2>1. CASE UNCHANGED <<env, cloneVars>>
    BY <2>0, <2>1 DEF cloneVars
  <2>2. CASE CloneUser
    BY <2>0, <2>2 DEF CloneUser, OpenCloneDialog, RejectClone, Die, PressClone,
                      StartCloneAlgorithm, EditReader
  <2>3. ASSUME NEW c \in Clones, CloneStep(c)
        PROVE  unsaved \subseteq readers'
    <3>1. CASE cpc[c] \in Fetching
      <4>1. by[c] = "dialog" /\ ~gone[c] => unsaved = {}
        BY <2>0, <3>1 DEF EditInv, Waiting, Fetching
      <4> QED
        BY <2>0, <2>3, <3>1, <4>1, FetchesSo DEF Fetches
    <3>2. CASE cpc[c] \in Writing
      <4>1. readers \subseteq readers'
        BY <2>0, <2>3, <3>2, WritesSo DEF unwritten, CloneWritten, CloneRaised
      <4> QED
        BY <2>0, <4>1
    <3> QED
      BY <2>0, <2>3, <3>1, <3>2, StepsFrom
  <2> QED
    BY <2>1, <2>2, <2>3, CloneMoves
<1> QED
  BY <1>1, DeskCloneInit, DeskCloneStep, PTL DEF DeskSpec, UnsavedEditsStay
=============================================================================
