-------------------------- MODULE GuestFilesProofs --------------------------
(***************************************************************************)
(* Proofs about GuestFiles, for any number of names, handles and bytes.    *)
(* That every file is flushed or reported at the end of the loop needs to  *)
(* know it, during the loop, of the handles that are done; that handles    *)
(* stay fresh needs to know it of the save state as well.                  *)
(***************************************************************************)
EXTENDS GuestFiles, SequenceTheorems, TLAPS

InLoop == session \in {"reset", "unload"}

\* The handles the flush loop has dealt with are clean or reported, and outside
\* the loop nothing is left to flush.
LoopInv ==
  /\ ~InLoop => pending = {}
  /\ InLoop => \A h \in DOMAIN open_files \ pending : Modified(h) => h \in unsaved

SavedFresh ==
  saved # NoState => \A h \in DOMAIN saved.open_files : h < saved.next_file_handle

IInv == TypeOK /\ HandlesAreFresh /\ CleanIsOnDisk /\ LoopInv /\ SavedFresh

-----------------------------------------------------------------------------
(* Contents of files.                                                      *)

\* A content is a sequence of at most MaxLen bytes.
LEMMA ContentsLen ==
  ASSUME NEW d \in Contents
  PROVE  Len(d) \in 0..MaxLen /\ DOMAIN d = 1..Len(d) /\ \A i \in 1..Len(d) : d[i] \in Bytes
<1>1. PICK n \in 0..MaxLen : d \in [1..n -> Bytes]
  BY DEF Contents
<1>2. n \in Nat /\ d \in Seq(Bytes)
  BY <1>1, GuestFilesAssumption
<1>3. Len(d) = n
  BY <1>1, <1>2
<1> QED
  BY <1>1, <1>3

\* An empty file is one.
LEMMA EmptyContents == << >> \in Contents /\ Len(<< >>) = 0
<1>1. << >> \in [1..0 -> Bytes] /\ 0 \in 0..MaxLen
  BY GuestFilesAssumption
<1> QED
  BY <1>1 DEF Contents

\* So is the part of a file that a failed write has written.
LEMMA PrefixContents ==
  ASSUME NEW d \in Contents, NEW n \in 0..(Len(d) - 1)
  PROVE  SubSeq(d, 1, n) \in Contents
<1>1. PICK m \in 0..MaxLen : d \in [1..m -> Bytes]
  BY DEF Contents
<1>2. d \in Seq(Bytes) /\ Len(d) = m /\ m \in Nat /\ MaxLen \in Nat
  <2>1. m \in Nat /\ d \in Seq(Bytes) /\ MaxLen \in Nat
    BY <1>1, GuestFilesAssumption
  <2> QED
    BY <1>1, <2>1
<1>3. n \in 0..MaxLen /\ n <= Len(d) /\ n \in Nat
  BY <1>1, <1>2
<1>4. SubSeq(d, 1, n) \in [1..n -> Bytes]
  <2>1. \A i \in 1..n : d[i] \in Bytes
    BY <1>1, <1>2, <1>3
  <2>2. 1 \in Int /\ n \in Int
    BY <1>3
  <2>3. /\ SubSeq(d, 1, n) \in Seq(Bytes)
        /\ Len(SubSeq(d, 1, n)) = IF 1 <= n THEN n - 1 + 1 ELSE 0
    BY <2>1, <2>2, SubSeqProperties
  <2> DEFINE s == SubSeq(d, 1, n)
  <2> HIDE DEF s
  <2>4. s \in Seq(Bytes) /\ Len(s) = IF 1 <= n THEN n - 1 + 1 ELSE 0
    BY <2>3 DEF s
  <2>5. Len(s) = n
    BY <1>3, <2>4
  <2>6. s \in [1..n -> Bytes]
    BY <1>3, <2>4, <2>5
  <2> QED
    BY <2>6 DEF s
<1> QED
  BY <1>3, <1>4 DEF Contents

\* Writing within the bound gives a content that reaches as far as the writing.
LEMMA OverwrittenContents ==
  ASSUME NEW file, FileOK(file), NEW bytes \in Contents,
         file.position + Len(bytes) <= MaxLen
  PROVE  /\ Overwritten(file, bytes) \in Contents
         /\ file.position + Len(bytes) <= Len(Overwritten(file, bytes))
<1> DEFINE p == file.position
           n == Len(bytes)
           m == Len(file.data)
           k == IF p + n > m THEN p + n ELSE m
<1>1. file.data \in Contents /\ file.position \in 0..MaxLen
      /\ file.position <= Len(file.data)
  BY DEF FileOK, OpenFile
<1>2. p \in 0..MaxLen /\ n \in 0..MaxLen /\ m \in 0..MaxLen /\ MaxLen \in Nat /\ p <= m
  BY <1>1, ContentsLen, GuestFilesAssumption
<1>3. /\ \A i \in 1..m : file.data[i] \in Bytes
      /\ \A i \in 1..n : bytes[i] \in Bytes
  BY <1>1, ContentsLen
<1>4. p + n <= MaxLen
  OBVIOUS
<1>5. Overwritten(file, bytes) =
        [i \in 1..k |-> IF i > p /\ i <= p + n THEN bytes[i - p] ELSE file.data[i]]
  BY DEF Overwritten
<1> HIDE DEF p, n, m
<1>6. k \in 0..MaxLen /\ p + n <= k /\ k \in Nat
  BY <1>2, <1>4
<1>7. ASSUME NEW i \in 1..k
      PROVE  (IF i > p /\ i <= p + n THEN bytes[i - p] ELSE file.data[i]) \in Bytes
  <2>1. CASE i > p /\ i <= p + n
    <3>1. i - p \in 1..n
      BY <1>2, <1>6, <2>1
    <3> QED
      BY <1>3, <2>1, <3>1
  <2>2. CASE ~(i > p /\ i <= p + n)
    <3>1. i \in 1..m
      BY <1>2, <1>6, <2>2
    <3> QED
      BY <1>3, <2>2, <3>1
  <2> QED
    BY <2>1, <2>2
<1> HIDE DEF k
<1>8. Overwritten(file, bytes) \in [1..k -> Bytes]
  BY <1>5, <1>7
<1>9. Overwritten(file, bytes) \in Seq(Bytes) /\ Len(Overwritten(file, bytes)) = k
  BY <1>6, <1>8
<1> QED
  BY <1>6, <1>8, <1>9 DEF Contents, p, n

-----------------------------------------------------------------------------
(* Files.                                                                  *)

\* What fopen and dl_res_open make of a name is a well-formed file, and one
\* that is clean shows what is on the disk.
LEMMA OpenedOK ==
  ASSUME TypeOK, NEW name \in Names, NEW mode \in Modes, NEW readable \in BOOLEAN,
         NEW file \in GuestFile(name, mode[1], mode[2], readable) \cup BundledFile(name)
  PROVE  /\ FileOK(file)
         /\ file.save_path # NoPath /\ ~file.dirty => disk[file.save_path] = file.data
<1>1. SaveNames \subseteq Names /\ NoPath \notin SaveNames /\ MaxLen \in Nat
      /\ Missing \notin Contents /\ Bundled \in [Names -> Contents \cup {Missing}]
  BY GuestFilesAssumption
<1>2. ASSUME NEW d \in Contents
      PROVE  FileOK(File(d, 0, NoPath, FALSE, FALSE))
  BY <1>1, <1>2, ContentsLen DEF FileOK, OpenFile, File
<1>3. ASSUME NEW d \in Contents, NEW path \in SaveNames, NEW w \in BOOLEAN, NEW b \in BOOLEAN,
             b => w, NEW p \in {0, Len(d)}
      PROVE  FileOK(File(d, p, path, w, b))
  BY <1>1, <1>3, ContentsLen DEF FileOK, OpenFile, File
<1>4. CASE file \in BundledFile(name)
  <2>1. Bundled[name] \in Contents /\ file = File(Bundled[name], 0, NoPath, FALSE, FALSE)
    BY <1>1, <1>4 DEF BundledFile
  <2> QED
    BY <1>2, <2>1 DEF File
<1>5. CASE file \in SaveFile(name, mode[1], mode[2], readable)
  <2>1. name \in SaveNames
    BY <1>5 DEF SaveFile
  <2>2. disk[name] \in Contents \cup {Missing}
    BY <2>1 DEF TypeOK
  <2>3. PICK op \in {"r", "w", "a"}, w \in BOOLEAN : mode = <<op, w>> /\ (op = "r" \/ w)
    BY DEF Modes
  <2>4. mode[1] = op /\ mode[2] = w
    BY <2>3
  <2>5. CASE op = "r"
    <3>1. disk[name] \in Contents /\ file = File(disk[name], 0, name, w, FALSE)
      BY <1>5, <2>1, <2>2, <2>4, <2>5 DEF SaveFile
    <3> QED
      BY <1>3, <2>1, <3>1 DEF File
  <2>6. CASE op = "w"
    <3>1. file = File(<< >>, 0, name, TRUE, TRUE)
      BY <1>5, <2>1, <2>3, <2>4, <2>6 DEF SaveFile
    <3> QED
      BY <1>3, <2>1, <3>1, EmptyContents DEF File
  <2>7. CASE op = "a"
    <3>1. PICK d \in Contents : file = File(d, Len(d), name, TRUE, TRUE)
      BY <1>5, <2>1, <2>2, <2>3, <2>4, <2>7, EmptyContents DEF SaveFile
    <3>2. FileOK(File(d, Len(d), name, TRUE, TRUE))
      BY <1>3, <2>1
    <3> QED
      BY <3>1, <3>2 DEF File
  <2> QED
    BY <2>3, <2>5, <2>6, <2>7
<1> QED
  BY <1>4, <1>5 DEF GuestFile

\* The flags and the position of a file are fields of their own.
LEMMA FileFields ==
  ASSUME NEW file, FileOK(file)
  PROVE  /\ file.data \in Contents /\ file.position \in 0..MaxLen
         /\ file.position <= Len(file.data) /\ Len(file.data) \in 0..MaxLen
         /\ file.save_path \in SaveNames \cup {NoPath}
         /\ \A p \in 0..Len(file.data) : FileOK([file EXCEPT !.position = p])
         /\ \A b \in BOOLEAN : file.dirty => FileOK([file EXCEPT !.dirty = b])
<1>1. file \in OpenFile /\ Len(file.data) \in 0..MaxLen /\ MaxLen \in Nat
  BY ContentsLen, GuestFilesAssumption DEF FileOK, OpenFile
<1> QED
  BY <1>1 DEF FileOK, OpenFile

\* A call that changes one file leaves the handles as they are.
LEMMA UpdateOK ==
  ASSUME TypeOK, NEW h \in DOMAIN open_files, NEW file, FileOK(file), Update(h, file)
  PROVE  /\ HandlesOK(open_files', next_file_handle)
         /\ DOMAIN open_files' = DOMAIN open_files
         /\ open_files'[h] = file
         /\ \A g \in DOMAIN open_files \ {h} : open_files'[g] = open_files[g]
BY DEF TypeOK, HandlesOK, Update

-----------------------------------------------------------------------------
(* The invariant.                                                          *)

\* A program starts with no file open.
LEMMA InitIInv == Init => IInv
<1>1. 1 \in 1..(MaxHandle + 1) /\ DOMAIN << >> = {}
  BY GuestFilesAssumption
<1> QED
  BY <1>1 DEF Init, IInv, TypeOK, HandlesOK, HandlesAreFresh, CleanIsOnDisk, LoopInv,
              InLoop, SavedFresh

\* A new emulator has no handles.
LEMMA FreshIInv ==
  ASSUME IInv, Fresh, UNCHANGED <<disk, saved>>,
         session' \in {"off", "run", "reset", "unload"}
  PROVE  IInv'
<1>1. 1 \in 1..(MaxHandle + 1) /\ DOMAIN << >> = {}
  BY GuestFilesAssumption
<1> QED
  BY <1>1 DEF Fresh, IInv, TypeOK, HandlesOK, HandlesAreFresh, CleanIsOnDisk, LoopInv,
              InLoop, SavedFresh

\* A call that moves the position or changes the data of one file.
LEMMA UpdateIInv ==
  ASSUME IInv, session = "run", NEW h \in DOMAIN open_files, NEW file, FileOK(file),
         Update(h, file),
         \/ file.dirty
         \/ /\ file.dirty = open_files[h].dirty /\ file.data = open_files[h].data
            /\ file.save_path = open_files[h].save_path,
         UNCHANGED <<next_file_handle, disk, saved, session, loop, current>>
  PROVE  IInv'
<1>1. /\ HandlesOK(open_files', next_file_handle)
      /\ DOMAIN open_files' = DOMAIN open_files
      /\ open_files'[h] = file
      /\ \A g \in DOMAIN open_files \ {h} : open_files'[g] = open_files[g]
  BY UpdateOK DEF IInv
<1>2. TypeOK' /\ HandlesAreFresh' /\ SavedFresh'
  BY <1>1 DEF IInv, TypeOK, HandlesAreFresh, SavedFresh, loop
<1>3. CleanIsOnDisk'
  BY <1>1 DEF IInv, CleanIsOnDisk
<1>4. LoopInv'
  BY DEF IInv, LoopInv, InLoop, loop
<1> QED
  BY <1>2, <1>3, <1>4 DEF IInv

\* A handle that goes, and what a write of its file does to the others.
LEMMA RemoveIInv ==
  ASSUME IInv, session = "run", NEW h \in DOMAIN open_files,
         open_files' = Without(open_files, h),
         disk' \in [SaveNames -> Contents \cup {Missing}],
         \/ current' = current \ {h} /\ disk' = disk
         \/ /\ current' = (current \ Others(h)) \ {h}
            /\ \A n \in SaveNames : n # open_files[h].save_path => disk'[n] = disk[n],
         UNCHANGED <<next_file_handle, saved, session, loop>>
  PROVE  IInv'
<1>1. /\ DOMAIN open_files' = DOMAIN open_files \ {h}
      /\ \A g \in DOMAIN open_files' : open_files'[g] = open_files[g]
  BY DEF Without, Restrict
<1>2. HandlesOK(open_files', next_file_handle) /\ current' \subseteq 1..MaxHandle
  BY <1>1 DEF IInv, TypeOK, HandlesOK
<1>3. TypeOK'
  BY <1>1, <1>2 DEF IInv, TypeOK, LoopInv, InLoop, loop
<1>4. HandlesAreFresh' /\ SavedFresh' /\ LoopInv'
  BY <1>1 DEF IInv, HandlesAreFresh, SavedFresh, LoopInv, InLoop, loop
<1>5. ASSUME NEW g \in DOMAIN open_files' \cap current',
             open_files'[g].save_path # NoPath, ~open_files'[g].dirty
      PROVE  disk'[open_files'[g].save_path] = open_files'[g].data
  <2>1. g \in DOMAIN open_files /\ g # h /\ open_files'[g] = open_files[g] /\ g \in current
    BY <1>1, <1>5
  <2>2. disk[open_files[g].save_path] = open_files[g].data
    BY <1>5, <2>1 DEF IInv, CleanIsOnDisk
  <2>3. open_files[g].save_path \in SaveNames
    BY <1>5, <2>1, FileFields DEF IInv, TypeOK, HandlesOK
  <2>4. disk' = disk \/ open_files[g].save_path # open_files[h].save_path
    BY <1>5, <2>1 DEF Others
  <2> QED
    BY <2>1, <2>2, <2>3, <2>4
<1>6. CleanIsOnDisk'
  BY <1>5 DEF CleanIsOnDisk
<1> QED
  BY <1>3, <1>4, <1>6 DEF IInv

\* fs::write, whether it succeeds or fails, touches one file of the directory.
LEMMA WriteDisk ==
  ASSUME TypeOK, NEW h \in DOMAIN open_files, Modified(h), Written(h) \/ NotWritten(h)
  PROVE  /\ disk' \in [SaveNames -> Contents \cup {Missing}]
         /\ \A n \in SaveNames : n # open_files[h].save_path => disk'[n] = disk[n]
         /\ Written(h) => disk'[open_files[h].save_path] = open_files[h].data
<1>1. open_files[h].save_path \in SaveNames /\ open_files[h].data \in Contents
  BY FileFields DEF TypeOK, HandlesOK, Modified
<1>2. disk \in [SaveNames -> Contents \cup {Missing}]
  BY DEF TypeOK
<1>3. \A n \in 0..(Len(open_files[h].data) - 1) :
         SubSeq(open_files[h].data, 1, n) \in Contents
  BY <1>1, PrefixContents
<1> QED
  BY <1>1, <1>2, <1>3 DEF Written, NotWritten

\* One handle of the flush loop.
LEMMA FlushIInv == ASSUME IInv, Flush PROVE IInv'
<1>1. PICK h \in pending : FlushOne(h)
  BY DEF Flush
<1>2. h \in DOMAIN open_files /\ FileOK(open_files[h]) /\ InLoop
      /\ pending' = pending \ {h}
  BY <1>1 DEF IInv, TypeOK, HandlesOK, Flush, InLoop, FlushOne, AfterFailure
<1>3. UNCHANGED <<next_file_handle, saved, session>> /\ InLoop'
  BY <1>1, <1>2 DEF FlushOne, InLoop
<1>4. CASE ~Modified(h)
  <2>1. UNCHANGED <<open_files, disk, unsaved, current>>
    BY <1>1, <1>4 DEF FlushOne
  <2> QED
    BY <1>2, <1>3, <1>4, <2>1
       DEF IInv, TypeOK, HandlesAreFresh, CleanIsOnDisk, LoopInv, SavedFresh, Modified
<1>5. CASE Modified(h)
  <2>1. PICK b \in BOOLEAN :
          /\ Update(h, Flushed(h, b))
          /\ b => Written(h) /\ unsaved' = unsaved
          /\ ~b => NotWritten(h) /\ unsaved' = unsaved \cup {h}
    <3>1. \/ Written(h) /\ Update(h, Flushed(h, TRUE)) /\ unsaved' = unsaved
          \/ NotWritten(h) /\ Update(h, Flushed(h, FALSE)) /\ unsaved' = unsaved \cup {h}
      BY <1>1, <1>5 DEF FlushOne
    <3> QED
      BY <3>1
  <2>2. current' = current \ Others(h)
    BY <1>1, <1>5 DEF FlushOne
  <2>3. FileOK(Flushed(h, b)) /\ Flushed(h, b).dirty = ~b
        /\ Flushed(h, b).data = open_files[h].data
        /\ Flushed(h, b).save_path = open_files[h].save_path
    <3>1. open_files[h] \in OpenFile /\ open_files[h].dirty
      BY <1>2, <1>5 DEF FileOK, Modified
    <3>2. FileOK(Flushed(h, b))
      BY <1>2, <3>1, FileFields DEF Flushed
    <3> QED
      BY <3>1, <3>2 DEF Flushed, OpenFile
  <2>4. /\ HandlesOK(open_files', next_file_handle)
        /\ DOMAIN open_files' = DOMAIN open_files
        /\ open_files'[h] = Flushed(h, b)
        /\ \A g \in DOMAIN open_files \ {h} : open_files'[g] = open_files[g]
    BY <1>2, <2>1, <2>3, UpdateOK DEF IInv
  <2>5. /\ disk' \in [SaveNames -> Contents \cup {Missing}]
        /\ \A n \in SaveNames : n # open_files[h].save_path => disk'[n] = disk[n]
        /\ b => disk'[open_files[h].save_path] = open_files[h].data
    BY <1>2, <1>5, <2>1, WriteDisk DEF IInv
  <2>6. h \in 1..MaxHandle /\ unsaved' \subseteq 1..MaxHandle
    BY <1>2, <2>1 DEF IInv, TypeOK, HandlesOK
  <2>7. TypeOK'
    BY <1>2, <1>3, <2>2, <2>4, <2>5, <2>6 DEF IInv, TypeOK
  <2>8. HandlesAreFresh' /\ SavedFresh'
    BY <1>3, <2>4 DEF IInv, HandlesAreFresh, SavedFresh
  <2>9. ASSUME NEW g \in DOMAIN open_files' \cap current',
               open_files'[g].save_path # NoPath, ~open_files'[g].dirty
        PROVE  disk'[open_files'[g].save_path] = open_files'[g].data
    <3>1. CASE g = h
      BY <2>3, <2>4, <2>5, <2>9, <3>1
    <3>2. CASE g # h
      <4>1. g \in DOMAIN open_files /\ open_files'[g] = open_files[g] /\ g \in current
            /\ open_files[g].save_path # open_files[h].save_path
        BY <2>2, <2>4, <2>9, <3>2 DEF Others
      <4>2. disk[open_files[g].save_path] = open_files[g].data
        BY <2>9, <4>1 DEF IInv, CleanIsOnDisk
      <4>3. open_files[g].save_path \in SaveNames
        BY <2>9, <4>1, FileFields DEF IInv, TypeOK, HandlesOK
      <4> QED
        BY <2>5, <4>1, <4>2, <4>3
    <3> QED
      BY <3>1, <3>2
  <2>10. CleanIsOnDisk'
    BY <2>9 DEF CleanIsOnDisk
  <2>11. ASSUME NEW g \in DOMAIN open_files' \ pending', Modified(g)'
         PROVE  g \in unsaved'
    <3>1. CASE g = h
      BY <2>1, <2>3, <2>4, <2>11, <3>1 DEF Modified
    <3>2. CASE g # h
      BY <1>2, <2>1, <2>4, <2>11, <3>2 DEF IInv, LoopInv, Modified
    <3> QED
      BY <3>1, <3>2
  <2>12. LoopInv'
    BY <1>3, <2>11 DEF LoopInv
  <2> QED
    BY <2>7, <2>8, <2>10, <2>12 DEF IInv
<1> QED
  BY <1>4, <1>5

\* A new handle is above all others.
LEMMA OpenIInv == ASSUME IInv, Open PROVE IInv'
<1>1. PICK name \in Names, mode \in Modes, readable \in BOOLEAN :
        \E file \in GuestFile(name, mode[1], mode[2], readable) \cup BundledFile(name) :
          Insert(file)
  BY DEF Open
<1>2. PICK file \in GuestFile(name, mode[1], mode[2], readable) \cup BundledFile(name) :
        Insert(file)
  BY <1>1
<1>3. /\ FileOK(file)
      /\ file.save_path # NoPath /\ ~file.dirty => disk[file.save_path] = file.data
  BY OpenedOK DEF IInv
<1> DEFINE n == next_file_handle
<1>4. n \in 1..MaxHandle /\ n + 1 \in 1..(MaxHandle + 1) /\ n \notin DOMAIN open_files
      /\ n < n + 1
  BY GuestFilesAssumption DEF Open, IInv, TypeOK, HandlesOK, HandlesAreFresh
<1>5. /\ DOMAIN open_files' = DOMAIN open_files \cup {n}
      /\ open_files'[n] = file
      /\ \A g \in DOMAIN open_files : open_files'[g] = open_files[g]
      /\ next_file_handle' = n + 1
      /\ current' = current \cup {n}
  BY <1>2, <1>4 DEF Insert
<1>6. UNCHANGED <<disk, saved, session, pending, unsaved>> /\ session = "run"
  BY DEF Open, loop
<1>7. HandlesOK(open_files', n + 1) /\ current' \subseteq 1..MaxHandle
  BY <1>3, <1>4, <1>5 DEF IInv, TypeOK, HandlesOK
<1>8. TypeOK'
  BY <1>5, <1>6, <1>7 DEF IInv, TypeOK
<1>9. \A h \in DOMAIN open_files : h \in Nat /\ h < n /\ n \in Nat
  BY <1>4 DEF IInv, TypeOK, HandlesOK, HandlesAreFresh
<1>10. HandlesAreFresh'
  BY <1>4, <1>5, <1>9 DEF HandlesAreFresh
<1>11. CleanIsOnDisk'
  BY <1>3, <1>4, <1>5, <1>6 DEF IInv, CleanIsOnDisk
<1>12. LoopInv' /\ SavedFresh'
  BY <1>6 DEF IInv, LoopInv, InLoop, SavedFresh
<1> QED
  BY <1>8, <1>10, <1>11, <1>12 DEF IInv

\* Every call, every end of a session and every restored state keeps it.
LEMMA NextIInv == ASSUME IInv, [Next]_vars PROVE IInv'
<1>1. CASE Open
  BY <1>1, OpenIInv
<1>2. ASSUME NEW h \in DOMAIN open_files, FileCall(h) PROVE IInv'
  <2>0. FileOK(open_files[h])
    BY DEF IInv, TypeOK, HandlesOK
  <2>1. CASE Read(h)
    <3>1. PICK n \in 1..(Len(open_files[h].data) - open_files[h].position) :
            Update(h, [open_files[h] EXCEPT !.position = @ + n])
      BY <2>1 DEF Read
    <3>2. open_files[h].position + n \in 0..Len(open_files[h].data)
      BY <2>0, FileFields, GuestFilesAssumption
    <3>3. FileOK([open_files[h] EXCEPT !.position = @ + n])
      BY <2>0, <3>2, FileFields
    <3> QED
      BY <2>0, <2>1, <3>1, <3>3, UpdateIInv DEF Read, FileOK, OpenFile
  <2>2. CASE Write(h)
    <3>1. PICK bytes \in Contents \ {<< >>} :
            /\ open_files[h].position + Len(bytes) <= MaxLen
            /\ Update(h, [open_files[h] EXCEPT !.data = Overwritten(open_files[h], bytes),
                                               !.position = @ + Len(bytes),
                                               !.dirty = TRUE])
      BY <2>2 DEF Write
    <3> DEFINE file == [open_files[h] EXCEPT !.data = Overwritten(open_files[h], bytes),
                                             !.position = @ + Len(bytes),
                                             !.dirty = TRUE]
    <3>2. Overwritten(open_files[h], bytes) \in Contents
          /\ open_files[h].position + Len(bytes) <= Len(Overwritten(open_files[h], bytes))
      BY <2>0, <3>1, OverwrittenContents
    <3>3. open_files[h].position + Len(bytes) \in 0..MaxLen
      BY <2>0, <3>1, FileFields, ContentsLen, GuestFilesAssumption
    <3>4. FileOK(file) /\ file.dirty
      BY <2>0, <2>2, <3>2, <3>3 DEF FileOK, OpenFile, Write
    <3> HIDE DEF file
    <3>5. Update(h, file)
      BY <3>1 DEF file
    <3> QED
      BY <2>2, <3>4, <3>5, UpdateIInv DEF Write
  <2>3. CASE Seek(h)
    <3>1. PICK next \in 0..(MaxLen + 1) :
            Update(h, [open_files[h] EXCEPT !.position = SeekTo(open_files[h], next)])
      BY <2>3 DEF Seek
    <3>2. SeekTo(open_files[h], next) \in 0..Len(open_files[h].data)
      BY <2>0, FileFields, GuestFilesAssumption DEF SeekTo
    <3>3. FileOK([open_files[h] EXCEPT !.position = SeekTo(open_files[h], next)])
      BY <2>0, <3>2, FileFields
    <3> QED
      BY <2>0, <2>3, <3>1, <3>3, UpdateIInv DEF Seek, FileOK, OpenFile
  <2>4. CASE Close(h)
    <3>1. CASE Modified(h)
      <4>1. Written(h) \/ NotWritten(h)
        BY <2>4, <3>1 DEF Close
      <4>2. /\ disk' \in [SaveNames -> Contents \cup {Missing}]
            /\ \A n \in SaveNames : n # open_files[h].save_path => disk'[n] = disk[n]
        BY <3>1, <4>1, WriteDisk DEF IInv
      <4>3. current' = (current \ Others(h)) \ {h}
        BY <2>4, <3>1 DEF Close
      <4> QED
        BY <2>4, <4>2, <4>3, RemoveIInv DEF Close
    <3>2. CASE ~Modified(h)
      <4>1. disk' = disk /\ current' = current \ {h}
        BY <2>4, <3>2 DEF Close
      <4>2. disk' \in [SaveNames -> Contents \cup {Missing}]
        BY <4>1 DEF IInv, TypeOK
      <4> QED
        BY <2>4, <4>1, <4>2, RemoveIInv DEF Close
    <3> QED
      BY <3>1, <3>2
  <2>5. CASE CloseResource(h)
    <3>1. disk' \in [SaveNames -> Contents \cup {Missing}]
      BY <2>5 DEF CloseResource, IInv, TypeOK
    <3> QED
      BY <2>5, <3>1, RemoveIInv DEF CloseResource
  <2> QED
    BY <1>2, <2>1, <2>2, <2>3, <2>4, <2>5 DEF FileCall
<1>3. CASE Load \/ ResetEnd \/ UnloadEnd \/ Exit \/ Crash
  BY <1>3, FreshIInv DEF Load, ResetEnd, UnloadEnd, Exit, Crash
<1>4. CASE Reset \/ Unload
  <2>1. session' \in {"reset", "unload"} /\ pending' = DOMAIN open_files' /\ unsaved' = {}
        /\ UNCHANGED <<open_files, next_file_handle, disk, saved, current>>
    BY <1>4 DEF Reset, Unload, FlushAll, files
  <2> QED
    BY <2>1 DEF IInv, TypeOK, HandlesAreFresh, CleanIsOnDisk, LoopInv, InLoop, SavedFresh
<1>5. CASE Flush
  BY <1>5, FlushIInv
<1>6. CASE Serialize
  <2>1. saved'.open_files = open_files /\ saved'.next_file_handle = next_file_handle
        /\ UNCHANGED <<open_files, next_file_handle, disk, session, pending, unsaved, current>>
    BY <1>6 DEF Serialize, files, loop
  <2> QED
    BY <2>1 DEF IInv, TypeOK, HandlesAreFresh, CleanIsOnDisk, LoopInv, InLoop, SavedFresh,
                Modified
<1>7. CASE Unserialize
  <2>1. /\ open_files' = saved.open_files /\ next_file_handle' = saved.next_file_handle
        /\ current' = {} /\ saved # NoState /\ session = "run"
        /\ UNCHANGED <<disk, saved, session, pending, unsaved>>
    BY <1>7 DEF Unserialize, Restored, loop
  <2>2. pending = {}
    BY <2>1 DEF IInv, LoopInv, InLoop
  <2> QED
    BY <2>1, <2>2 DEF IInv, TypeOK, HandlesAreFresh, CleanIsOnDisk, LoopInv, InLoop, SavedFresh
<1>8. CASE UNCHANGED vars
  BY <1>8 DEF vars, files, loop, IInv, TypeOK, HandlesAreFresh, CleanIsOnDisk, LoopInv,
              InLoop, SavedFresh, Modified
<1> QED
  BY <1>1, <1>2, <1>3, <1>4, <1>5, <1>6, <1>7, <1>8 DEF Next

\* The inductive invariant holds throughout.
LEMMA Invariant == Spec => []IInv
BY InitIInv, NextIInv, PTL DEF Spec

-----------------------------------------------------------------------------
(* The theorems.                                                           *)

\* Every file stays well-formed: no position is beyond the end of its data.
THEOREM TypeCorrect == Spec => []TypeOK
BY Invariant, PTL DEF IInv

\* No open takes the place of an open file, also after a state was restored.
THEOREM HandlesAreFreshHolds == Spec => []HandlesAreFresh
BY Invariant, PTL DEF IInv

\* What a clean handle shows is on the disk.
THEOREM CleanIsOnDiskHolds == Spec => []CleanIsOnDisk
BY Invariant, PTL DEF IInv

\* A flush of all files leaves each one written or reported.
THEOREM FlushedAtEndHolds == Spec => []FlushedAtEnd
<1>1. ASSUME IInv PROVE FlushedAtEnd
  <2> SUFFICES ASSUME InLoop, pending = {}, NEW h \in DOMAIN open_files
               PROVE  /\ Modified(h) => h \in unsaved
                      /\ h \in current /\ h \notin unsaved
                         /\ open_files[h].save_path # NoPath
                           => disk[open_files[h].save_path] = open_files[h].data
    BY DEF FlushedAtEnd, InLoop
  <2>1. Modified(h) => h \in unsaved
    BY <1>1 DEF IInv, LoopInv
  <2> QED
    BY <1>1, <2>1 DEF IInv, CleanIsOnDisk, Modified
<1> QED
  BY <1>1, Invariant, PTL
=============================================================================
