----------------------------- MODULE GuestFiles -----------------------------
(***************************************************************************)
(* The files of the guest (crates/dingooemu-core/src/emulator.rs and       *)
(* sdk_hle/files.rs): a file is read whole when it is opened, changed in   *)
(* memory, and written back whole when it is closed and when the emulator  *)
(* is reset or the content unloaded.  With save states, which hold the     *)
(* open files, and the ways a session ends.                                *)
(*                                                                         *)
(* What is on the host's disk survives a session; a write to it may fail,  *)
(* and then has changed nothing or left a first part of the new data.      *)
(* Within a session everything runs on one thread, but it may be killed    *)
(* between any two steps, those of the loop that flushes all files         *)
(* included.  An error of tick leaves the emulator as it is.  The two      *)
(* frontends are one model: reset, unload and save states are the          *)
(* libretro core's, Exit the standalone program's.                         *)
(***************************************************************************)
EXTENDS Integers, Sequences, Functions

CONSTANTS
  Names,       \* file names the guest uses, normalised
  SaveNames,   \* those of them that save_file_path accepts
  Bundled,     \* name -> the resource or host file of that name, or Missing
  Bytes,
  Missing,     \* no file
  MaxLen,      \* bound: length of a file
  MaxHandle    \* bound: files opened in one session

NoPath == "none"   \* the save_path of a resource or host file

Contents == UNION {[1..n -> Bytes] : n \in 0..MaxLen}

ASSUME GuestFilesAssumption ==
  /\ SaveNames \subseteq Names /\ NoPath \notin Names
  /\ MaxLen \in Nat /\ MaxHandle \in Nat
  /\ Missing \notin Contents
  /\ Bundled \in [Names -> Contents \cup {Missing}]

VARIABLES
  open_files,         \* handle -> OpenFile
  next_file_handle,
  disk,               \* what the save directory holds
  saved,              \* the frontend's save state, or NoState
  session,            \* "off", "run", or the operation whose flush loop runs
  pending, unsaved,   \* of that loop: handles to come, handles that failed
  current             \* handles whose file no other handle has written since

files == <<open_files, next_file_handle>>
loop == <<pending, unsaved>>
vars == <<files, disk, saved, session, loop, current>>

NoState == [none |-> TRUE]
File(data, position, path, writable, dirty) ==
  [data |-> data, position |-> position, save_path |-> path,
   writable |-> writable, dirty |-> dirty]

Init ==
  /\ open_files = << >> /\ next_file_handle = 1
  /\ disk \in [SaveNames -> Contents \cup {Missing}]
  /\ saved = NoState
  /\ session = "off"
  /\ pending = {} /\ unsaved = {} /\ current = {}

\* A new emulator, or none.
Fresh ==
  /\ open_files' = << >> /\ next_file_handle' = 1 /\ current' = {}
  /\ pending' = {} /\ unsaved' = {}

Without(f, h) == Restrict(f, DOMAIN f \ {h})

-----------------------------------------------------------------------------
(* Opening.                                                                *)

\* open_save_file: what a new handle holds, or nothing.  An unreadable file
\* is like a missing one, except that "a" does not create it.
SaveFile(name, operation, writable, readable) ==
  LET new  == operation = "w" \/ (operation = "a" /\ readable /\ disk[name] = Missing)
      data == IF new THEN << >> ELSE disk[name]
  IN  IF name \in SaveNames /\ (new \/ (readable /\ data # Missing))
      THEN {File(data, IF operation = "a" THEN Len(data) ELSE 0, name, writable,
                 writable /\ operation # "r")}
      ELSE {}

\* open_resource_file and then open_host_file: never writable.
BundledFile(name) ==
  IF Bundled[name] = Missing THEN {}
  ELSE {File(Bundled[name], 0, NoPath, FALSE, FALSE)}

\* open_guest_file: only a mode that reads falls back on a bundled file.
GuestFile(name, operation, writable, readable) ==
  LET file == SaveFile(name, operation, writable, readable)
  IN  IF file = {} /\ operation = "r" THEN BundledFile(name) ELSE file

\* The handle goes up by one and wraps around only after 2^32 files.
Insert(file) ==
  /\ open_files' = [h \in DOMAIN open_files \cup {next_file_handle} |->
                      IF h = next_file_handle THEN file ELSE open_files[h]]
  /\ next_file_handle' = next_file_handle + 1
  /\ current' = current \cup {next_file_handle}

\* fopen, and dl_res_open, which finds only what is bundled.
Modes == {<<"r", FALSE>>, <<"r", TRUE>>, <<"w", TRUE>>, <<"a", TRUE>>}

Open ==
  /\ session = "run" /\ next_file_handle <= MaxHandle
  /\ \E name \in Names, mode \in Modes, readable \in BOOLEAN :
       \E file \in GuestFile(name, mode[1], mode[2], readable) \cup BundledFile(name) :
         Insert(file)
  /\ UNCHANGED <<disk, saved, session, loop>>

-----------------------------------------------------------------------------
(* Reading, writing and seeking.                                           *)

Update(h, file) == open_files' = [open_files EXCEPT ![h] = file]

\* fread and dl_res_get_data move the position over what they copy.
Read(h) ==
  /\ session = "run"
  /\ \E n \in 1..(Len(open_files[h].data) - open_files[h].position) :
       Update(h, [open_files[h] EXCEPT !.position = @ + n])
  /\ UNCHANGED <<next_file_handle, disk, saved, session, loop, current>>

\* The data with new bytes from position on.
Overwritten(file, bytes) ==
  [i \in 1..(IF file.position + Len(bytes) > Len(file.data)
             THEN file.position + Len(bytes) ELSE Len(file.data)) |->
     IF i > file.position /\ i <= file.position + Len(bytes)
     THEN bytes[i - file.position] ELSE file.data[i]]

Write(h) ==
  /\ session = "run"
  /\ open_files[h].writable
  /\ \E bytes \in Contents \ {<< >>} :
       /\ open_files[h].position + Len(bytes) <= MaxLen
       /\ Update(h, [open_files[h] EXCEPT !.data = Overwritten(open_files[h], bytes),
                                          !.position = @ + Len(bytes),
                                          !.dirty = TRUE])
  /\ UNCHANGED <<next_file_handle, disk, saved, session, loop, current>>

\* fseek: beyond the end is the end, before the start changes nothing.
MutSeekTo(file, next) == next
SeekTo(file, next) == IF next > Len(file.data) THEN Len(file.data) ELSE next
Seek(h) ==
  /\ session = "run"
  /\ \E next \in 0..(MaxLen + 1) :
       Update(h, [open_files[h] EXCEPT !.position = SeekTo(open_files[h], next)])
  /\ UNCHANGED <<next_file_handle, disk, saved, session, loop, current>>

-----------------------------------------------------------------------------
(* Writing back.  Whether fs::write succeeds or fails, the other handles   *)
(* of the file may differ from the disk afterwards.                        *)

Modified(h) == open_files[h].dirty /\ open_files[h].save_path # NoPath

\* The handles of the same file, other than h.
Others(h) ==
  {g \in DOMAIN open_files \ {h} : open_files[g].save_path = open_files[h].save_path}

\* fs::write of a modified file succeeds or fails.
Written(h) ==
  disk' = [disk EXCEPT ![open_files[h].save_path] = open_files[h].data]
NotWritten(h) ==
  \/ UNCHANGED disk
  \/ \E n \in 0..(Len(open_files[h].data) - 1) :
       disk' = [disk EXCEPT ![open_files[h].save_path] = SubSeq(open_files[h].data, 1, n)]

\* flush_save_file: only a file that was written is clean.
MutFlushed(h, written) == [open_files[h] EXCEPT !.dirty = FALSE]
Flushed(h, written) == [open_files[h] EXCEPT !.dirty = ~written]

\* fclose: the handle goes, written or not, and the result tells the guest.
Close(h) ==
  /\ session = "run"
  /\ open_files' = Without(open_files, h)
  /\ IF Modified(h) THEN Written(h) \/ NotWritten(h) ELSE UNCHANGED disk
  /\ current' = (IF Modified(h) THEN current \ Others(h) ELSE current) \ {h}
  /\ UNCHANGED <<next_file_handle, saved, session, loop>>

\* dl_res_close removes whatever has that handle and writes nothing.
CloseResource(h) ==
  /\ session = "run"
  /\ open_files' = Without(open_files, h)
  /\ current' = current \ {h}
  /\ UNCHANGED <<next_file_handle, disk, saved, session, loop>>

\* flush_save_files, one handle per step, in the order of a HashMap.
FlushAll(operation) ==
  /\ session' = operation
  /\ pending' = DOMAIN open_files
  /\ unsaved' = {}
  /\ UNCHANGED <<files, disk, saved, current>>

MutAfterFailure(h) == {}
AfterFailure(h) == pending \ {h}
FlushOne(h) ==
  /\ \/ /\ ~Modified(h)
        /\ pending' = pending \ {h}
        /\ UNCHANGED <<open_files, disk, unsaved>>
     \/ /\ Modified(h) /\ Written(h)
        /\ Update(h, Flushed(h, TRUE))
        /\ pending' = pending \ {h}
        /\ UNCHANGED unsaved
     \/ /\ Modified(h) /\ NotWritten(h)
        /\ Update(h, Flushed(h, FALSE))
        /\ pending' = AfterFailure(h)
        /\ unsaved' = unsaved \cup {h}
  /\ current' = IF Modified(h) THEN current \ Others(h) ELSE current
  /\ UNCHANGED <<next_file_handle, saved, session>>

Flush == session \in {"reset", "unload"} /\ \E h \in pending : FlushOne(h)

-----------------------------------------------------------------------------
(* The life of a session.                                                  *)

\* from_path and set_save_directory, before any file is open.
Load ==
  /\ session = "off"
  /\ session' = "run"
  /\ Fresh
  /\ UNCHANGED <<disk, saved>>

\* Emulator::reset: everything is rebuilt after the flush.
Reset == session = "run" /\ FlushAll("reset")
ResetEnd ==
  /\ session = "reset" /\ pending = {}
  /\ session' = "run"
  /\ Fresh
  /\ UNCHANGED <<disk, saved>>

\* retro_unload_game.
Unload == session = "run" /\ FlushAll("unload")
UnloadEnd ==
  /\ session = "unload" /\ pending = {}
  /\ session' = "off"
  /\ Fresh
  /\ UNCHANGED <<disk, saved>>

\* The standalone program leaves its loop, also on an error of tick, and main
\* returns.  retro_deinit and a retro_load_game over loaded content drop the
\* emulator in the same way.
Exit ==
  /\ session = "run" /\ session' = "off"
  /\ Fresh
  /\ UNCHANGED <<disk, saved>>

\* The process is killed.
Crash ==
  /\ session # "off" /\ session' = "off"
  /\ Fresh
  /\ UNCHANGED <<disk, saved>>

\* retro_serialize: the open files are part of the state.
Serialize ==
  /\ session = "run"
  /\ saved' = [open_files |-> open_files, next_file_handle |-> next_file_handle]
  /\ UNCHANGED <<files, disk, session, loop, current>>

\* retro_unserialize, of a state that is accepted: what is open now goes
\* unwritten, and what comes back may be older than the disk.
MutRestored == open_files' = saved.open_files /\ UNCHANGED next_file_handle
Restored ==
  /\ open_files' = saved.open_files
  /\ next_file_handle' = saved.next_file_handle
Unserialize ==
  /\ session = "run" /\ saved # NoState
  /\ Restored
  /\ current' = {}
  /\ UNCHANGED <<disk, saved, session, loop>>

FileCall(h) == Read(h) \/ Write(h) \/ Seek(h) \/ Close(h) \/ CloseResource(h)

Next ==
  \/ Open \/ \E h \in DOMAIN open_files : FileCall(h)
  \/ Load \/ Reset \/ ResetEnd \/ Unload \/ UnloadEnd \/ Flush
  \/ Exit \/ Crash \/ Serialize \/ Unserialize

Spec == Init /\ [][Next]_vars

-----------------------------------------------------------------------------
(* Properties.                                                             *)

OpenFile ==
  [data : Contents, position : 0..MaxLen, save_path : SaveNames \cup {NoPath},
   writable : BOOLEAN, dirty : BOOLEAN]

\* Reading slices data[position..], so a position is never beyond the end; only
\* a save file is writable, and only a writable file is dirty.
FileOK(file) ==
  /\ file \in OpenFile
  /\ file.position <= Len(file.data)
  /\ file.dirty => file.writable
  /\ file.writable => file.save_path # NoPath

HandlesOK(opened, next) ==
  /\ \A h \in DOMAIN opened : h \in 1..MaxHandle /\ FileOK(opened[h])
  /\ next \in 1..(MaxHandle + 1)

\* The type invariant.
TypeOK ==
  /\ HandlesOK(open_files, next_file_handle)
  /\ disk \in [SaveNames -> Contents \cup {Missing}]
  /\ saved # NoState => HandlesOK(saved.open_files, saved.next_file_handle)
  /\ session \in {"off", "run", "reset", "unload"}
  /\ pending \subseteq DOMAIN open_files
  /\ unsaved \subseteq 1..MaxHandle
  /\ current \subseteq 1..MaxHandle

\* A file that is opened never takes the place of one that is open, also after
\* a state was restored whose handles are older or newer than the present ones.
HandlesAreFresh == \A h \in DOMAIN open_files : h < next_file_handle

\* What an unmodified handle shows is what is on the disk, through all failed
\* and partial writes, as long as no other handle has written the file and no
\* older state was restored.  So a file that counts as clean need not be
\* written again.
CleanIsOnDisk ==
  \A h \in DOMAIN open_files \cap current :
    open_files[h].save_path # NoPath /\ ~open_files[h].dirty
      => disk[open_files[h].save_path] = open_files[h].data

\* "Modified files are flushed when the guest closes them and when the core
\* resets or unloads content" (docs/RetroArch-Core.md): at the end of the flush
\* what the guest wrote is on the disk, under one of the handles it wrote the
\* file with, unless the failure to write that very file was reported; which
\* other files failed before it makes no difference.
FlushedAtEnd ==
  session \in {"reset", "unload"} /\ pending = {} =>
    \A h \in DOMAIN open_files :
      /\ Modified(h) => h \in unsaved
      /\ h \in current /\ h \notin unsaved /\ open_files[h].save_path # NoPath
           => disk[open_files[h].save_path] = open_files[h].data

\* What the documentation of the standalone program says and the code does not
\* do: "Modified files are flushed when the guest closes them and when the
\* emulator stops or resets" (docs/Standalone-Emulator.md).
StopFlushes ==
  [][Exit => \A h \in DOMAIN open_files : ~Modified(h)]_vars

=============================================================================
