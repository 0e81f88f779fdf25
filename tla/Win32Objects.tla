---------------------------- MODULE Win32Objects ----------------------------
(***************************************************************************)
(* The objects behind the Win32 calls of pe-runner/src/win32.mjs that have *)
(* a state of their own: files over a virtual file system, whose writes go *)
(* to an overlay, enumerations of it, and sockets that are answered from a *)
(* script.  Of the other calls, those that open an object nothing is kept  *)
(* of, those that record what the sample tried to do, and those that       *)
(* answer a constant are an action each.  A file's contents are a sequence *)
(* of bytes of Data, written a byte at a time; names that differ in case   *)
(* or in slashes are one path.                                             *)
(***************************************************************************)
EXTENDS Naturals, SequencesExt, FiniteSetsExt

CONSTANTS Data,
          Paths,
          VfsFiles,      \* path -> contents, for the files opts.fs provides
          MaxContents,   \* what is kept of a file, 1 << 20 bytes
          Script,        \* the chunks opts.network answers a connection with
          MaxHandles     \* bound: handles the guest opens in one run

ASSUME Win32Assumption ==
    /\ DOMAIN VfsFiles \subseteq Paths
    /\ MaxContents \in Nat
    /\ \A p \in DOMAIN VfsFiles : VfsFiles[p] \in Seq(Data) /\ Len(VfsFiles[p]) <= MaxContents
    /\ IsFiniteSet(Paths)
    /\ Script \in Seq(Seq(Data))

VARIABLES overlay,     \* path -> contents
          handles,     \* the objects handed out, by the number of the handle; a file's with
                       \* what the file held when it was opened, and whether the handle wrote
          writer,      \* path -> the handle last written through
          got,         \* handle -> what was received since the last connect
          lost         \* handle -> the bytes taken off the script since then and not delivered

objectVars == <<overlay, handles, writer, got, lost>>

ObjectsInit ==
    /\ overlay = [p \in {} |-> <<>>]
    /\ handles = <<>>
    /\ writer = [p \in {} |-> 0]
    /\ got = <<>>
    /\ lost = <<>>

\* The objects of a new world.
ObjectsRestart ==
    /\ overlay' = [p \in {} |-> <<>>]
    /\ handles' = <<>>
    /\ writer' = [p \in {} |-> 0]
    /\ got' = <<>>
    /\ lost' = <<>>

Put(f, x, y) == [z \in DOMAIN f \cup {x} |-> IF z = x THEN y ELSE f[z]]
OfKind(kind) == {h \in DOMAIN handles : handles[h].kind = kind}

\* newHandle: one more, never reused; CloseHandle closes nothing.
NewHandle(obj) ==
    /\ Len(handles) < MaxHandles
    /\ handles' = Append(handles, obj)
    /\ got' = Append(got, <<>>)
    /\ lost' = Append(lost, 0)

-----------------------------------------------------------------------------
(* Files.                                                                  *)

\* vfsLookup: what was written during the run hides what the run was given.
VfsLookup(p) ==
    IF p \in DOMAIN overlay THEN overlay[p]
    ELSE IF p \in DOMAIN VfsFiles THEN VfsFiles[p]
    ELSE <<>>

\* CreateFileA/W: the handle works on a copy of the contents, empty for CREATE_NEW and
\* CREATE_ALWAYS, which leave the file itself as it is until it is written.
CreateFile(p, truncate) ==
    /\ NewHandle([kind |-> "file", path |-> p, pos |-> 0,
                  data |-> IF truncate THEN <<>> ELSE VfsLookup(p), wrote |-> FALSE,
                  opened |-> IF truncate THEN <<>> ELSE
                             IF p \in DOMAIN writer THEN handles[writer[p]].data
                             ELSE IF p \in DOMAIN VfsFiles THEN VfsFiles[p] ELSE <<>>])
    /\ UNCHANGED <<overlay, writer>>

\* ReadFile: up to n bytes from the handle's position, none past the end.
ReadFile(h, n) ==
    LET f == handles[h]
        k == IF f.pos >= Len(f.data) THEN 0 ELSE Min({n, Len(f.data) - f.pos})
    IN  /\ k > 0
        /\ handles' = [handles EXCEPT ![h].pos = @ + k]
        /\ UNCHANGED <<overlay, writer, got, lost>>

\* data with d written at pos
WrittenAt(data, pos, d) ==
    [k \in 1..Max({Len(data), pos + 1}) |-> IF k = pos + 1 THEN d ELSE data[k]]

\* Where a write goes: to the position, or to the end when the position is past it.
WritePos(f) == Min({f.pos, Len(f.data)})

\* Mutant of Stores: the overlay gets what the handle had before the write.
StoresStale(h, next, pos) ==
    LET f == handles[h] IN
    /\ handles' = [handles EXCEPT ![h].data = next, ![h].pos = pos, ![h].wrote = TRUE]
    /\ overlay' = Put(overlay, f.path, f.data)
    /\ writer' = Put(writer, f.path, h)
    /\ UNCHANGED <<got, lost>>

\* The handle's whole contents become the file.
Stores(h, next, pos) ==
    LET f == handles[h] IN
    /\ handles' = [handles EXCEPT ![h].data = next, ![h].pos = pos, ![h].wrote = TRUE]
    /\ overlay' = Put(overlay, f.path, next)
    /\ writer' = Put(writer, f.path, h)
    /\ UNCHANGED <<got, lost>>

\* WriteFile of a byte that fits under the cap.  A byte of a buffer that cannot be read is
\* what the file has there, and 0 past its end, hence one of Data too.
WriteFile(h, d) ==
    LET f == handles[h] IN
    /\ WritePos(f) < MaxContents
    /\ Stores(h, WrittenAt(f.data, WritePos(f), d), WritePos(f) + 1)

\* WriteFile of no byte, or of one that does not fit, which is answered as if it had been
\* written: the file becomes what this handle has.
WriteNothing(h) == Stores(h, handles[h].data, WritePos(handles[h]))

\* SetFilePointer: anywhere, past the end too.
SetFilePointer(h, pos) ==
    /\ pos # handles[h].pos
    /\ handles' = [handles EXCEPT ![h].pos = pos]
    /\ UNCHANGED <<overlay, writer, got, lost>>

\* vfsMatch: the files of the run and those of the overlay, a file that is in both twice.
VfsMatch(ps) ==
    {[from |-> "vfs", path |-> p, size |-> Len(VfsFiles[p])] : p \in ps \cap DOMAIN VfsFiles} \cup
    {[from |-> "overlay", path |-> p, size |-> Len(overlay[p])] : p \in ps \cap DOMAIN overlay}

\* FindFirstFileA/W: an enumeration of what matches now.
FindFirstFile(ps) ==
    /\ VfsMatch(ps) # {}
    /\ NewHandle([kind |-> "find", matches |-> VfsMatch(ps), index |-> 0])
    /\ UNCHANGED <<overlay, writer>>

\* FindNextFileA/W: the index goes on past the last match.
FindNextFile(h) ==
    /\ handles[h].index < Cardinality(handles[h].matches)
    /\ handles' = [handles EXCEPT ![h].index = @ + 1]
    /\ UNCHANGED <<overlay, writer, got, lost>>

-----------------------------------------------------------------------------
(* Sockets.                                                                *)

Socket ==
    /\ NewHandle([kind |-> "socket", recv |-> <<>>, connected |-> FALSE])
    /\ UNCHANGED <<overlay, writer>>

\* connect: a copy of the host's script, from its beginning, also on a second connect.
Connect(h) ==
    /\ handles' = [handles EXCEPT ![h].recv = Script, ![h].connected = TRUE]
    /\ got' = [got EXCEPT ![h] = <<>>]
    /\ lost' = [lost EXCEPT ![h] = 0]
    /\ UNCHANGED <<overlay, writer>>

\* recv.shift, and unshift of what did not fit: up to n bytes of the first chunk.
Taken(recv, n) ==
    LET chunk == Head(recv)
        k == Min({n, Len(chunk)})
    IN  [bytes |-> SubSeq(chunk, 1, k),
         rest |-> IF k < Len(chunk) THEN <<SubSeq(chunk, k + 1, Len(chunk))>> \o Tail(recv)
                  ELSE Tail(recv)]

Recv(h, n) ==
    LET t == Taken(handles[h].recv, n) IN
    /\ handles[h].recv # <<>>
    /\ handles' = [handles EXCEPT ![h].recv = t.rest]
    /\ got' = [got EXCEPT ![h] = @ \o t.bytes]
    /\ UNCHANGED <<overlay, writer, lost>>

\* recv into NULL: the bytes are taken and copied nowhere.
RecvNull(h, n) ==
    LET t == Taken(handles[h].recv, n) IN
    /\ handles[h].recv # <<>>
    /\ handles' = [handles EXCEPT ![h].recv = t.rest]
    /\ lost' = [lost EXCEPT ![h] = @ + Len(t.bytes)]
    /\ UNCHANGED <<overlay, writer, got>>

\* recv into a buffer that cannot be written: the chunk is off the script when the write
\* throws, dispatch answers 0, and the whole chunk is gone.
RecvFails(h) ==
    LET recv == handles[h].recv IN
    /\ recv # <<>> /\ Head(recv) # <<>>
    /\ handles' = [handles EXCEPT ![h].recv = Tail(recv)]
    /\ lost' = [lost EXCEPT ![h] = @ + Len(Head(recv))]
    /\ UNCHANGED <<overlay, writer, got>>

\* WSARecv with two buffers of n bytes each: a chunk for each, while there are any.  A chunk
\* is taken off the script before its buffer is looked at: if the buffer is bad the chunk
\* is gone, and the loop ends.
WSARecv(h, n, bad) ==
    LET recv == handles[h].recv
        one == Taken(recv, n)
        two == Taken(one.rest, n)
    IN  /\ recv # <<>>
        /\ \/ /\ bad = 1
              /\ handles' = [handles EXCEPT ![h].recv = Tail(recv)]
              /\ lost' = [lost EXCEPT ![h] = @ + Len(Head(recv))]
              /\ UNCHANGED got
           \/ /\ bad = 2 /\ one.rest # <<>>
              /\ handles' = [handles EXCEPT ![h].recv = Tail(one.rest)]
              /\ lost' = [lost EXCEPT ![h] = @ + Len(Head(one.rest))]
              /\ got' = [got EXCEPT ![h] = @ \o one.bytes]
           \/ /\ bad = 0 /\ one.rest # <<>>
              /\ handles' = [handles EXCEPT ![h].recv = two.rest]
              /\ got' = [got EXCEPT ![h] = @ \o one.bytes \o two.bytes]
              /\ UNCHANGED lost
        /\ UNCHANGED <<overlay, writer>>

-----------------------------------------------------------------------------
(* The other calls.                                                        *)

\* RegOpenKey, RegCreateKey, and like them OpenProcess, CreateMutex, CreateRemoteThread:
\* a handle from the same count.
OpenOther ==
    /\ NewHandle([kind |-> "other"])
    /\ UNCHANGED <<overlay, writer>>

\* Registry values, processes and commands: listed among the artifacts, and successful.
Records == UNCHANGED objectVars

\* Runtime, console and window calls that answer a constant.
Answers == UNCHANGED objectVars

FileCalls ==
    \/ \E p \in Paths, truncate \in BOOLEAN : CreateFile(p, truncate)
    \/ \E h \in OfKind("file") :
          \/ \E n \in 1..2 : ReadFile(h, n)
          \/ WriteNothing(h) \/ \E d \in Data : WriteFile(h, d)
          \/ \E pos \in 0..2 : SetFilePointer(h, pos)
    \/ \E ps \in SUBSET Paths : FindFirstFile(ps)
    \/ \E h \in OfKind("find") : FindNextFile(h)

SocketCalls ==
    \/ Socket
    \/ \E h \in OfKind("socket") :
          \/ Connect(h) \/ RecvFails(h)
          \/ \E n \in 1..2 : \/ Recv(h, n) \/ RecvNull(h, n)
                            \/ \E bad \in 0..2 : WSARecv(h, n, bad)

OtherCalls == OpenOther \/ Records \/ Answers

-----------------------------------------------------------------------------
(* Properties.                                                             *)

ObjectsTypeOK ==
    /\ \A p \in DOMAIN overlay : p \in Paths /\ overlay[p] \in Seq(Data)
    /\ DOMAIN writer = DOMAIN overlay
    /\ \A h \in OfKind("file") : handles[h].path \in Paths /\ handles[h].data \in Seq(Data)
    /\ \A h \in OfKind("find") : handles[h].index <= Cardinality(handles[h].matches)
    /\ Len(got) = Len(handles) /\ Len(lost) = Len(handles)

\* win32.mjs, "Files written during the run land in an overlay that later
\* opens/reads/enumerations observe, so dropper->loader behavior is visible": a file holds
\* what the handle it was last written through holds, whatever else is open on it, and a
\* handle that was never written through still holds what the file held when it was opened.
WritesAreSeen ==
    /\ \A p \in DOMAIN overlay : overlay[p] = handles[writer[p]].data
    /\ \A h \in OfKind("file") :
          ~handles[h].wrote => handles[h].data = handles[h].opened

\* Every connection is answered with its host's script from the beginning, no byte twice
\* and none left out, however the sample cuts its reads and whatever other sockets receive.
\* The exceptions are counted: the bytes of a recv into NULL, and the chunk that is lost when
\* a recv or a WSARecv fails at its buffer.  No other byte is gone.
ScriptIsDelivered ==
    \A h \in OfKind("socket") : handles[h].connected =>
        /\ Len(got[h]) + Len(FlattenSeq(handles[h].recv)) + lost[h] = Len(FlattenSeq(Script))
        /\ lost[h] = 0 => got[h] \o FlattenSeq(handles[h].recv) = FlattenSeq(Script)
=============================================================================
