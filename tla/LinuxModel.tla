----------------------------- MODULE LinuxModel -----------------------------
(***************************************************************************)
(* The Linux syscall model of elf-runner/src/linux.mjs: one process, whose *)
(* guest makes the calls one at a time.  A file's contents are a sequence  *)
(* of bytes of Data, and what the guest keeps in the memory it reads and   *)
(* writes with is one buffer.  Calls that only answer a constant or fill   *)
(* a structure are one action, Answers; paths, addresses and return values *)
(* other than descriptors are left out.                                    *)
(***************************************************************************)
EXTENDS Naturals, SequencesExt, FiniteSetsExt

CONSTANTS Data,         \* the bytes a guest buffer may hold
          MaxCalls,     \* bound: calls the guest makes in one run
          MaxEvents,    \* the code's MAX_EVENTS, 4096
          MaxListed,    \* the code's MAX, 256
          MaxFile,      \* what is kept of a file, 1 << 20 bytes
          Codes,        \* exit codes
          None

ASSUME LinuxAssumption ==
    /\ None \notin Codes \cup Data /\ None \notin Nat
    /\ MaxEvents \in Nat \ {0} /\ MaxListed \in Nat /\ MaxFile \in Nat

VARIABLES fds,       \* descriptor -> [kind, data]
          nextFd,
          lists,     \* the lengths of model.artifacts' lists
          events,    \* the calls recorded: [call, site, data]
          calls,     \* how many calls the guest has made
          exited, exitCode, halted,
          buf,       \* what the guest's buffer holds
          wrote,     \* descriptor -> what it was opened over and all the guest was told it
                     \* wrote to it, None for a byte of a buffer that cannot be read
          got,       \* descriptor -> all that came into the guest's buffer from it
          missed     \* descriptor -> how many bytes were answered as written or read and
                     \* are neither in the file nor with the guest

linuxVars == <<fds, nextFd, lists, events, calls, exited, exitCode, halted, buf, wrote, got, missed>>
tables == <<fds, nextFd, wrote, got, missed>>
ending == <<exited, exitCode, halted>>

\* The list of files, of what was printed, and one of the others (network, processes,
\* commands, ptrace, mmaps).
Lists == {"files", "stdout", "other"}
Standard == [fd \in 0..2 |-> [kind |-> IF fd = 0 THEN "stdin" ELSE "stdout", data |-> <<>>]]

LinuxInit ==
    /\ fds = Standard
    /\ nextFd = 3
    /\ lists = [l \in Lists |-> 0]
    /\ events = <<>>
    /\ calls = 0
    /\ exited = FALSE /\ exitCode = None /\ halted = FALSE
    /\ buf \in Data
    /\ wrote = [fd \in {} |-> <<>>]
    /\ got = [fd \in {} |-> <<>>]
    /\ missed = [fd \in {} |-> 0]

\* A process begun anew.
LinuxRestart ==
    /\ fds' = Standard /\ nextFd' = 3
    /\ lists' = [l \in Lists |-> 0]
    /\ events' = <<>> /\ calls' = 0
    /\ exited' = FALSE /\ exitCode' = None /\ halted' = FALSE
    /\ buf' \in Data
    /\ wrote' = [fd \in {} |-> <<>>] /\ got' = [fd \in {} |-> <<>>]
    /\ missed' = [fd \in {} |-> 0]

Known(fd) == fd \in DOMAIN fds
IsFile(fd) == Known(fd) /\ fds[fd].kind = "file"

-----------------------------------------------------------------------------
(* Recording.                                                              *)

\* Mutant of Listed: without the cap.
ListedUncapped(ls) == [l \in Lists |-> IF l \in ls THEN lists[l] + 1 ELSE lists[l]]

Listed(ls) == [l \in Lists |-> IF l \in ls /\ lists[l] < MaxListed THEN lists[l] + 1 ELSE lists[l]]

\* Mutant of Annotated: the last event gets the site whether it has one or not.
AnnotatedAlways(es, call) == [es EXCEPT ![Len(es)].site = call]

\* onSyscall annotates the last event with the call site if it has none: when the list is
\* full that event is an older call's.
Annotated(es, call) ==
    IF Last(es).site # None THEN es ELSE [es EXCEPT ![Len(es)].site = call]

\* record: no more events than MaxEvents.
Recorded(es, call, data) ==
    IF Len(es) < MaxEvents THEN Append(es, [call |-> call, site |-> None, data |-> data]) ELSE es

\* dispatch: the handler has run, the call is recorded, and onSyscall annotates it.
Dispatch(data) ==
    /\ calls' = calls + 1
    /\ events' = Annotated(Recorded(events, calls + 1, data), calls + 1)

-----------------------------------------------------------------------------
(* The handlers that change state.                                         *)

\* allocFd: descriptors are counted up and never given out twice.
AllocFd(obj) ==
    /\ fds' = [fd \in DOMAIN fds \cup {nextFd} |-> IF fd = nextFd THEN obj ELSE fds[fd]]
    /\ wrote' = [fd \in DOMAIN wrote \cup {nextFd} |-> IF fd = nextFd THEN obj.data ELSE wrote[fd]]
    /\ got' = [fd \in DOMAIN got \cup {nextFd} |-> IF fd = nextFd THEN <<>> ELSE got[fd]]
    /\ missed' = [fd \in DOMAIN missed \cup {nextFd} |-> IF fd = nextFd THEN 0 ELSE missed[fd]]
    /\ nextFd' = nextFd + 1

\* open, openat, creat: openFile, a file that is empty whatever was written to its path.
Open ==
    /\ AllocFd([kind |-> "file", data |-> <<>>])
    /\ lists' = Listed({"files"})
    /\ Dispatch(None)
    /\ UNCHANGED <<ending, buf>>

\* socket, accept, accept4, epoll_create1
Socket ==
    /\ AllocFd([kind |-> "socket", data |-> <<>>])
    /\ Dispatch(None)
    /\ UNCHANGED <<lists, ending, buf>>

\* dup: a copy of the open file as it is now; of no file at all if fd is closed.
Dup(fd) ==
    /\ AllocFd(IF Known(fd) THEN fds[fd] ELSE [kind |-> "none", data |-> <<>>])
    /\ Dispatch(None)
    /\ UNCHANGED <<lists, ending, buf>>

\* close: any descriptor, the standard ones too, and always successful.
Close(fd) ==
    /\ fds' = [f \in DOMAIN fds \ {fd} |-> fds[f]]
    /\ Dispatch(None)
    /\ UNCHANGED <<nextFd, wrote, got, missed, lists, ending, buf>>

\* write: to a terminal or a file; to anything else the bytes are gone.  A file keeps what
\* fits under its cap, and of a buffer that cannot be read there is nothing to keep; the
\* caller is told that all of it was written.
Write(fd, readable) ==
    LET byte == IF readable THEN buf ELSE None
        kept == readable /\ Len(fds[fd].data) < MaxFile
    IN  /\ IF IsFile(fd)
           THEN /\ fds' = IF kept THEN [fds EXCEPT ![fd].data = Append(@, byte)] ELSE fds
                /\ wrote' = [wrote EXCEPT ![fd] = Append(@, byte)]
                /\ missed' = IF kept THEN missed ELSE [missed EXCEPT ![fd] = @ + 1]
           ELSE UNCHANGED <<fds, wrote, missed>>
        /\ lists' = Listed(IF IsFile(fd) THEN {"files"}
                           ELSE IF Known(fd) /\ fds[fd].kind = "stdout" THEN {"stdout"} ELSE {})
        /\ Dispatch(byte)
        /\ UNCHANGED <<nextFd, got, ending, buf>>

\* How many bytes a read of n takes: at the end of the file, and elsewhere, none.
Available(fd, n) == IF IsFile(fd) THEN Min({n, Len(fds[fd].data)}) ELSE 0

\* Mutant of Read: what was read stays in the file.
ReadKeeps(fd, n) ==
    LET k == Available(fd, n) IN
    /\ got' = IF k > 0 THEN [got EXCEPT ![fd] = @ \o SubSeq(fds[fd].data, 1, k)] ELSE got
    /\ buf' = IF k > 0 THEN fds[fd].data[1] ELSE buf
    /\ Dispatch(buf')
    /\ UNCHANGED <<fds, nextFd, wrote, missed, lists, ending>>

\* read: takes bytes from the front of the file into the buffer.
Read(fd, n) ==
    LET k == Available(fd, n) IN
    /\ fds' = IF k > 0 THEN [fds EXCEPT ![fd].data = SubSeq(@, k + 1, Len(@))] ELSE fds
    /\ got' = IF k > 0 THEN [got EXCEPT ![fd] = @ \o SubSeq(fds[fd].data, 1, k)] ELSE got
    /\ buf' = IF k > 0 THEN fds[fd].data[1] ELSE buf
    /\ Dispatch(buf')
    /\ UNCHANGED <<nextFd, wrote, missed, lists, ending>>

\* read into NULL: the bytes are taken from the file and put nowhere.
ReadNull(fd, n) ==
    LET k == Available(fd, n) IN
    /\ fds' = IF k > 0 THEN [fds EXCEPT ![fd].data = SubSeq(@, k + 1, Len(@))] ELSE fds
    /\ missed' = IF k > 0 THEN [missed EXCEPT ![fd] = @ + k] ELSE missed
    /\ Dispatch(None)
    /\ UNCHANGED <<nextFd, wrote, got, lists, ending, buf>>

Recording(l) ==
    /\ lists' = Listed({l})
    /\ Dispatch(None)
    /\ UNCHANGED <<tables, ending, buf>>

\* access, unlink, rename, mkdir: recorded and successful, whatever files there are.
FileIntent == Recording("files")

\* connect, bind, sendto; execve and execveat, after which the guest goes on; ptrace; mmap.
OtherIntent == Recording("other")

\* The calls that change nothing of the process: the constant answers (lseek, dup2, fork,
\* pipe, ...), the filled-in structures, a handler that throws, and an unknown call.  A read
\* throws at a buffer that cannot be written before it cuts the file.
Answers ==
    /\ Dispatch(None)
    /\ UNCHANGED <<tables, lists, ending, buf>>

\* exitProcess, of exit and exit_group.
SysExit(code) ==
    /\ exited' = TRUE /\ exitCode' = code /\ halted' = TRUE
    /\ Dispatch(None)
    /\ UNCHANGED <<tables, lists, buf>>

\* The guest changes what is in its buffer.
Fills(d) ==
    /\ d # buf
    /\ buf' = d
    /\ UNCHANGED <<tables, lists, events, calls, ending>>

Syscall ==
    \/ Open \/ Socket \/ FileIntent \/ OtherIntent \/ Answers
    \/ \E fd \in 0..nextFd :
          \/ Dup(fd) \/ Close(fd)
          \/ \E readable \in BOOLEAN : Write(fd, readable)
          \/ \E n \in 1..2 : Read(fd, n) \/ ReadNull(fd, n)
    \/ \E c \in Codes : SysExit(c)

-----------------------------------------------------------------------------
(* Properties.                                                             *)

LinuxTypeOK ==
    /\ \A fd \in DOMAIN fds : /\ fds[fd].kind \in {"stdin", "stdout", "file", "socket", "none"}
                              /\ fds[fd].data \in Seq(Data)
                              /\ fd < nextFd
    /\ \A l \in Lists \ {"stdout"} : lists[l] \in 0..MaxListed
    /\ \A k \in DOMAIN events : events[k].data \in Data \cup {None}
    /\ exited \in BOOLEAN /\ halted \in BOOLEAN /\ exitCode \in Codes \cup {None} /\ buf \in Data

\* Through every descriptor the guest reads exactly the bytes that were written to it (or
\* that the descriptor it was copied from still held), in order and once each, and what
\* was written and not read is still there: whatever is opened, copied and closed beside it.
\* The exceptions are counted: a byte past the cap of a file, one of a buffer that could not
\* be read, and one that was read into NULL.  No other byte is gone, and none is there twice.
StreamsAreFifo ==
    \A fd \in DOMAIN fds : IsFile(fd) =>
        /\ Len(fds[fd].data) <= MaxFile
        /\ Len(got[fd]) + Len(fds[fd].data) + missed[fd] = Len(wrote[fd])
        /\ missed[fd] = 0 => got[fd] \o fds[fd].data = wrote[fd]
=============================================================================
