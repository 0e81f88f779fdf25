--------------------------- MODULE LinuxRunsProofs ---------------------------
(***************************************************************************)
(* What the Linux harnesses promise, proved for every set of bytes, codes, *)
(* failures and trap reasons and every cap: the type invariant, that every *)
(* byte written is read, kept or counted, that the trace names the call    *)
(* sites, and that the delivered report says how the run ended.  The       *)
(* invariant has three parts that are inductive one after the other: the   *)
(* descriptors, how the run ended, and the trace with the execves in it.   *)
(* The second half is the analysis of a kernel module: its report is true  *)
(* and its drive is complete, for every harvest, cap and pattern count.    *)
(***************************************************************************)
EXTENDS ShellcodeRun, ModuleRun, SequenceTheorems, FiniteSetTheorems, WellFoundedInduction, TLAPS

Kinds == {"stdin", "stdout", "file", "socket", "none"}
Events == [call : Nat, site : Nat \cup {None}, data : Data \cup {None}]
Results == Failures \cup {"ok", "halted"}
RefusedRuns == [status : Refusals, code : Codes \cup {None}, refused : {TRUE},
            hidden : BOOLEAN, backend : {"js"}]

\* The errors the harness tests the first report for, and the second.
RetryOn == IF IsShell THEN ShellRetryErrors ELSE RetryErrors
DiscardOn == IF IsShell THEN ShellDiscardErrors ELSE DiscardErrors
Bytes == Data \cup {None}

\* The descriptors: those given out count up from 3, a file is one of them, and each has its
\* history.
Files ==
    /\ nextFd \in Nat /\ nextFd >= 3
    /\ fds \in [DOMAIN fds -> [kind : Kinds, data : Seq(Data)]]
    /\ DOMAIN fds \subseteq 0..(nextFd - 1)
    /\ wrote \in [3..(nextFd - 1) -> Seq(Bytes)]
    /\ got \in [3..(nextFd - 1) -> Seq(Data)]
    /\ missed \in [3..(nextFd - 1) -> Nat]
    /\ \A fd \in DOMAIN fds : fds[fd].kind = "file" => fd >= 3
    /\ buf \in Data
    /\ lists \in [Lists -> Nat] /\ \A l \in Lists \ {"stdout"} : lists[l] <= MaxListed

\* The books of one file: g was read from it, d is in it, m bytes are nowhere, w was written.
Balanced(g, d, m, w) ==
    /\ Len(d) <= MaxFile
    /\ Len(g) + Len(d) + m = Len(w)
    /\ m = 0 => g \o d = w

FilesInv == Files /\ StreamsAreFifo

\* Where the run stands: only an ELF run has a main; once the entry code is back the result
\* says whether the process was halted; a hybrid attempt has the refusal that asked for it;
\* what is delivered is the report, or that refusal if the hybrid's error is discarded.
Standing ==
    /\ harness \in Harnesses /\ backend \in {"js", "hybrid"}
    /\ at \in {"entry", "main", "report", "over"}
    /\ exited \in BOOLEAN /\ halted \in BOOLEAN /\ refused \in BOOLEAN
    /\ exitCode \in Codes \cup {None}
    /\ stopReason \in Reasons \cup {None, "execve", "fastfail"}
    /\ changed \subseteq 1..Size
    /\ result \in Results \cup {None}

Outcome ==
    /\ at = "main" => harness = "elf"
    /\ at \in {"report", "over"} => result \in Results /\ ((result = "halted") = halted)
    /\ backend = "js" => first = None
    /\ backend = "hybrid" => first \in RefusedRuns /\ first.status \in RetryOn
    /\ at # "over" => delivered = None
    /\ at = "over" => delivered = IF backend = "js" \/ result \notin DiscardOn
                                  THEN IF IsShell THEN ShellReport ELSE Report
                                  ELSE first

OutcomeInv == Standing /\ Outcome

\* The trace: every event is of a call made, and main's caller has no event before main is
\* back.  Only Linux shellcode replaces its image, and after an execve with an event nothing
\* runs.
Trail ==
    /\ calls \in Nat
    /\ events \in Seq(Events)
    /\ \A k \in DOMAIN events : events[k].call \in 1..calls
    /\ at = "main" => /\ mainCall \in 1..calls
                      /\ \A k \in DOMAIN events : events[k].call # mainCall
    /\ execs \subseteq 1..calls
    /\ harness # "linux" => execs = {}

Replaced == \A x \in execs : (\E k \in DOMAIN events : events[k].call = x) => x = calls /\ halted

TraceInv == Trail /\ EventSites /\ Replaced

-----------------------------------------------------------------------------
(* The descriptors.                                                        *)

LEMMA MinOfTwo == ASSUME NEW m \in Nat, NEW n \in Nat PROVE Min({m, n}) = IF m <= n THEN m ELSE n
  BY DEF Min

\* A list grows by one and stops at its cap.
LEMMA ListedGrows ==
    ASSUME NEW ls, Files
    PROVE  /\ Listed(ls) \in [Lists -> Nat]
           /\ \A l \in Lists \ {"stdout"} : Listed(ls)[l] <= MaxListed
  BY LinuxAssumption DEF Files, Listed

LEMMA FilesInitially == LinuxInit => FilesInv
<1> SUFFICES ASSUME LinuxInit PROVE FilesInv
  OBVIOUS
<1>1. 3..(3 - 1) = {}
  OBVIOUS
<1>2. <<>> \in Seq(Data)
  OBVIOUS
<1>3. Files
  BY <1>1, <1>2, LinuxAssumption DEF LinuxInit, Files, Standard, Kinds, Lists
<1> QED
  BY <1>3 DEF LinuxInit, FilesInv, StreamsAreFifo, IsFile, Known, Standard

LEMMA FilesRestart == ASSUME LinuxRestart PROVE FilesInv'
<1>1. 3..(3 - 1) = {}
  OBVIOUS
<1>2. <<>> \in Seq(Data)
  OBVIOUS
<1>3. Files'
  BY <1>1, <1>2, LinuxAssumption DEF LinuxRestart, Files, Standard, Kinds, Lists
<1> QED
  BY <1>3 DEF LinuxRestart, FilesInv, StreamsAreFifo, IsFile, Known, Standard

\* StreamsAreFifo, file by file.
LEMMA StreamsNow ==
    /\ StreamsAreFifo => \A fd \in DOMAIN fds : fds[fd].kind = "file" =>
                            Balanced(got[fd], fds[fd].data, missed[fd], wrote[fd])
    /\ (\A fd \in DOMAIN fds : fds[fd].kind = "file" =>
            Balanced(got[fd], fds[fd].data, missed[fd], wrote[fd])) => StreamsAreFifo
  BY DEF StreamsAreFifo, IsFile, Known, Balanced

LEMMA StreamsThen ==
    (\A fd \in DOMAIN fds' : fds'[fd].kind = "file" =>
        Balanced(got'[fd], fds'[fd].data, missed'[fd], wrote'[fd])) => StreamsAreFifo'
  BY DEF StreamsAreFifo, IsFile, Known, Balanced

\* Nothing but the lists changes.
LEMMA FilesKept ==
    ASSUME FilesInv, UNCHANGED <<tables, buf>>,
           \/ UNCHANGED lists
           \/ \E ls : lists' = Listed(ls)
           \/ lists' = [lists EXCEPT !["stdout"] = @ + 1]
    PROVE  FilesInv'
<1>1. lists' \in [Lists -> Nat] /\ \A l \in Lists \ {"stdout"} : lists'[l] <= MaxListed
  <2>1. lists \in [Lists -> Nat] /\ \A l \in Lists \ {"stdout"} : lists[l] <= MaxListed
    BY DEF FilesInv, Files
  <2>2. CASE lists' = [lists EXCEPT !["stdout"] = @ + 1]
    BY <2>1, <2>2 DEF Lists
  <2>3. ASSUME NEW ls, lists' = Listed(ls)
        PROVE  lists' \in [Lists -> Nat] /\ \A l \in Lists \ {"stdout"} : lists'[l] <= MaxListed
    BY <2>3, ListedGrows DEF FilesInv
  <2> QED
    BY <2>1, <2>2, <2>3
<1> QED
  BY <1>1 DEF FilesInv, Files, StreamsAreFifo, IsFile, Known, tables

\* A descriptor given out holds what it was opened over, and nothing was read from it.
LEMMA Allocates ==
    ASSUME FilesInv, NEW obj \in [kind : Kinds, data : Seq(Data)], AllocFd(obj), UNCHANGED buf,
           obj.kind = "file" => Len(obj.data) <= MaxFile,
           \/ UNCHANGED lists
           \/ \E ls : lists' = Listed(ls)
    PROVE  FilesInv'
<1>1. lists' \in [Lists -> Nat] /\ \A l \in Lists \ {"stdout"} : lists'[l] <= MaxListed
  BY ListedGrows DEF FilesInv, Files
<1>2. /\ nextFd' = nextFd + 1 /\ nextFd \in Nat /\ nextFd >= 3
      /\ nextFd \notin DOMAIN fds
      /\ 3..(nextFd' - 1) = (3..(nextFd - 1)) \cup {nextFd}
      /\ nextFd \notin 3..(nextFd - 1)
  BY DEF FilesInv, Files, AllocFd
<1>3. /\ DOMAIN fds' = DOMAIN fds \cup {nextFd}
      /\ fds'[nextFd] = obj /\ \A fd \in DOMAIN fds : fds'[fd] = fds[fd]
      /\ fds' \in [DOMAIN fds' -> [kind : Kinds, data : Seq(Data)]]
  BY <1>2 DEF FilesInv, Files, AllocFd
<1>4. <<>> \in Seq(Data) /\ obj.data \in Seq(Data)
  OBVIOUS
<1>5. obj.data \in Seq(Bytes)
  BY <1>4 DEF Bytes
<1>6. /\ wrote' \in [3..(nextFd' - 1) -> Seq(Bytes)] /\ got' \in [3..(nextFd' - 1) -> Seq(Data)]
      /\ missed' \in [3..(nextFd' - 1) -> Nat]
  <2>1. wrote' \in [3..(nextFd' - 1) -> Seq(Bytes)]
    BY <1>2, <1>5 DEF FilesInv, Files, AllocFd
  <2>2. got' \in [3..(nextFd' - 1) -> Seq(Data)]
    BY <1>2, <1>4 DEF FilesInv, Files, AllocFd
  <2>3. missed' \in [3..(nextFd' - 1) -> Nat]
    BY <1>2 DEF FilesInv, Files, AllocFd
  <2> QED
    BY <2>1, <2>2, <2>3
<1>7. /\ wrote'[nextFd] = obj.data /\ got'[nextFd] = <<>> /\ missed'[nextFd] = 0
      /\ \A fd \in 3..(nextFd - 1) :
            wrote'[fd] = wrote[fd] /\ got'[fd] = got[fd] /\ missed'[fd] = missed[fd]
  BY <1>2 DEF FilesInv, Files, AllocFd
<1>8. \A fd \in DOMAIN fds' : fds'[fd].kind = "file" => fd >= 3
  BY <1>2, <1>3 DEF FilesInv, Files
<1>9. Files'
  BY <1>1, <1>2, <1>3, <1>6, <1>8 DEF FilesInv, Files
<1>10. ASSUME obj.kind = "file" PROVE Balanced(<<>>, obj.data, 0, obj.data)
  <2>1. <<>> \o obj.data = obj.data
    BY ConcatEmptySeq
  <2>2. Len(<<>>) + Len(obj.data) + 0 = Len(obj.data)
    BY <1>4
  <2> QED
    BY <1>10, <2>1, <2>2 DEF Balanced
<1>11. ASSUME NEW fd \in DOMAIN fds', fds'[fd].kind = "file"
       PROVE  Balanced(got'[fd], fds'[fd].data, missed'[fd], wrote'[fd])
  <2>1. CASE fd = nextFd
    BY <2>1, <1>3, <1>7, <1>10, <1>11
  <2>2. CASE fd # nextFd
    <3>1. fd \in DOMAIN fds /\ fds'[fd] = fds[fd]
      BY <2>2, <1>3
    <3>2. fd \in 3..(nextFd - 1)
      BY <3>1, <1>11 DEF FilesInv, Files
    <3>3. Balanced(got[fd], fds[fd].data, missed[fd], wrote[fd])
      BY <3>1, <1>11, StreamsNow DEF FilesInv
    <3> QED
      BY <3>1, <3>2, <3>3, <1>7
  <2> QED
    BY <2>1, <2>2
<1> QED
  BY <1>9, <1>11, StreamsThen DEF FilesInv

\* Bytes move between the buffer and one file, or are missed: the file's books balance again.
LEMMA Transfers ==
    ASSUME FilesInv, NEW fd \in DOMAIN fds, fds[fd].kind = "file",
           NEW w \in Seq(Bytes), NEW g \in Seq(Data), NEW d \in Seq(Data), NEW m \in Nat,
           Balanced(g, d, m, w),
           fds' = [fds EXCEPT ![fd].data = d],
           wrote' = [wrote EXCEPT ![fd] = w], got' = [got EXCEPT ![fd] = g],
           missed' = [missed EXCEPT ![fd] = m],
           nextFd' = nextFd, buf' \in Data,
           \/ UNCHANGED lists
           \/ \E ls : lists' = Listed(ls)
    PROVE  FilesInv'
<1>1. lists' \in [Lists -> Nat] /\ \A l \in Lists \ {"stdout"} : lists'[l] <= MaxListed
  BY ListedGrows DEF FilesInv, Files
<1>2. fd \in 3..(nextFd - 1)
  BY DEF FilesInv, Files
<1>3. /\ DOMAIN fds' = DOMAIN fds
      /\ fds' \in [DOMAIN fds -> [kind : Kinds, data : Seq(Data)]]
      /\ \A f \in DOMAIN fds : fds'[f].kind = fds[f].kind
      /\ \A f \in DOMAIN fds : fds'[f].data = IF f = fd THEN d ELSE fds[f].data
  BY DEF FilesInv, Files
<1>4. /\ wrote' \in [3..(nextFd - 1) -> Seq(Bytes)] /\ got' \in [3..(nextFd - 1) -> Seq(Data)]
      /\ missed' \in [3..(nextFd - 1) -> Nat]
      /\ \A f \in 3..(nextFd - 1) : /\ wrote'[f] = IF f = fd THEN w ELSE wrote[f]
                                    /\ got'[f] = IF f = fd THEN g ELSE got[f]
                                    /\ missed'[f] = IF f = fd THEN m ELSE missed[f]
  BY <1>2 DEF FilesInv, Files
<1>5. Files'
  BY <1>1, <1>3, <1>4 DEF FilesInv, Files
<1>6. ASSUME NEW f \in DOMAIN fds', fds'[f].kind = "file"
      PROVE  Balanced(got'[f], fds'[f].data, missed'[f], wrote'[f])
  <2>1. f \in DOMAIN fds /\ fds[f].kind = "file" /\ f \in 3..(nextFd - 1)
    BY <1>3, <1>6 DEF FilesInv, Files
  <2>2. CASE f = fd
    BY <2>1, <2>2, <1>3, <1>4, ZenonT(30)
  <2>3. CASE f # fd
    <3>1. Balanced(got[f], fds[f].data, missed[f], wrote[f])
      BY <2>1, StreamsNow DEF FilesInv
    <3> QED
      BY <3>1, <2>1, <2>3, <1>3, <1>4
  <2> QED
    BY <2>2, <2>3
<1> QED
  BY <1>5, <1>6, StreamsThen DEF FilesInv

\* A file's history: its books balance.
LEMMA FileHistory ==
    ASSUME FilesInv, NEW fd, IsFile(fd)
    PROVE  /\ fd \in DOMAIN fds /\ fds[fd].kind = "file"
           /\ fds[fd].data \in Seq(Data) /\ wrote[fd] \in Seq(Bytes) /\ got[fd] \in Seq(Data)
           /\ missed[fd] \in Nat
           /\ Balanced(got[fd], fds[fd].data, missed[fd], wrote[fd]) /\ buf \in Data
<1>1. fd \in DOMAIN fds /\ fds[fd].kind = "file"
  BY DEF IsFile, Known
<1>2. fd \in 3..(nextFd - 1)
  BY <1>1 DEF FilesInv, Files
<1>3. fds[fd] \in [kind : Kinds, data : Seq(Data)]
  BY <1>1 DEF FilesInv, Files
<1>4. wrote[fd] \in Seq(Bytes) /\ got[fd] \in Seq(Data) /\ missed[fd] \in Nat
  BY <1>2 DEF FilesInv, Files
<1>5. Balanced(got[fd], fds[fd].data, missed[fd], wrote[fd])
  BY <1>1, StreamsNow DEF FilesInv
<1> QED
  BY <1>1, <1>3, <1>4, <1>5 DEF FilesInv, Files

LEMMA ConcatAppends ==
    ASSUME NEW g \in Seq(Data), NEW d \in Seq(Data), NEW b \in Data
    PROVE  g \o Append(d, b) = Append(g \o d, b)
  OBVIOUS

LEMMA ConcatSplits ==
    ASSUME NEW g \in Seq(Data), NEW a \in Seq(Data), NEW b \in Seq(Data)
    PROVE  (g \o a) \o b = g \o (a \o b)
  BY ConcatAssociative

\* One more byte was written: it is in the file, if there was room, or missed.
LEMMA BooksWrite ==
    ASSUME NEW g \in Seq(Data), NEW d \in Seq(Data), NEW m \in Nat, NEW w \in Seq(Bytes),
           NEW b \in Bytes, Balanced(g, d, m, w)
    PROVE  /\ b \in Data /\ Len(d) < MaxFile => Balanced(g, Append(d, b), m, Append(w, b))
           /\ Balanced(g, d, m + 1, Append(w, b))
<1>1. /\ Len(g) \in Nat /\ Len(d) \in Nat /\ Len(w) \in Nat /\ MaxFile \in Nat
      /\ Len(Append(w, b)) = Len(w) + 1 /\ Len(Append(d, b)) = Len(d) + 1
  BY LinuxAssumption
<1>2. \A x, y, z, t, u \in Nat : x + y + z = t /\ y <= u =>
         /\ x + y + (z + 1) = t + 1 /\ x + (y + 1) + z = t + 1 /\ z + 1 # 0
         /\ y < u => y + 1 <= u
  OBVIOUS
<1>3. Len(g) + Len(d) + m = Len(w) /\ Len(d) <= MaxFile
  BY DEF Balanced
<1>4. /\ Len(g) + Len(d) + (m + 1) = Len(w) + 1 /\ Len(g) + (Len(d) + 1) + m = Len(w) + 1
      /\ m + 1 # 0
      /\ Len(d) < MaxFile => Len(d) + 1 <= MaxFile
  BY <1>1, <1>2, <1>3
<1>5. Balanced(g, d, m + 1, Append(w, b))
  BY <1>1, <1>3, <1>4 DEF Balanced
<1>6. ASSUME b \in Data, Len(d) < MaxFile PROVE Balanced(g, Append(d, b), m, Append(w, b))
  <2>1. m = 0 => g \o Append(d, b) = Append(w, b)
    <3> SUFFICES ASSUME m = 0 PROVE g \o Append(d, b) = Append(w, b)
      OBVIOUS
    <3>1. g \o d = w
      BY DEF Balanced
    <3>2. g \o Append(d, b) = Append(g \o d, b)
      BY <1>6, ConcatAppends
    <3> QED
      BY <3>1, <3>2
  <2>2. Len(Append(d, b)) <= MaxFile
    BY <1>1, <1>4, <1>6
  <2>3. Len(g) + Len(Append(d, b)) + m = Len(Append(w, b))
    BY <1>1, <1>4
  <2> QED
    BY <2>1, <2>2, <2>3 DEF Balanced
<1> QED
  BY <1>5, <1>6

\* The first k bytes leave the file: they are the guest's, or missed.
LEMMA BooksRead ==
    ASSUME NEW g \in Seq(Data), NEW d \in Seq(Data), NEW m \in Nat, NEW w \in Seq(Bytes),
           NEW k \in 1..Len(d), Balanced(g, d, m, w)
    PROVE  /\ SubSeq(d, 1, k) \in Seq(Data) /\ SubSeq(d, k + 1, Len(d)) \in Seq(Data)
           /\ Balanced(g \o SubSeq(d, 1, k), SubSeq(d, k + 1, Len(d)), m, w)
           /\ Balanced(g, SubSeq(d, k + 1, Len(d)), m + k, w)
<1> DEFINE a == SubSeq(d, 1, k)
           e == SubSeq(d, k + 1, Len(d))
<1>1. /\ Len(g) \in Nat /\ Len(d) \in Nat /\ Len(w) \in Nat /\ MaxFile \in Nat
      /\ k \in Nat /\ k >= 1 /\ k <= Len(d)
  BY LinuxAssumption
<1>2. a \in Seq(Data) /\ e \in Seq(Data) /\ a \o e = d
  BY <1>1
<1>3. Len(a) = k /\ Len(e) = Len(d) - k
  BY <1>1
<1>4. Len(g \o a) = Len(g) + Len(a)
  BY <1>2
<1>5. (g \o a) \o e = g \o (a \o e)
  BY <1>2, ConcatSplits
<1> HIDE DEF a, e
<1>6. Len(g) + Len(d) + m = Len(w) /\ Len(d) <= MaxFile /\ (m = 0 => g \o d = w)
  BY DEF Balanced
<1>7. \A x, y, z, t, u, v \in Nat : x + y + z = t /\ y <= u /\ v >= 1 /\ v <= y =>
         /\ (x + v) + (y - v) + z = t /\ x + (y - v) + (z + v) = t /\ z + v # 0 /\ y - v <= u
  OBVIOUS
<1>8. /\ (Len(g) + k) + (Len(d) - k) + m = Len(w) /\ Len(g) + (Len(d) - k) + (m + k) = Len(w)
      /\ m + k # 0 /\ Len(d) - k <= MaxFile
  BY <1>1, <1>6, <1>7
<1>9. Balanced(g, e, m + k, w)
  BY <1>3, <1>8 DEF Balanced
<1>10. Balanced(g \o a, e, m, w)
  <2>1. m = 0 => (g \o a) \o e = w
    BY <1>2, <1>5, <1>6
  <2>2. Len(g \o a) + Len(e) + m = Len(w) /\ Len(e) <= MaxFile
    BY <1>3, <1>4, <1>8
  <2> QED
    BY <2>1, <2>2 DEF Balanced
<1> QED
  BY <1>2, <1>9, <1>10 DEF a, e

LEMMA Writes ==
    ASSUME FilesInv, NEW fd \in 0..nextFd, NEW readable \in BOOLEAN, Write(fd, readable)
    PROVE  FilesInv'
<1>1. CASE ~IsFile(fd)
  <2>1. UNCHANGED <<tables, buf>> /\ \E ls : lists' = Listed(ls)
    BY <1>1 DEF Write, tables
  <2> QED
    BY <2>1, FilesKept
<1>2. CASE IsFile(fd)
  <2>1. PICK b : b = IF readable THEN buf ELSE None
    OBVIOUS
  <2>2. PICK data : data = fds[fd].data
    OBVIOUS
  <2>3. /\ fd \in DOMAIN fds /\ fds[fd].kind = "file"
        /\ data \in Seq(Data) /\ wrote[fd] \in Seq(Bytes) /\ got[fd] \in Seq(Data)
        /\ missed[fd] \in Nat
        /\ Balanced(got[fd], data, missed[fd], wrote[fd]) /\ buf \in Data
    BY <1>2, <2>2, FileHistory
  <2>4. b \in Bytes /\ (readable => b \in Data)
    BY <2>1, <2>3 DEF Bytes
  <2>5. /\ nextFd' = nextFd /\ buf' = buf /\ got' = got /\ \E ls : lists' = Listed(ls)
        /\ wrote' = [wrote EXCEPT ![fd] = Append(wrote[fd], b)]
    BY <1>2, <2>1 DEF Write
  <2>6. got' = [got EXCEPT ![fd] = got[fd]] /\ fds = [fds EXCEPT ![fd].data = data]
    BY <2>5, <2>3, <2>2 DEF FilesInv, Files
  <2>7. missed = [missed EXCEPT ![fd] = missed[fd]]
    BY DEF FilesInv, Files
  <2>8. CASE readable /\ Len(data) < MaxFile
    <3>1. fds' = [fds EXCEPT ![fd].data = Append(data, b)] /\ missed' = missed
      BY <1>2, <2>1, <2>2, <2>8 DEF Write
    <3>2. Balanced(got[fd], Append(data, b), missed[fd], Append(wrote[fd], b))
      BY <2>3, <2>4, <2>8, BooksWrite
    <3>3. Append(data, b) \in Seq(Data) /\ Append(wrote[fd], b) \in Seq(Bytes)
      BY <2>3, <2>4, <2>8
    <3> QED
      BY <3>1, <3>2, <3>3, <2>3, <2>5, <2>6, <2>7, Transfers
  <2>9. CASE ~(readable /\ Len(data) < MaxFile)
    <3>1. fds' = fds /\ missed' = [missed EXCEPT ![fd] = missed[fd] + 1]
      BY <1>2, <2>1, <2>2, <2>9 DEF Write
    <3>2. Balanced(got[fd], data, missed[fd] + 1, Append(wrote[fd], b))
      BY <2>3, <2>4, BooksWrite
    <3>3. Append(wrote[fd], b) \in Seq(Bytes) /\ missed[fd] + 1 \in Nat
      BY <2>3, <2>4
    <3> QED
      BY <3>1, <3>2, <3>3, <2>3, <2>5, <2>6, Transfers
  <2> QED
    BY <2>8, <2>9
<1> QED
  BY <1>1, <1>2

\* What a read takes of a file: nothing, or its first bytes.
LEMMA ReadTakes ==
    ASSUME FilesInv, NEW fd, NEW n \in 1..2, Available(fd, n) > 0
    PROVE  IsFile(fd) /\ Available(fd, n) \in 1..Len(fds[fd].data)
<1>1. IsFile(fd)
  BY DEF Available
<1>2. Len(fds[fd].data) \in Nat /\ n \in Nat
  BY <1>1, FileHistory
<1> QED
  BY <1>1, <1>2, MinOfTwo DEF Available

LEMMA Reads ==
    ASSUME FilesInv, NEW fd \in 0..nextFd, NEW n \in 1..2, Read(fd, n) \/ ReadNull(fd, n)
    PROVE  FilesInv'
<1>1. PICK k : k = Available(fd, n)
  OBVIOUS
<1>2. CASE ~(k > 0)
  <2>1. UNCHANGED <<tables, buf>> /\ UNCHANGED lists
    BY <1>1, <1>2 DEF Read, ReadNull, tables
  <2> QED
    BY <2>1, FilesKept
<1>3. CASE k > 0
  <2>1. PICK data : data = fds[fd].data
    OBVIOUS
  <2>2. IsFile(fd) /\ k \in 1..Len(data)
    BY <1>1, <1>3, <2>1, ReadTakes
  <2>3. /\ fd \in DOMAIN fds /\ fds[fd].kind = "file"
        /\ data \in Seq(Data) /\ wrote[fd] \in Seq(Bytes) /\ got[fd] \in Seq(Data)
        /\ missed[fd] \in Nat
        /\ Balanced(got[fd], data, missed[fd], wrote[fd]) /\ buf \in Data
    BY <2>1, <2>2, FileHistory
  <2>4. PICK d : d = SubSeq(data, k + 1, Len(data))
    OBVIOUS
  <2>5. PICK g : g = got[fd] \o SubSeq(data, 1, k)
    OBVIOUS
  <2>6. d \in Seq(Data) /\ SubSeq(data, 1, k) \in Seq(Data)
    BY <2>2, <2>3, <2>4, BooksRead
  <2>7. g \in Seq(Data) /\ missed[fd] + k \in Nat
    BY <2>2, <2>3, <2>5, <2>6
  <2>8. Balanced(g, d, missed[fd], wrote[fd]) /\ Balanced(got[fd], d, missed[fd] + k, wrote[fd])
    BY <2>2, <2>3, <2>4, <2>5, BooksRead
  <2>9. /\ fds' = [fds EXCEPT ![fd].data = d] /\ wrote' = wrote /\ nextFd' = nextFd
        /\ UNCHANGED lists
    BY <1>1, <1>3, <2>1, <2>4 DEF Read, ReadNull
  <2>10. wrote' = [wrote EXCEPT ![fd] = wrote[fd]]
    BY <2>9, <2>3 DEF FilesInv, Files
  <2>11. CASE Read(fd, n)
    <3>1. got' = [got EXCEPT ![fd] = g] /\ missed' = missed /\ buf' = data[1]
      BY <1>1, <1>3, <2>1, <2>5, <2>11 DEF Read
    <3>2. missed' = [missed EXCEPT ![fd] = missed[fd]]
      BY <3>1 DEF FilesInv, Files
    <3>3. buf' \in Data
      BY <3>1, <2>2, <2>3
    <3> QED
      BY <2>3, <2>6, <2>7, <2>8, <2>9, <2>10, <3>1, <3>2, <3>3, Transfers
  <2>12. CASE ReadNull(fd, n)
    <3>1. got' = got /\ missed' = [missed EXCEPT ![fd] = missed[fd] + k] /\ buf' = buf
      BY <1>1, <1>3, <2>12 DEF ReadNull
    <3>2. got' = [got EXCEPT ![fd] = got[fd]]
      BY <3>1 DEF FilesInv, Files
    <3> QED
      BY <2>3, <2>6, <2>7, <2>8, <2>9, <2>10, <3>1, <3>2, Transfers
  <2> QED
    BY <2>11, <2>12
<1> QED
  BY <1>2, <1>3

LEMMA FilesSyscall == ASSUME FilesInv, Syscall PROVE FilesInv'
<1>1. <<>> \in Seq(Data)
  OBVIOUS
<1>2. CASE Open
  <2>1. [kind |-> "file", data |-> <<>>] \in [kind : Kinds, data : Seq(Data)]
    BY <1>1 DEF Kinds
  <2>2. AllocFd([kind |-> "file", data |-> <<>>]) /\ UNCHANGED buf /\ \E ls : lists' = Listed(ls)
    BY <1>2 DEF Open
  <2>3. Len(<<>>) <= MaxFile
    BY LinuxAssumption
  <2> QED
    BY <2>1, <2>2, <2>3, Allocates
<1>3. CASE Socket
  <2>1. [kind |-> "socket", data |-> <<>>] \in [kind : Kinds, data : Seq(Data)]
    BY <1>1 DEF Kinds
  <2>2. AllocFd([kind |-> "socket", data |-> <<>>]) /\ UNCHANGED buf /\ UNCHANGED lists
    BY <1>3 DEF Socket
  <2> QED
    BY <2>1, <2>2, Allocates
<1>4. CASE FileIntent \/ OtherIntent \/ Answers
  BY <1>4, FilesKept DEF FileIntent, OtherIntent, Answers, Recording
<1>5. ASSUME NEW fd \in 0..nextFd, Dup(fd) PROVE FilesInv'
  <2> DEFINE obj == IF Known(fd) THEN fds[fd] ELSE [kind |-> "none", data |-> <<>>]
  <2>1. obj \in [kind : Kinds, data : Seq(Data)]
    BY <1>1 DEF Kinds, Known, FilesInv, Files
  <2>2. AllocFd(obj) /\ UNCHANGED buf /\ UNCHANGED lists
    BY <1>5 DEF Dup
  <2>3. obj.kind = "file" => Len(obj.data) <= MaxFile
    BY StreamsNow DEF Known, FilesInv, Balanced
  <2> HIDE DEF obj
  <2> QED
    BY <2>1, <2>2, <2>3, Allocates
<1>6. ASSUME NEW fd \in 0..nextFd, Close(fd) PROVE FilesInv'
  BY <1>6 DEF Close, FilesInv, Files, StreamsAreFifo, IsFile, Known
<1>7. ASSUME NEW fd \in 0..nextFd, NEW b \in BOOLEAN, Write(fd, b) PROVE FilesInv'
  BY <1>7, Writes
<1>8. ASSUME NEW fd \in 0..nextFd, NEW n \in 1..2, Read(fd, n) \/ ReadNull(fd, n) PROVE FilesInv'
  BY <1>8, Reads
<1>9. ASSUME NEW c \in Codes, SysExit(c) PROVE FilesInv'
  BY <1>9, FilesKept DEF SysExit
<1> QED
  BY <1>2, <1>3, <1>4, <1>5, <1>6, <1>7, <1>8, <1>9 DEF Syscall

LEMMA FilesStep == FilesInv /\ [ShellNext]_allVars => FilesInv'
<1> SUFFICES ASSUME FilesInv, [ShellNext]_allVars PROVE FilesInv'
  OBVIOUS
<1>1. CASE Syscall
  BY <1>1, FilesSyscall
<1>2. CASE LinuxRestart
  BY <1>2, FilesRestart
<1>3. CASE /\ UNCHANGED <<tables, buf>>
           /\ \/ UNCHANGED lists
              \/ \E ls : lists' = Listed(ls)
              \/ lists' = [lists EXCEPT !["stdout"] = @ + 1]
  BY <1>3, FilesKept
<1>4. ASSUME NEW d \in Data, Fills(d) PROVE FilesInv'
  BY <1>4 DEF Fills, FilesInv, Files, StreamsAreFifo, IsFile, Known, tables
<1>5. CASE ShellNext
  <2>1. ASSUME Next PROVE FilesInv'
    <3>1. CASE LinuxCall \/ GuestFills
      BY <3>1, <1>1, <1>4 DEF LinuxCall, GuestFills
    <3>2. CASE Hlt \/ Fastfail \/ StartMain \/ Over \/ Deliver \/ DeliverRetried
      BY <3>2, <1>3 DEF Hlt, Fastfail, StartMain, Over, Deliver, DeliverRetried, vars, linuxVars, tables
    <3>3. CASE (\E printed \in BOOLEAN : LibcCall(printed)) \/ (\E c \in Codes \cup {None} : LibcExit(c))
      BY <3>3, <1>3 DEF LibcCall, LibcExit
    <3>4. CASE Retry(RetryErrors, Report)
      BY <3>4, <1>2 DEF Retry
    <3>5. CASE \E res \in Failures \cup {"ok", "halted"} :
                  EntryEnds(res) \/ \E v \in Codes \cup {None} : MainEnds(res, v)
      BY <3>5, <1>3 DEF EntryEnds, MainEnds, linuxVars, tables
    <3> QED
      BY <2>1, <3>1, <3>2, <3>3, <3>4, <3>5 DEF Next, Ends
  <2>2. CASE ShellSyscall \/ ShellRetry
    BY <2>2, <1>1, <1>2 DEF ShellSyscall, ShellRetry, Retry
  <2>3. CASE ShellExecve \/ ShellFastfail \/ Hlt \/ \E r \in Reasons : CleanStop(r)
    BY <2>3, <1>3 DEF ShellExecve, ShellFastfail, Hlt, CleanStop
  <2>4. CASE \E b \in BOOLEAN : WinApi(b) \/ WinNative(b)
    BY <2>4, <1>3 DEF WinApi, WinNative, vars, linuxVars, tables
  <2>5. CASE ShellDeliver \/ ShellDeliverRetried \/ (IsShell /\ at = "over" /\ UNCHANGED allVars)
    BY <2>5, <1>3 DEF ShellDeliver, ShellDeliverRetried, allVars, vars, linuxVars, tables
  <2>6. CASE \E res \in Failures \cup {"ok", "halted"}, written \in Unpacked :
               ShellEnds(res, written)
    BY <2>6, <1>3 DEF ShellEnds, EntryEnds, linuxVars, tables
  <2> QED
    BY <1>5, <2>1, <2>2, <2>3, <2>4, <2>5, <2>6 DEF ShellNext
<1>6. CASE UNCHANGED allVars
  BY <1>6, <1>3 DEF allVars, vars, linuxVars, tables
<1> QED
  BY <1>5, <1>6

-----------------------------------------------------------------------------
(* How the run ends.                                                       *)

LEMMA OutcomeInitially == ShellInit => OutcomeInv
  BY DEF ShellInit, Init, LinuxInit, OutcomeInv, Standing, Outcome

\* The guest runs before and after the step.
LEMMA OutcomeRuns ==
    ASSUME OutcomeInv, at \in {"entry", "main"}, at' \in {"entry", "main"},
           at' = "main" => harness = "elf",
           UNCHANGED <<harness, backend, result, first, delivered>>,
           exited' \in BOOLEAN, halted' \in BOOLEAN, refused' \in BOOLEAN,
           exitCode' \in Codes \cup {None},
           stopReason' \in Reasons \cup {None, "execve", "fastfail"}, changed' \subseteq 1..Size
    PROVE  OutcomeInv'
<1>1. RetryOn' = RetryOn
  BY DEF RetryOn, IsShell
<1> QED
  BY <1>1 DEF OutcomeInv, Standing, Outcome

LEMMA OutcomeSyscall ==
    ASSUME OutcomeInv, MayCall, Syscall, UNCHANGED <<runVars, shellVars>>
    PROVE  OutcomeInv'
<1>1. \/ UNCHANGED ending
      \/ \E c \in Codes : exited' = TRUE /\ exitCode' = c /\ halted' = TRUE
  BY DEF Syscall, Open, Socket, FileIntent, OtherIntent, Recording, Answers, Dup, Close, Write, Read,
         ReadNull, SysExit
<1>2. /\ at \in {"entry", "main"} /\ at' = at
      /\ UNCHANGED <<harness, backend, refused, result, first, delivered, stopReason, changed>>
  BY DEF MayCall, GuestRuns, runVars, shellVars
<1>3. exited' \in BOOLEAN /\ halted' \in BOOLEAN /\ exitCode' \in Codes \cup {None}
  <2>1. CASE UNCHANGED ending
    BY <2>1 DEF ending, OutcomeInv, Standing
  <2>2. ASSUME NEW c \in Codes, exited' = TRUE, exitCode' = c, halted' = TRUE
        PROVE  exited' \in BOOLEAN /\ halted' \in BOOLEAN /\ exitCode' \in Codes \cup {None}
    BY <2>2
  <2> QED
    BY <1>1, <2>1, <2>2
<1>4. RetryOn' = RetryOn
  BY <1>2 DEF RetryOn, IsShell
<1> QED
  BY <1>2, <1>3, <1>4 DEF OutcomeInv, Standing, Outcome

LEMMA OutcomeElf == ASSUME OutcomeInv, harness = "elf", Next, UNCHANGED shellVars PROVE OutcomeInv'
<1> USE DEF shellVars, runVars, tables, ending
<1>1. CASE LinuxCall
  BY <1>1, OutcomeSyscall DEF LinuxCall
<1>2. CASE GuestFills
  BY <1>2, OutcomeRuns DEF GuestFills, GuestRuns, Fills, OutcomeInv, Standing, Outcome
<1>3. CASE Hlt \/ Fastfail
  BY <1>3, OutcomeRuns DEF Hlt, Fastfail, GuestRuns, OutcomeInv, Standing, Outcome
<1>4. CASE StartMain
  BY <1>4, OutcomeRuns DEF StartMain, MayCall, GuestRuns, OutcomeInv, Standing, Outcome
<1>5. ASSUME NEW printed \in BOOLEAN, LibcCall(printed) PROVE OutcomeInv'
  BY <1>5, OutcomeRuns DEF LibcCall, MayCall, GuestRuns, OutcomeInv, Standing, Outcome
<1>6. ASSUME NEW c \in Codes \cup {None}, LibcExit(c) PROVE OutcomeInv'
  BY <1>6, OutcomeRuns DEF LibcExit, MayCall, GuestRuns, OutcomeInv, Standing, Outcome
<1>7. ASSUME NEW res \in Results, NEW v \in Codes \cup {None}, MainEnds(res, v) PROVE OutcomeInv'
  BY <1>7, OutcomeRuns DEF MainEnds, OutcomeInv, Standing, Outcome
<1>8. ASSUME NEW res \in Results, EntryEnds(res) PROVE OutcomeInv'
  <2>1. RetryOn' = RetryOn
    BY DEF RetryOn, IsShell
  <2> QED
    BY <1>8, <2>1, FailuresAssumption DEF EntryEnds, Returns, linuxVars, OutcomeInv, Standing, Outcome
<1>9. CASE Deliver
  BY <1>9 DEF Deliver, linuxVars, OutcomeInv, Standing, Outcome, Report, Status, IsShell
<1>10. CASE Retry(RetryErrors, Report)
  <2>1. /\ at = "report" /\ backend = "js" /\ result \in RetryErrors /\ first' = Report
        /\ backend' = "hybrid" /\ at' = "entry" /\ refused' = FALSE /\ result' = None
        /\ exited' = FALSE /\ halted' = FALSE /\ exitCode' = None /\ delivered' = delivered
    BY <1>10 DEF Retry, LinuxRestart
  <2>2. Report \in RefusedRuns /\ Report.status \in RetryOn
    BY <2>1 DEF Report, Status, RefusedRuns, Refusals, RetryErrors, RetryOn, IsShell, OutcomeInv, Standing
  <2>3. RetryOn' = RetryOn
    BY DEF RetryOn, IsShell
  <2> QED
    BY <2>1, <2>2, <2>3 DEF OutcomeInv, Standing, Outcome
<1>11. CASE DeliverRetried
  BY <1>11 DEF DeliverRetried, Keeps, linuxVars, OutcomeInv, Standing, Outcome, Report, Status, IsShell,
               RetryOn, DiscardOn
<1>12. CASE Over
  BY <1>12 DEF Over, vars, linuxVars, OutcomeInv, Standing, Outcome, Report, Status, IsShell, ShellReport,
               ShellStatus, RetryOn, DiscardOn
<1> QED
  BY <1>1, <1>2, <1>3, <1>4, <1>5, <1>6, <1>7, <1>8, <1>9, <1>10, <1>11, <1>12 DEF Next, Ends, Results

LEMMA OutcomeStep == OutcomeInv /\ [ShellNext]_allVars => OutcomeInv'
<1> SUFFICES ASSUME OutcomeInv, [ShellNext]_allVars PROVE OutcomeInv'
  OBVIOUS
<1> USE DEF shellVars, runVars, tables, ending
<1>1. CASE harness = "elf" /\ Next /\ UNCHANGED shellVars
  BY <1>1, OutcomeElf
<1>2. CASE ShellSyscall
  BY <1>2, OutcomeSyscall DEF ShellSyscall, OnLinux
<1>3. CASE ShellExecve
  BY <1>3, OutcomeRuns DEF ShellExecve, OnLinux, MayCall, GuestRuns, OutcomeInv, Standing, Outcome
<1>4. ASSUME NEW r \in Reasons, CleanStop(r) PROVE OutcomeInv'
  BY <1>4, OutcomeRuns DEF CleanStop, IsShell, MayCall, GuestRuns, OutcomeInv, Standing, Outcome
<1>5. CASE ShellFastfail
  BY <1>5, OutcomeRuns DEF ShellFastfail, OnWindows, MayCall, GuestRuns, OutcomeInv, Standing, Outcome
<1>6. CASE IsShell /\ Hlt /\ UNCHANGED shellVars
  BY <1>6, OutcomeRuns DEF Hlt, IsShell, GuestRuns, OutcomeInv, Standing, Outcome
<1>7. ASSUME NEW b \in BOOLEAN, WinApi(b) PROVE OutcomeInv'
  BY <1>7, OutcomeRuns DEF WinApi, OnWindows, MayCall, GuestRuns, OutcomeInv, Standing, Outcome
<1>8. ASSUME NEW b \in BOOLEAN, WinNative(b) PROVE OutcomeInv'
  BY <1>8, OutcomeRuns DEF WinNative, OnWindows, MayCall, GuestRuns, OutcomeInv, Standing, Outcome
<1>10. ASSUME NEW res \in Results, NEW written \in Unpacked, ShellEnds(res, written)
       PROVE  OutcomeInv'
  <2>1. RetryOn' = RetryOn
    BY <1>10 DEF RetryOn, IsShell, ShellEnds
  <2> QED
    BY <1>10, <2>1, FailuresAssumption, ShellAssumption
    DEF ShellEnds, IsShell, EntryEnds, Returns, linuxVars, OutcomeInv, Standing, Outcome
<1>11. CASE ShellDeliver
  BY <1>11 DEF ShellDeliver, linuxVars, OutcomeInv, Standing, Outcome, ShellReport, ShellStatus, IsShell
<1>12. CASE ShellRetry
  <2>1. /\ IsShell /\ at = "report" /\ backend = "js" /\ result \in ShellRetryErrors
        /\ first' = ShellReport
        /\ backend' = "hybrid" /\ at' = "entry" /\ refused' = FALSE /\ result' = None
        /\ exited' = FALSE /\ halted' = FALSE /\ exitCode' = None /\ delivered' = delivered
        /\ stopReason' = None /\ changed' = {} /\ harness' = harness
    BY <1>12 DEF ShellRetry, Retry, LinuxRestart
  <2>2. ShellReport \in RefusedRuns /\ ShellReport.status \in RetryOn
    BY <2>1 DEF ShellReport, ShellStatus, RefusedRuns, Refusals, ShellRetryErrors, RetryOn, OutcomeInv,
                Standing
  <2>3. RetryOn' = RetryOn
    BY <2>1 DEF RetryOn, IsShell
  <2> QED
    BY <2>1, <2>2, <2>3 DEF OutcomeInv, Standing, Outcome
<1>13. CASE ShellDeliverRetried
  BY <1>13 DEF ShellDeliverRetried, linuxVars, OutcomeInv, Standing, Outcome, ShellReport, ShellStatus,
               IsShell, RetryOn, DiscardOn
<1>14. CASE UNCHANGED allVars
  BY <1>14 DEF allVars, vars, linuxVars, OutcomeInv, Standing, Outcome, Report, Status, IsShell,
               ShellReport, ShellStatus, RetryOn, DiscardOn
<1> QED
  BY <1>1, <1>2, <1>3, <1>4, <1>5, <1>6, <1>7, <1>8, <1>10, <1>11, <1>12, <1>13, <1>14
  DEF ShellNext, Results

-----------------------------------------------------------------------------
(* The trace.                                                              *)

\* A call's event, as the Linux model leaves it: with its own site.
Event(call, data) == [call |-> call, site |-> call, data |-> data]

LEMMA TraceInitially == ShellInit => TraceInv
  BY DEF ShellInit, Init, LinuxInit, TraceInv, Trail, EventSites, CallSites, Replaced

\* The annotation is that of the event just made, or there was none to make: when the list is
\* full, its last event has a site.
LEMMA Dispatched ==
    ASSUME Trail, CallSites, NEW d \in Data \cup {None}, Dispatch(d)
    PROVE  /\ calls' = calls + 1
           /\ events' \in {events, Append(events, Event(calls + 1, d))}
<1>1. calls' = calls + 1 /\ events' = Annotated(Recorded(events, calls + 1, d), calls + 1)
  BY DEF Dispatch
<1>2. CASE Len(events) < MaxEvents
  <2> DEFINE e == [call |-> calls + 1, site |-> None, data |-> d]
             es == Append(events, e)
  <2>1. calls \in Nat /\ events \in Seq(Events) /\ e \in Events
    BY DEF Trail, Events
  <2>2. /\ es \in Seq(Events) /\ Len(es) = Len(events) + 1 /\ Len(events) \in Nat
        /\ DOMAIN es = 1..Len(es) /\ es[Len(es)] = e
        /\ \A k \in 1..Len(events) : es[k] = events[k]
    BY <2>1
  <2>3. events' = [es EXCEPT ![Len(es)].site = calls + 1]
    BY <1>1, <1>2, <2>2 DEF Recorded, Annotated, Last
  <2>4. Event(calls + 1, d) \in Events /\ [e EXCEPT !.site = calls + 1] = Event(calls + 1, d)
    BY <2>1 DEF Events, Event
  <2>5. [es EXCEPT ![Len(es)].site = calls + 1] = [es EXCEPT ![Len(es)] = Event(calls + 1, d)]
    BY <2>2, <2>4
  <2> DEFINE es1 == [es EXCEPT ![Len(es)] = Event(calls + 1, d)]
             es2 == Append(events, Event(calls + 1, d))
  <2>6. /\ es1 \in Seq(Events) /\ Len(es1) = Len(es)
        /\ \A k \in 1..Len(es) : es1[k] = IF k = Len(es) THEN Event(calls + 1, d) ELSE es[k]
    <3> HIDE DEF es
    <3> QED
      BY <2>2, <2>4, ExceptSeq
  <2>7. /\ es2 \in Seq(Events) /\ Len(es2) = Len(es)
        /\ \A k \in 1..Len(es) : es2[k] = IF k = Len(es) THEN Event(calls + 1, d) ELSE events[k]
    BY <2>1, <2>2, <2>4
  <2>8. es1 = es2
    <3> HIDE DEF es1, es2, es
    <3>1. \A k \in 1..Len(es) : es1[k] = es2[k]
      BY <2>2, <2>6, <2>7
    <3> QED
      BY <3>1, <2>6, <2>7, SeqEqual
  <2> QED
    BY <1>1, <2>3, <2>5, <2>8
<1>3. CASE ~(Len(events) < MaxEvents)
  <2>1. Len(events) \in DOMAIN events
    BY <1>3, LinuxAssumption DEF Trail
  <2>2. Last(events).site = events[Len(events)].call /\ events[Len(events)].call \in Nat
    BY <2>1 DEF Last, CallSites, Trail
  <2> QED
    BY <1>1, <1>3, <2>2, LinuxAssumption DEF Recorded, Annotated
<1> QED
  BY <1>2, <1>3

\* One event more.
LEMMA Appends ==
    ASSUME Trail, EventSites, UNCHANGED harness, calls' \in Nat, calls <= calls',
           NEW e \in Events, events' = Append(events, e),
           e.call \in 1..calls', e.site \in {None, e.call},
           harness # "win" => e.site = e.call /\ \A k \in DOMAIN events : events[k].call # e.call
    PROVE  /\ events' \in Seq(Events)
           /\ \A k \in DOMAIN events' : events'[k].call \in 1..calls'
           /\ \A k \in DOMAIN events' : \/ events'[k].call = e.call
                                        \/ \E j \in DOMAIN events : events'[k].call = events[j].call
           /\ EventSites'
<1>1. /\ events \in Seq(Events) /\ events' \in Seq(Events) /\ Len(events) \in Nat
      /\ DOMAIN events = 1..Len(events) /\ DOMAIN events' = 1..(Len(events) + 1)
      /\ \A k \in DOMAIN events : events'[k] = events[k]
      /\ events'[Len(events) + 1] = e
  BY DEF Trail
<1>2. \A k \in DOMAIN events' : k \in DOMAIN events \/ k = Len(events) + 1
  BY <1>1
<1>3. \A k \in DOMAIN events' : events'[k].call \in 1..calls'
  BY <1>1, <1>2 DEF Trail
<1>4. \A k \in DOMAIN events' : events'[k].site \in {None, events'[k].call}
  BY <1>1, <1>2 DEF EventSites
<1>5. harness' # "win" => CallSites'
  BY <1>1, <1>2 DEF EventSites, CallSites
<1> QED
  BY <1>1, <1>2, <1>3, <1>4, <1>5 DEF EventSites

\* The guest makes a call: it is recorded or not, and it is no execve.
LEMMA TraceCalls ==
    ASSUME TraceInv, MayCall, calls' = calls + 1, UNCHANGED <<harness, at, mainCall, execs>>,
           NEW e \in Events, e.call = calls + 1, e.site \in {None, calls + 1},
           harness # "win" => e.site = calls + 1,
           events' \in {events, Append(events, e)}
    PROVE  TraceInv'
<1>1. calls \in Nat /\ calls' \in Nat /\ calls <= calls' /\ e.call \in 1..calls'
  BY DEF TraceInv, Trail
<1>2. \A k \in DOMAIN events : events[k].call \in 1..calls
  BY DEF TraceInv, Trail
<1>3. \A x \in execs : \A k \in DOMAIN events : events[k].call # x
  BY DEF TraceInv, Replaced, MayCall, GuestRuns
<1>4. CASE events' = events
  BY <1>1, <1>2, <1>3, <1>4 DEF TraceInv, Trail, Replaced, EventSites, CallSites
<1>5. CASE events' = Append(events, e)
  <2>1. \A k \in DOMAIN events : events[k].call # e.call
    BY <1>1, <1>2
  <2>2. /\ events' \in Seq(Events)
        /\ \A k \in DOMAIN events' : events'[k].call \in 1..calls'
        /\ \A k \in DOMAIN events' : \/ events'[k].call = e.call
                                     \/ \E j \in DOMAIN events : events'[k].call = events[j].call
        /\ EventSites'
    BY <1>1, <1>5, <2>1, Appends DEF TraceInv
  <2>3. Trail'
    <3>1. at' = "main" => /\ mainCall' \in 1..calls'
                          /\ \A k \in DOMAIN events' : events'[k].call # mainCall'
      <4> SUFFICES ASSUME at = "main"
                   PROVE  /\ mainCall \in 1..calls'
                          /\ \A k \in DOMAIN events' : events'[k].call # mainCall
        OBVIOUS
      <4>1. mainCall \in 1..calls /\ \A k \in DOMAIN events : events[k].call # mainCall
        BY DEF TraceInv, Trail
      <4>2. mainCall \in 1..calls' /\ mainCall # e.call
        BY <1>1, <4>1
      <4> QED
        BY <2>2, <4>1, <4>2
    <3>2. execs' \subseteq 1..calls' /\ (harness' # "linux" => execs' = {})
      BY <1>1 DEF TraceInv, Trail
    <3> QED
      BY <1>1, <2>2, <3>1, <3>2 DEF Trail
  <2>4. Replaced'
    BY <1>1, <1>3, <2>2 DEF TraceInv, Trail, Replaced
  <2> QED
    BY <2>2, <2>3, <2>4 DEF TraceInv
<1> QED
  BY <1>4, <1>5

LEMMA TraceSyscall ==
    ASSUME TraceInv, buf \in Data, buf' \in Data, harness # "win", MayCall, Syscall,
           UNCHANGED <<runVars, shellVars>>
    PROVE  TraceInv'
<1>1. \E d \in Data \cup {None} : Dispatch(d)
  BY DEF Syscall, Open, Socket, FileIntent, OtherIntent, Recording, Answers, Dup, Close, Write, Read,
         ReadNull, SysExit
<1>2. PICK d \in Data \cup {None} : Dispatch(d)
  BY <1>1
<1>3. /\ calls' = calls + 1
      /\ events' \in {events, Append(events, Event(calls + 1, d))}
  BY <1>2, Dispatched DEF TraceInv, EventSites
<1>4. /\ Event(calls + 1, d) \in Events /\ Event(calls + 1, d).call = calls + 1
      /\ Event(calls + 1, d).site = calls + 1
  BY DEF Event, Events, TraceInv, Trail
<1> HIDE DEF Event
<1> QED
  BY <1>3, <1>4, TraceCalls DEF runVars, shellVars

\* Nothing is called and nothing recorded.
LEMMA TraceKept ==
    ASSUME TraceInv, UNCHANGED <<events, calls, harness, execs>>,
           at' = "main" => at = "main" /\ mainCall' = mainCall,
           halted => halted'
    PROVE  TraceInv'
  BY DEF TraceInv, Trail, EventSites, CallSites, Replaced

\* A run begun anew.
LEMMA TraceRestart ==
    ASSUME LinuxRestart, at' = "entry", execs' = {}
    PROVE  TraceInv'
  BY DEF LinuxRestart, TraceInv, Trail, EventSites, CallSites, Replaced

\* main is back: __libc_start_main's event comes after those of all that main called.
LEMMA TraceMain ==
    ASSUME TraceInv, harness = "elf", at = "main", at' = "entry", LibcRecords(mainCall, None),
           UNCHANGED <<calls, harness, execs>>
    PROVE  TraceInv'
<1> DEFINE e == Event(mainCall, None)
<1>1. /\ calls \in Nat /\ calls' = calls /\ e \in Events /\ e.call \in 1..calls'
      /\ e.call = mainCall /\ e.site = e.call
      /\ events' = Append(events, e)
  BY DEF Event, Events, LibcRecords, TraceInv, Trail
<1>2. \A k \in DOMAIN events : events[k].call # e.call
  BY <1>1 DEF TraceInv, Trail
<1> HIDE DEF e
<1>3. calls' \in Nat /\ calls <= calls' /\ e.site \in {None, e.call}
  BY <1>1
<1>4. /\ events' \in Seq(Events)
      /\ \A k \in DOMAIN events' : events'[k].call \in 1..calls'
      /\ EventSites'
  BY <1>1, <1>2, <1>3, Appends DEF TraceInv
<1> QED
  BY <1>1, <1>4 DEF TraceInv, Trail, Replaced

\* execve's event is the last there is, and halts; when the list is full, so that it has
\* none, the last is an older call's, which was no execve as the guest ran on.
LEMMA TraceExecve == ASSUME TraceInv, ShellExecve PROVE TraceInv'
<1>1. /\ harness = "linux" /\ harness' = harness /\ ~halted /\ calls \in Nat /\ at' = at
      /\ mainCall' = mainCall /\ execs' = execs \cup {calls + 1} /\ events \in Seq(Events)
  BY DEF ShellExecve, OnLinux, runVars, MayCall, GuestRuns, TraceInv, Trail
<1>2. /\ calls' = calls + 1
      /\ events' \in {events, Append(events, Event(calls + 1, None))}
  BY <1>1, Dispatched DEF ShellExecve, TraceInv, EventSites
<1>3. \A x \in execs : \A k \in DOMAIN events : events[k].call # x
  BY <1>1 DEF TraceInv, Replaced
<1>4. \A k \in DOMAIN events : events[k].call \in 1..calls
  BY DEF TraceInv, Trail
<1>5. execs' \subseteq 1..calls'
  BY <1>1, <1>2 DEF TraceInv, Trail
<1>6. CASE events' = events
  <2>1. \A x \in execs' : \A k \in DOMAIN events' : events'[k].call # x
    BY <1>1, <1>3, <1>4, <1>6
  <2> QED
    BY <1>1, <1>2, <1>4, <1>5, <1>6, <2>1 DEF TraceInv, Trail, Replaced, EventSites, CallSites
<1>7. CASE events' = Append(events, Event(calls + 1, None))
  <2> DEFINE e == Event(calls + 1, None)
  <2>1. /\ e \in Events /\ e.call = calls + 1 /\ e.site = e.call /\ e.call \in 1..calls'
    BY <1>1, <1>2 DEF Event, Events
  <2>2. Last(events').call = calls + 1
    BY <1>1, <1>7, <2>1 DEF Last
  <2>3. halted'
    BY <1>1, <2>2 DEF ShellExecve, Terminal
  <2> HIDE DEF e
  <2>4. \A k \in DOMAIN events : events[k].call # e.call
    BY <1>1, <1>4, <2>1
  <2>5. calls' \in Nat /\ calls <= calls' /\ e.site \in {None, e.call}
    BY <1>1, <1>2, <2>1
  <2>6. events' = Append(events, e)
    BY <1>7 DEF e
  <2>7. /\ events' \in Seq(Events)
        /\ \A k \in DOMAIN events' : events'[k].call \in 1..calls'
        /\ \A k \in DOMAIN events' : \/ events'[k].call = e.call
                                     \/ \E j \in DOMAIN events : events'[k].call = events[j].call
        /\ EventSites'
    BY <1>1, <2>1, <2>4, <2>5, <2>6, Appends DEF TraceInv
  <2>8. \A x \in execs' : (\E k \in DOMAIN events' : events'[k].call = x) => x = calls'
    BY <1>1, <1>2, <1>3, <2>1, <2>7
  <2>9. at' = "main" => /\ mainCall' \in 1..calls'
                        /\ \A k \in DOMAIN events' : events'[k].call # mainCall'
    BY <1>1, <1>2, <2>1, <2>7 DEF TraceInv, Trail
  <2> QED
    BY <1>1, <1>2, <1>5, <2>3, <2>7, <2>8, <2>9 DEF TraceInv, Trail, Replaced
<1> QED
  BY <1>2, <1>6, <1>7

\* A native Windows call: the model's event, if there is room, and the hook's.
LEMMA TraceNative == ASSUME TraceInv, NEW known \in BOOLEAN, WinNative(known) PROVE TraceInv'
<1> DEFINE mine(site) == [call |-> calls + 1, site |-> site, data |-> None]
<1>1. /\ harness = "win" /\ harness' = "win" /\ calls \in Nat /\ calls' = calls + 1 /\ at' = at
      /\ mainCall' = mainCall /\ execs = {} /\ execs' = {} /\ events \in Seq(Events)
  BY DEF WinNative, OnWindows, runVars, shellVars, TraceInv, Trail
<1>2. mine(None) \in Events /\ mine(calls + 1) \in Events
  BY <1>1 DEF Events
<1>3. events' = Append(events, mine(calls + 1))
      \/ events' = Append(Append(events, mine(None)), mine(calls + 1))
  BY DEF WinNative, Recorded
<1>4. /\ events' \in Seq(Events)
      /\ \A k \in DOMAIN events' : \/ events'[k] \in {mine(None), mine(calls + 1)}
                                   \/ k \in DOMAIN events /\ events'[k] = events[k]
  <2>1. CASE events' = Append(events, mine(calls + 1))
    <3> HIDE DEF mine
    <3> QED
      BY <2>1, <1>1, <1>2
  <2>2. CASE events' = Append(Append(events, mine(None)), mine(calls + 1))
    <3> HIDE DEF mine
    <3> QED
      BY <2>2, <1>1, <1>2
  <2> QED
    BY <1>3, <2>1, <2>2
<1>5. \A k \in DOMAIN events' : /\ events'[k].call \in 1..calls'
                                /\ events'[k].site \in {None, events'[k].call}
  BY <1>1, <1>4 DEF TraceInv, Trail, EventSites
<1>6. at' = "main" => /\ mainCall' \in 1..calls'
                      /\ \A k \in DOMAIN events' : events'[k].call # mainCall'
  BY <1>1, <1>4 DEF TraceInv, Trail
<1> QED
  BY <1>1, <1>4, <1>5, <1>6 DEF TraceInv, Trail, Replaced, EventSites

LEMMA TraceElf ==
    ASSUME TraceInv, OutcomeInv, buf \in Data, buf' \in Data, harness = "elf", Next,
           UNCHANGED shellVars
    PROVE  TraceInv'
<1> USE DEF shellVars, runVars, tables, ending
<1>1. CASE LinuxCall
  BY <1>1, TraceSyscall DEF LinuxCall
<1>2. CASE GuestFills \/ Hlt \/ Fastfail
  BY <1>2, TraceKept DEF GuestFills, Fills, Hlt, Fastfail
<1>3. CASE StartMain
  BY <1>3 DEF StartMain, TraceInv, Trail, EventSites, CallSites, Replaced
<1>4. ASSUME NEW d \in Data \cup {None}, MayCall, calls' = calls + 1, LibcRecords(calls + 1, d),
             UNCHANGED <<at, mainCall>>
      PROVE  TraceInv'
  <2>1. /\ Event(calls + 1, d) \in Events /\ Event(calls + 1, d).call = calls + 1
        /\ Event(calls + 1, d).site = calls + 1 /\ events' = Append(events, Event(calls + 1, d))
    BY <1>4 DEF Event, Events, TraceInv, Trail, LibcRecords
  <2> HIDE DEF Event
  <2> QED
    BY <1>4, <2>1, TraceCalls
<1>5. ASSUME NEW printed \in BOOLEAN, LibcCall(printed) PROVE TraceInv'
  BY <1>5, <1>4 DEF LibcCall
<1>6. ASSUME NEW c \in Codes \cup {None}, LibcExit(c) PROVE TraceInv'
  BY <1>6, <1>4 DEF LibcExit
<1>7. ASSUME NEW res \in Results, NEW v \in Codes \cup {None}, MainEnds(res, v) PROVE TraceInv'
  BY <1>7, TraceMain DEF MainEnds
<1>8. ASSUME NEW res \in Results, EntryEnds(res) PROVE TraceInv'
  BY <1>8, TraceKept DEF EntryEnds, linuxVars
<1>9. CASE Deliver \/ DeliverRetried \/ Over
  BY <1>9, TraceKept DEF Deliver, DeliverRetried, Over, vars, linuxVars
<1>10. CASE Retry(RetryErrors, Report)
  BY <1>10, TraceRestart DEF Retry, TraceInv, Trail
<1> QED
  BY <1>1, <1>2, <1>3, <1>5, <1>6, <1>7, <1>8, <1>9, <1>10 DEF Next, Ends, Results

LEMMA TraceStep ==
    TraceInv /\ OutcomeInv /\ buf \in Data /\ buf' \in Data /\ [ShellNext]_allVars => TraceInv'
<1> SUFFICES ASSUME TraceInv, OutcomeInv, buf \in Data, buf' \in Data, [ShellNext]_allVars
             PROVE  TraceInv'
  OBVIOUS
<1> USE DEF shellVars, runVars, tables, ending
<1>1. CASE harness = "elf" /\ Next /\ UNCHANGED shellVars
  BY <1>1, TraceElf
<1>2. CASE ShellSyscall
  BY <1>2, TraceSyscall DEF ShellSyscall, OnLinux
<1>3. CASE ShellExecve
  BY <1>3, TraceExecve
<1>4. ASSUME NEW site \in {None, calls + 1}, harness # "win" => site = calls + 1, MayCall,
             calls' = calls + 1, UNCHANGED <<harness, at, mainCall, execs>>,
             events' \in {events, Append(events, [call |-> calls + 1, site |-> site, data |-> None])}
      PROVE  TraceInv'
  <2>1. PICK e : e = [call |-> calls + 1, site |-> site, data |-> None]
    OBVIOUS
  <2>2. /\ e \in Events /\ e.call = calls + 1 /\ e.site \in {None, calls + 1}
        /\ harness # "win" => e.site = calls + 1
        /\ events' \in {events, Append(events, e)}
    BY <1>4, <2>1 DEF Events, TraceInv, Trail
  <2> QED
    BY <1>4, <2>2, TraceCalls
<1>5. ASSUME NEW r \in Reasons, CleanStop(r) PROVE TraceInv'
  BY <1>5, <1>4 DEF CleanStop
<1>6. CASE ShellFastfail
  BY <1>6, <1>4 DEF ShellFastfail, OnWindows
<1>7. CASE IsShell /\ Hlt /\ UNCHANGED shellVars
  BY <1>7, TraceKept DEF Hlt
<1>8. ASSUME NEW b \in BOOLEAN, WinApi(b) PROVE TraceInv'
  BY <1>8, <1>4 DEF WinApi, OnWindows
<1>9. ASSUME NEW b \in BOOLEAN, WinNative(b) PROVE TraceInv'
  BY <1>9, TraceNative
<1>11. ASSUME NEW res \in Results, NEW written \in Unpacked, ShellEnds(res, written)
       PROVE  TraceInv'
  BY <1>11, TraceKept DEF ShellEnds, EntryEnds, linuxVars
<1>12. CASE ShellDeliver \/ ShellDeliverRetried
  BY <1>12, TraceKept DEF ShellDeliver, ShellDeliverRetried, linuxVars
<1>13. CASE ShellRetry
  BY <1>13, TraceRestart DEF ShellRetry, Retry
<1>14. CASE UNCHANGED allVars
  BY <1>14, TraceKept DEF allVars, vars, linuxVars
<1> QED
  BY <1>1, <1>2, <1>3, <1>5, <1>6, <1>7, <1>8, <1>9, <1>11, <1>12, <1>13, <1>14
  DEF ShellNext, Results

-----------------------------------------------------------------------------
(* Recursion over a number: the scan of the diff is defined by one.        *)

\* A set of numbers has a least one.
LEMMA LeastNumber ==
    ASSUME NEW T \in SUBSET Nat, T # {}
    PROVE  \E x \in T : \A y \in T : x <= y
<1>1. \E x \in T : \A y \in T : ~(<<y, x>> \in OpToRel(<, Nat))
  <2> HIDE DEF OpToRel
  <2> QED
    BY NatLessThanWellFounded, WFMin
<1>2. ASSUME NEW x \in Nat, NEW y \in Nat, ~(<<y, x>> \in OpToRel(<, Nat)) PROVE x <= y
  BY <1>2 DEF OpToRel
<1> QED
  BY <1>1, <1>2

\* Induction on a set of numbers.
LEMMA SetInduction ==
    ASSUME NEW S, 0 \in S, \A n \in Nat : n \in S => n + 1 \in S
    PROVE  Nat \subseteq S
<1> DEFINE T == Nat \ S
<1> SUFFICES ASSUME T # {} PROVE FALSE
  OBVIOUS
<1>1. T \in SUBSET Nat
  OBVIOUS
<1> HIDE DEF T
<1>2. PICK x \in T : \A y \in T : x <= y
  BY <1>1, LeastNumber
<1>3. x # 0 /\ x - 1 \in Nat
  BY <1>2 DEF T
<1>4. x - 1 \in S
  BY <1>2, <1>3 DEF T
<1> QED
  BY <1>2, <1>3, <1>4 DEF T

Recursive(g, s0, N, F) == g = [n \in 0..N |-> IF n = 0 THEN s0 ELSE F[<<g[n - 1], n>>]]

\* A function defined by recursion from 0 to N exists.
LEMMA RecursionExists ==
    ASSUME NEW S, NEW s0 \in S, NEW N \in Nat, NEW F,
           \A n \in 1..N : \A s \in S : F[<<s, n>>] \in S
    PROVE  \E g \in [0..N -> S] : Recursive(g, s0, N, F)
<1> DEFINE Upto(g, m) == /\ g \in [0..m -> S]
                         /\ \A n \in 0..m : g[n] = IF n = 0 THEN s0 ELSE F[<<g[n - 1], n>>]
           T == {m \in Nat : m <= N => \E g : Upto(g, m)}
<1>1. 0 \in T
  <2> DEFINE g == [n \in 0..0 |-> s0]
  <2>1. Upto(g, 0)
    OBVIOUS
  <2> QED
    BY <2>1
<1>2. ASSUME NEW m \in Nat, m \in T PROVE m + 1 \in T
  <2> SUFFICES ASSUME m + 1 <= N PROVE \E g : Upto(g, m + 1)
    OBVIOUS
  <2>1. PICK g : Upto(g, m)
    BY <1>2
  <2> DEFINE h == [n \in 0..(m + 1) |-> IF n = m + 1 THEN F[<<g[m], m + 1>>] ELSE g[n]]
  <2>2. F[<<g[m], m + 1>>] \in S
    BY <2>1
  <2>3. h \in [0..(m + 1) -> S]
    BY <2>1, <2>2
  <2>4. ASSUME NEW n \in 0..(m + 1) PROVE h[n] = IF n = 0 THEN s0 ELSE F[<<h[n - 1], n>>]
    <3>1. CASE n = m + 1
      BY <3>1, <2>1
    <3>2. CASE n # m + 1 /\ n # 0
      <4>1. n \in 0..m /\ n - 1 \in 0..(m + 1) /\ n - 1 # m + 1
        BY <3>2
      <4>2. h[n] = g[n] /\ h[n - 1] = g[n - 1]
        BY <3>2, <4>1
      <4> HIDE DEF h
      <4> QED
        BY <3>2, <4>1, <4>2, <2>1
    <3>3. CASE n = 0
      <4>1. 0 \in 0..m /\ 0 \in 0..(m + 1) /\ 0 # m + 1
        OBVIOUS
      <4>2. g[0] = s0
        BY <2>1, <4>1
      <4>3. h[0] = g[0]
        BY <4>1
      <4> HIDE DEF h
      <4> QED
        BY <3>3, <4>2, <4>3
    <3> QED
      BY <3>1, <3>2, <3>3
  <2> QED
    BY <2>3, <2>4
<1>3. N \in T
  <2> HIDE DEF T
  <2> QED
    BY <1>1, <1>2, SetInduction
<1>4. PICK g : Upto(g, N)
  BY <1>3
<1>5. Recursive(g, s0, N, F)
  BY <1>4 DEF Recursive
<1> QED
  BY <1>4, <1>5

-----------------------------------------------------------------------------
(* The diff.                                                               *)

Diffs == [start : Nat, ranges : Seq(Nat \X Nat), bytes : Int]
EmptyDiff == [start |-> 0, ranges |-> <<>>, bytes |-> 0]
Below(b) == changed \cap (1..(b - 1))
Covered(r) == UNION {r[k][1]..(r[k][2] - 1) : k \in DOMAIN r}

\* All changed bytes below b are accounted for.
Accounted(d, b) ==
    /\ d.bytes = Cardinality(Below(b))
    /\ Covered(d.ranges) \subseteq Below(b)
    /\ Len(d.ranges) < MaxRanges => Covered(d.ranges) = Below(b)

LEMMA EmptyIsDiff == EmptyDiff \in Diffs
<1>1. <<>> \in Seq(Nat \X Nat)
  OBVIOUS
<1> QED
  BY <1>1 DEF EmptyDiff, Diffs

LEMMA ClosedIsDiff == ASSUME NEW d \in Diffs, NEW b \in Nat PROVE Closed(d, b) \in Diffs
<1>1. d.ranges \in Seq(Nat \X Nat) /\ <<d.start, b>> \in Nat \X Nat /\ d.bytes + b - d.start \in Int
  BY DEF Diffs
<1>2. Append(d.ranges, <<d.start, b>>) \in Seq(Nat \X Nat)
  BY <1>1
<1> QED
  BY <1>1, <1>2 DEF Closed, Diffs

LEMMA LookedIsDiff == ASSUME NEW d \in Diffs, NEW b \in Nat PROVE Looked(d, b) \in Diffs
<1>1. [d EXCEPT !.start = b] \in Diffs
  BY DEF Diffs
<1> QED
  BY <1>1, ClosedIsDiff DEF Looked

LEMMA ScanDef ==
    /\ Scan[0] = EmptyDiff
    /\ \A b \in 1..Size : Scan[b] = Looked(Scan[b - 1], b)
<1> DEFINE F == [p \in Diffs \X (1..Size) |-> Looked(p[1], p[2])]
           Defines(g) == g = [b \in 0..Size |-> IF b = 0 THEN EmptyDiff ELSE Looked(g[b - 1], b)]
<1>1. \A n \in 1..Size : \A d \in Diffs : F[<<d, n>>] \in Diffs /\ F[<<d, n>>] = Looked(d, n)
  BY LookedIsDiff
<1>2. \E g \in [0..Size -> Diffs] : Recursive(g, EmptyDiff, Size, F)
  <2> HIDE DEF F
  <2>1. \A n \in 1..Size : \A d \in Diffs : F[<<d, n>>] \in Diffs
    BY <1>1
  <2>2. Size \in Nat
    BY ShellAssumption
  <2> QED
    BY <2>1, <2>2, EmptyIsDiff, RecursionExists
<1>3. PICK g \in [0..Size -> Diffs] :
         g = [n \in 0..Size |-> IF n = 0 THEN EmptyDiff ELSE F[<<g[n - 1], n>>]]
  BY <1>2 DEF Recursive
<1>4. \A n \in 0..Size : g[n] = IF n = 0 THEN EmptyDiff ELSE Looked(g[n - 1], n)
  <2> HIDE DEF F
  <2>1. \A n \in 0..Size : n # 0 => n \in 1..Size /\ n - 1 \in 0..Size
    BY ShellAssumption
  <2>2. \A n \in 0..Size : g[n] = IF n = 0 THEN EmptyDiff ELSE F[<<g[n - 1], n>>]
    BY <1>3
  <2> QED
    BY <1>1, <2>1, <2>2
<1>5. Defines(g)
  BY <1>4
<1>6. Scan = CHOOSE f : Defines(f)
  BY DEF Scan, EmptyDiff
<1>7. Defines(Scan)
  BY <1>5, <1>6
<1>8. \A b \in 0..Size : Scan[b] = IF b = 0 THEN EmptyDiff ELSE Looked(Scan[b - 1], b)
  BY <1>7
<1> QED
  BY <1>8, ShellAssumption

LEMMA CoveredGrows ==
    ASSUME NEW r \in Seq(Nat \X Nat), NEW a \in Nat, NEW b \in Nat
    PROVE  Covered(Append(r, <<a, b>>)) = Covered(r) \cup (a..(b - 1))
<1> DEFINE r2 == Append(r, <<a, b>>)
<1>1. /\ Len(r) \in Nat /\ DOMAIN r = 1..Len(r) /\ DOMAIN r2 = DOMAIN r \cup {Len(r) + 1}
      /\ r2[Len(r) + 1] = <<a, b>> /\ \A k \in DOMAIN r : r2[k] = r[k]
  OBVIOUS
<1> HIDE DEF r2
<1>2. Covered(r2) = Covered(r) \cup (a..(b - 1))
  <2>1. ASSUME NEW x \in Covered(r2) PROVE x \in Covered(r) \cup (a..(b - 1))
    <3>1. PICK k \in DOMAIN r2 : x \in r2[k][1]..(r2[k][2] - 1)
      BY <2>1 DEF Covered
    <3>2. CASE k \in DOMAIN r
      BY <3>1, <3>2, <1>1 DEF Covered
    <3>3. CASE k = Len(r) + 1
      BY <3>1, <3>3, <1>1
    <3> QED
      BY <3>1, <3>2, <3>3, <1>1
  <2>2. ASSUME NEW x \in Covered(r) PROVE x \in Covered(r2)
    <3>1. PICK k \in DOMAIN r : x \in r[k][1]..(r[k][2] - 1)
      BY <2>2 DEF Covered
    <3> QED
      BY <3>1, <1>1 DEF Covered
  <2>3. ASSUME NEW x \in a..(b - 1) PROVE x \in Covered(r2)
    <3>1. Len(r) + 1 \in DOMAIN r2 /\ x \in r2[Len(r) + 1][1]..(r2[Len(r) + 1][2] - 1)
      BY <1>1
    <3> QED
      BY <3>1 DEF Covered
  <2> QED
    BY <2>1, <2>2, <2>3
<1> QED
  BY <1>2 DEF r2

\* A range closed at b accounts for all the bytes below b.
LEMMA CloseAccounts ==
    ASSUME changed \subseteq 1..Size, NEW b \in Nat, NEW d \in Diffs, d.start \in 1..(b - 1),
           d.start..(b - 1) \subseteq changed, Accounted(d, d.start)
    PROVE  Accounted(Closed(d, b), b)
<1> DEFINE more == d.start..(b - 1)
<1>1. Below(b) = Below(d.start) \cup more /\ Below(d.start) \cap more = {}
  BY DEF Below, Diffs
<1>2. IsFiniteSet(Below(d.start)) /\ IsFiniteSet(more) /\ Cardinality(more) = b - d.start
  <2>1. IsFiniteSet(1..(d.start - 1)) /\ Below(d.start) \in SUBSET (1..(d.start - 1))
    BY FS_Interval DEF Below
  <2>2. IsFiniteSet(Below(d.start))
    BY <2>1, FS_Subset
  <2> QED
    BY <2>2, FS_Interval DEF Diffs
<1> HIDE DEF more
<1>3. Cardinality(Below(b)) = Cardinality(Below(d.start)) + (b - d.start)
  <2>1. Cardinality(Below(d.start)) \in Nat /\ Cardinality({}) = 0
    BY <1>2, FS_CardinalityType, FS_EmptySet
  <2>2. Cardinality(Below(d.start) \cup more)
             = Cardinality(Below(d.start)) + Cardinality(more) - Cardinality(Below(d.start) \cap more)
    BY <1>2, FS_Union
  <2>3. Cardinality(Below(b)) = Cardinality(Below(d.start)) + Cardinality(more) - 0
    BY <1>1, <2>1, <2>2
  <2>4. b - d.start \in Int
    BY DEF Diffs
  <2> QED
    BY <1>2, <2>1, <2>3, <2>4
<1>4. Closed(d, b).bytes = Cardinality(Below(b))
  <2>1. Cardinality(Below(d.start)) \in Int /\ d.start \in Int
    BY <1>2, FS_CardinalityType
  <2> QED
    BY <1>3, <2>1 DEF Closed, Accounted
<1>5. CASE Len(d.ranges) < MaxRanges
  <2>1. Closed(d, b).ranges = Append(d.ranges, <<d.start, b>>)
    BY <1>5 DEF Closed
  <2>2. Covered(Closed(d, b).ranges) = Covered(d.ranges) \cup more
    BY <2>1, CoveredGrows DEF Diffs, more
  <2> QED
    BY <1>1, <1>4, <1>5, <2>2 DEF Accounted
<1>6. CASE ~(Len(d.ranges) < MaxRanges)
  <2>1. Closed(d, b).ranges = d.ranges
    BY <1>6 DEF Closed
  <2> QED
    BY <1>1, <1>4, <1>6, <2>1 DEF Accounted
<1> QED
  BY <1>5, <1>6

\* What the scan knows after b bytes.
Reached(d, b) ==
    /\ d \in Diffs
    /\ d.start = 0 => Accounted(d, b + 1)
    /\ d.start # 0 => d.start \in 1..b /\ d.start..b \subseteq changed /\ Accounted(d, d.start)

LEMMA LookReaches ==
    ASSUME changed \subseteq 1..Size, NEW b \in Nat \ {0}, NEW d, Reached(d, b - 1)
    PROVE  Reached(Looked(d, b), b)
<1>1. d \in Diffs /\ Looked(d, b) \in Diffs /\ d.start \in Nat
  BY LookedIsDiff DEF Reached, Diffs
<1>2. CASE b \in changed /\ d.start = 0
  <2>1. /\ Looked(d, b).start = b /\ Looked(d, b).ranges = d.ranges
        /\ Looked(d, b).bytes = d.bytes
    BY <1>1, <1>2 DEF Looked, Diffs
  <2>2. Accounted(d, b) /\ b # 0 /\ b \in 1..b /\ b..b \subseteq changed
    BY <1>2 DEF Reached
  <2> QED
    BY <1>1, <2>1, <2>2 DEF Reached, Accounted
<1>3. CASE b \in changed /\ d.start # 0
  <2>1. Looked(d, b) = d
    BY <1>3 DEF Looked
  <2>2. d.start \in 1..b /\ d.start..b \subseteq changed
    BY <1>3 DEF Reached
  <2> QED
    BY <1>1, <1>3, <2>1, <2>2 DEF Reached
<1>4. CASE b \notin changed
  <2>1. Below(b + 1) = Below(b)
    BY <1>4 DEF Below
  <2>2. Accounted(Looked(d, b), b) /\ Looked(d, b).start = 0
    <3>1. CASE d.start = 0
      BY <1>4, <3>1 DEF Looked, Reached
    <3>2. CASE d.start # 0
      <4>1. Looked(d, b) = Closed(d, b) /\ Closed(d, b).start = 0
        BY <1>4, <3>2 DEF Looked, Closed
      <4>2. d.start \in 1..(b - 1) /\ d.start..(b - 1) \subseteq changed /\ Accounted(d, d.start)
        BY <3>2 DEF Reached
      <4> QED
        BY <1>1, <4>1, <4>2, CloseAccounts
    <3> QED
      BY <3>1, <3>2
  <2> QED
    BY <1>1, <2>1, <2>2 DEF Reached, Accounted
<1> QED
  BY <1>1, <1>2, <1>3, <1>4

LEMMA ScanReaches == ASSUME changed \subseteq 1..Size PROVE Reached(Scan[Size], Size)
<1> DEFINE T == {b \in Nat : b <= Size => Reached(Scan[b], b)}
<1>1. 0 \in T
  <2>1. Below(1) = {} /\ Covered(<<>>) = {}
    BY DEF Below, Covered
  <2>2. Accounted(EmptyDiff, 1)
    BY <2>1, FS_EmptySet DEF Accounted, EmptyDiff
  <2> QED
    BY <2>2, ScanDef, EmptyIsDiff, ShellAssumption DEF Reached, EmptyDiff
<1>2. ASSUME NEW b \in Nat, b \in T PROVE b + 1 \in T
  <2> SUFFICES ASSUME b + 1 <= Size PROVE Reached(Scan[b + 1], b + 1)
    OBVIOUS
  <2>1. Reached(Scan[b], b) /\ b = (b + 1) - 1 /\ b + 1 \in Nat \ {0} /\ b + 1 \in 1..Size
    BY <1>2, ShellAssumption
  <2>2. Scan[b + 1] = Looked(Scan[b], b + 1)
    BY <2>1, ScanDef
  <2>3. Reached(Looked(Scan[b], b + 1), b + 1)
    BY <2>1, LookReaches
  <2> QED
    BY <2>2, <2>3
<1>3. Size \in T
  <2> HIDE DEF T
  <2> QED
    BY <1>1, <1>2, SetInduction, ShellAssumption
<1> QED
  BY <1>3, ShellAssumption

LEMMA DiffFinds == changed \subseteq 1..Size => DiffFindsChanges
<1> SUFFICES ASSUME changed \subseteq 1..Size PROVE DiffFindsChanges
  OBVIOUS
<1>1. Accounted(DiffBuffers, Size + 1)
  <2>1. Reached(Scan[Size], Size) /\ Size + 1 \in Nat /\ (Size + 1) - 1 = Size
    BY ScanReaches, ShellAssumption
  <2>2. CASE Scan[Size].start = 0
    BY <2>1, <2>2 DEF DiffBuffers, Reached
  <2>3. CASE Scan[Size].start # 0
    <3>1. /\ Scan[Size] \in Diffs /\ Scan[Size].start \in 1..((Size + 1) - 1)
          /\ Scan[Size].start..((Size + 1) - 1) \subseteq changed
          /\ Accounted(Scan[Size], Scan[Size].start)
      BY <2>1, <2>3 DEF Reached
    <3> QED
      BY <2>1, <2>3, <3>1, CloseAccounts DEF DiffBuffers
  <2> QED
    BY <2>2, <2>3
<1>2. Below(Size + 1) = changed
  <2>1. (Size + 1) - 1 = Size
    BY ShellAssumption
  <2> QED
    BY <2>1 DEF Below
<1> QED
  BY <1>1, <1>2 DEF DiffFindsChanges, Accounted, Covered

-----------------------------------------------------------------------------
(* What follows.                                                           *)

\* The inductive invariant: the files, the outcome and the trace, with an execve in it last.
RunsInv == FilesInv /\ OutcomeInv /\ TraceInv

THEOREM Invariance == ShellSpec => []RunsInv
<1>1. ShellInit => RunsInv
  BY FilesInitially, OutcomeInitially, TraceInitially DEF ShellInit, Init, RunsInv
<1>2. RunsInv /\ [ShellNext]_allVars => RunsInv'
  <2> SUFFICES ASSUME RunsInv, [ShellNext]_allVars PROVE RunsInv'
    OBVIOUS
  <2>1. FilesInv' /\ OutcomeInv'
    BY FilesStep, OutcomeStep DEF RunsInv
  <2>2. buf \in Data /\ buf' \in Data
    BY <2>1 DEF RunsInv, FilesInv, Files
  <2> QED
    BY <2>1, <2>2, TraceStep DEF RunsInv
<1> QED
  BY <1>1, <1>2, PTL DEF ShellSpec

\* The state of a Linux or shellcode run keeps its shape: descriptors below the next one, the
\* lists that are capped below their cap, a first report exactly on the hybrid backend.
THEOREM TypeCorrect == ShellSpec => []ShellTypeOK
<1>1. RunsInv => ShellTypeOK
  <2> SUFFICES ASSUME RunsInv PROVE ShellTypeOK
    OBVIOUS
  <2>1. \A fd \in DOMAIN fds : /\ fds[fd].kind \in {"stdin", "stdout", "file", "socket", "none"}
                               /\ fds[fd].data \in Seq(Data)
                               /\ fd < nextFd
    BY DEF RunsInv, FilesInv, Files, Kinds
  <2>2. \A l \in Lists \ {"stdout"} : lists[l] \in 0..MaxListed
    BY LinuxAssumption DEF RunsInv, FilesInv, Files
  <2>3. \A k \in DOMAIN events : events[k].data \in Data \cup {None}
    <3>1. events \in Seq(Events)
      BY DEF RunsInv, TraceInv, Trail
    <3>2. \A k \in DOMAIN events : events[k] \in Events
      BY <3>1
    <3> QED
      BY <3>2 DEF Events
  <2>4. LinuxTypeOK
    BY <2>1, <2>2, <2>3 DEF LinuxTypeOK, RunsInv, FilesInv, Files, OutcomeInv, Standing
  <2>5. (first # None) = (backend = "hybrid")
    BY FailuresAssumption DEF RunsInv, OutcomeInv, Standing, Outcome, RefusedRuns
  <2>6. TypeOK
    BY <2>4, <2>5 DEF TypeOK, RunsInv, OutcomeInv, Standing, Results
  <2> QED
    BY <2>6 DEF ShellTypeOK, RunsInv, OutcomeInv, Standing, TraceInv, Trail
<1> QED
  BY <1>1, Invariance, PTL

\* Every byte the guest wrote is accounted for: what was read through a descriptor, and then
\* what its file still holds, is what was written, in order and once each, whatever is
\* opened, copied and closed beside it, but for the bytes the calls drop and are counted
\* (those past a file's cap, of a buffer that cannot be read, or read into NULL); and the
\* diff of the code buffer counts each changed byte once, and lists them all unless there are
\* too many ranges.
THEOREM BytesAreNeverLost == ShellSpec => []BytesAreKept
<1>1. RunsInv => BytesAreKept
  BY DiffFinds DEF RunsInv, FilesInv, OutcomeInv, Standing, BytesAreKept
<1> QED
  BY <1>1, Invariance, PTL

\* What a run leaves behind says what the guest did: each event has its own call's site, the
\* delivered report is the second attempt's exactly if its error is none its harness
\* discards, a second attempt was made for an error its harness retries, and a trap's or an
\* execve's stop is told from an exit.
THEOREM RunsAreExplained == ShellSpec => []ReportsExplained
<1>1. RunsInv => ReportsExplained
  <2> SUFFICES ASSUME RunsInv PROVE ReportsExplained
    OBVIOUS
  <2>1. EventSites
    BY DEF RunsInv, TraceInv
  <2>2. OutcomeExplained(RetryOn, DiscardOn)
    <3>1. first # None => first.status \in RetryOn /\ first.backend = "js"
      BY DEF RunsInv, OutcomeInv, Standing, Outcome, RefusedRuns
    <3> SUFFICES ASSUME delivered # None
                 PROVE  /\ delivered.status = "halted" => ~exited
                        /\ delivered.backend = "hybrid" => delivered.status \notin DiscardOn
                        /\ first # None /\ delivered.backend = "js" =>
                              delivered = first /\ result \in DiscardOn
      BY <3>1 DEF OutcomeExplained
    <3>2. at = "over"
      BY DEF RunsInv, OutcomeInv, Outcome
    <3>3. backend \in {"js", "hybrid"} /\ (backend = "js" => first = None)
      BY DEF RunsInv, OutcomeInv, Standing, Outcome
    <3>4. CASE backend = "hybrid" /\ result \in DiscardOn
      <4>1. delivered = first /\ delivered.backend = "js" /\ delivered.status \in Refusals
        BY <3>2, <3>4 DEF RunsInv, OutcomeInv, Outcome, RefusedRuns
      <4> QED
        BY <4>1, <3>4 DEF Refusals
    <3>5. CASE (backend = "js" \/ result \notin DiscardOn) /\ IsShell
      <4>1. delivered = ShellReport
        BY <3>2, <3>5 DEF RunsInv, OutcomeInv, Outcome
      <4>2. delivered.backend = backend /\ delivered.status = ShellStatus
        BY <4>1 DEF ShellReport
      <4>3. ShellStatus # "halted" /\ (result \notin DiscardOn => ShellStatus \notin DiscardOn)
        BY <3>5 DEF ShellStatus, DiscardOn, ShellDiscardErrors
      <4> QED
        BY <4>2, <4>3, <3>3, <3>5
    <3>6. CASE (backend = "js" \/ result \notin DiscardOn) /\ ~IsShell
      <4>1. delivered = Report
        BY <3>2, <3>6 DEF RunsInv, OutcomeInv, Outcome
      <4>2. delivered.backend = backend /\ delivered.status = Status
        BY <4>1 DEF Report
      <4>3. /\ Status = "halted" => ~exited
            /\ result \notin DiscardOn => Status \notin DiscardOn
        BY <3>6 DEF Status, DiscardOn, DiscardErrors
      <4> QED
        BY <4>2, <4>3, <3>3, <3>6
    <3> QED
      BY <3>3, <3>4, <3>5, <3>6
  <2>3. StopsExplained
    <3>1. IsShell /\ delivered # None /\ delivered.backend = backend /\ result = "halted" =>
             (delivered.status = "ok") = (stopReason = None /\ exited)
      <4> SUFFICES ASSUME IsShell, delivered # None, result = "halted"
                   PROVE  (delivered.status = "ok") = (stopReason = None /\ exited)
        OBVIOUS
      <4>1. delivered = ShellReport
        BY DEF RunsInv, OutcomeInv, Standing, Outcome, DiscardOn, ShellDiscardErrors
      <4> QED
        BY <4>1 DEF ShellReport, ShellStatus
    <3> QED
      BY <3>1 DEF StopsExplained, RunsInv, TraceInv, Replaced
  <2> QED
    BY <2>1, <2>2, <2>3 DEF ReportsExplained, RetryOn, DiscardOn
<1> QED
  BY <1>1, Invariance, PTL

-----------------------------------------------------------------------------
(* The lists of a module's analysis: elements at some places, in order.    *)

\* f lists the places of I below n, m of them, in order.
Counts(f, m, I, n) ==
    /\ m \in Nat /\ f \in [1..m -> I \cap (1..n)]
    /\ \A j, k \in 1..m : j < k => f[j] < f[k]
    /\ \A i \in I \cap (1..n) : \E k \in 1..m : f[k] = i

Takes(t, s, f, m) == Len(t) = m /\ \A k \in 1..m : t[k] = s[f[k]]

LEMMA KeptDef ==
    ASSUME NEW S, NEW s \in Seq(S), NEW I
    PROVE  \E f \in [0..Len(s) -> Seq(S)] :
              /\ f[0] = <<>>
              /\ \A n \in 1..Len(s) : f[n] = IF n \in I THEN Append(f[n - 1], s[n]) ELSE f[n - 1]
              /\ Kept(s, I) = f[Len(s)]
<1> DEFINE N == Len(s)
           T == Seq(S)
           With(t, n) == IF n \in I THEN Append(t, s[n]) ELSE t
           F == [p \in T \X (1..N) |-> With(p[1], p[2])]
           Defines(g) == g = [n \in 0..N |-> IF n = 0 THEN <<>>
                                             ELSE IF n \in I THEN Append(g[n - 1], s[n]) ELSE g[n - 1]]
<1>1. N \in Nat /\ <<>> \in T
  OBVIOUS
<1>2. \A n \in 1..N : \A t \in T : With(t, n) \in T
  OBVIOUS
<1>3. \A n \in 1..N : \A t \in T : F[<<t, n>>] \in T /\ F[<<t, n>>] = With(t, n)
  <2> HIDE DEF T, With
  <2> QED
    BY <1>2
<1>4. PICK g \in [0..N -> T] : Recursive(g, <<>>, N, F)
  <2> HIDE DEF F, N, T
  <2> QED
    BY <1>1, <1>3, RecursionExists
<1>5. \A n \in 0..N : g[n] = IF n = 0 THEN <<>> ELSE With(g[n - 1], n)
  <2> HIDE DEF F, T, With
  <2>1. \A n \in 0..N : n # 0 => n \in 1..N /\ n - 1 \in 0..N
    BY <1>1
  <2>2. \A n \in 0..N : g[n] = IF n = 0 THEN <<>> ELSE F[<<g[n - 1], n>>]
    BY <1>4 DEF Recursive
  <2> QED
    BY <1>3, <1>4, <2>1, <2>2
<1>6. Defines(g)
  BY <1>4, <1>5
<1>7. Kept(s, I) = (CHOOSE f : Defines(f))[N]
  BY DEF Kept
<1>8. PICK f : f = CHOOSE h : Defines(h)
  OBVIOUS
<1>9. Defines(f) /\ Kept(s, I) = f[N]
  BY <1>6, <1>7, <1>8
<1>10. \A n \in 0..N : f[n] = IF n = 0 THEN <<>> ELSE With(f[n - 1], n)
  BY <1>9
<1>11. \A n \in 0..N : f[n] \in T
  <2> DEFINE V == {n \in Nat : n \in 0..N => f[n] \in T}
  <2>1. 0 \in V
    BY <1>1, <1>10
  <2>2. ASSUME NEW n \in Nat, n \in V PROVE n + 1 \in V
    <3> HIDE DEF T, With
    <3> SUFFICES ASSUME n + 1 \in 0..N PROVE f[n + 1] \in T
      OBVIOUS
    <3>1. n \in 0..N /\ f[n] \in T /\ (n + 1) - 1 = n /\ n + 1 \in 1..N /\ n + 1 # 0
      BY <2>2
    <3>2. f[n + 1] = With(f[n], n + 1)
      BY <1>10, <3>1
    <3> QED
      BY <1>2, <3>1, <3>2
  <2>3. Nat \subseteq V
    <3> HIDE DEF V
    <3> QED
      BY <2>1, <2>2, SetInduction
  <2> QED
    BY <2>3, <1>1
<1>12. f \in [0..N -> T]
  <2> HIDE DEF T
  <2> QED
    BY <1>9, <1>11
<1>13. \A n \in 1..N : n \in 0..N /\ n # 0
  BY <1>1
<1>14. f[0] = <<>> /\ \A n \in 1..N : f[n] = With(f[n - 1], n)
  <2> HIDE DEF With
  <2> QED
    BY <1>1, <1>10, <1>13
<1> QED
  BY <1>9, <1>12, <1>14

\* What is kept: the elements at the places, each once and in order.
LEMMA KeptIs ==
    ASSUME NEW S, NEW s \in Seq(S), NEW I \in SUBSET (DOMAIN s)
    PROVE  /\ Kept(s, I) \in Seq(S)
           /\ \E m, f : Counts(f, m, I, Len(s)) /\ Takes(Kept(s, I), s, f, m)
<1> DEFINE N == Len(s)
<1>1. PICK g \in [0..N -> Seq(S)] :
         /\ g[0] = <<>>
         /\ \A n \in 1..N : g[n] = IF n \in I THEN Append(g[n - 1], s[n]) ELSE g[n - 1]
         /\ Kept(s, I) = g[N]
  BY KeptDef
<1> DEFINE V == {n \in Nat : n <= N => \E m, f : Counts(f, m, I, n) /\ Takes(g[n], s, f, m)}
<1>2. 0 \in V
  <2>1. Counts(<<>>, 0, I, 0)
    BY DEF Counts
  <2>2. Takes(g[0], s, <<>>, 0)
    BY <1>1 DEF Takes
  <2> QED
    BY <2>1, <2>2
<1>3. ASSUME NEW n \in Nat, n \in V PROVE n + 1 \in V
  <2> SUFFICES ASSUME n + 1 <= N PROVE \E m, f : Counts(f, m, I, n + 1) /\ Takes(g[n + 1], s, f, m)
    OBVIOUS
  <2>1. n <= N /\ n + 1 \in 1..N /\ n \in 0..N /\ (n + 1) - 1 = n /\ g[n] \in Seq(S)
    OBVIOUS
  <2>2. PICK m, f : Counts(f, m, I, n) /\ Takes(g[n], s, f, m)
    BY <1>3, <2>1
  <2>3. g[n + 1] = IF n + 1 \in I THEN Append(g[n], s[n + 1]) ELSE g[n]
    BY <1>1, <2>1
  <2>4. CASE n + 1 \notin I
    <3>1. I \cap (1..(n + 1)) = I \cap (1..n)
      BY <2>4
    <3>2. Counts(f, m, I, n + 1)
      BY <2>2, <3>1 DEF Counts
    <3> QED
      BY <2>2, <2>3, <2>4, <3>2
  <2>5. CASE n + 1 \in I
    <3> DEFINE h == [k \in 1..(m + 1) |-> IF k = m + 1 THEN n + 1 ELSE f[k]]
    <3>1. /\ m \in Nat /\ f \in [1..m -> I \cap (1..n)]
          /\ \A j, k \in 1..m : j < k => f[j] < f[k]
          /\ \A i \in I \cap (1..n) : \E k \in 1..m : f[k] = i
      BY <2>2 DEF Counts
    <3>2. /\ h[m + 1] = n + 1 /\ \A k \in 1..m : h[k] = f[k] /\ k \in 1..(m + 1)
          /\ \A k \in 1..(m + 1) : k # m + 1 => k \in 1..m
      BY <3>1
    <3>3. \A k \in 1..m : f[k] \in I /\ f[k] \in 1..n
      BY <3>1
    <3>4. h \in [1..(m + 1) -> I \cap (1..(n + 1))]
      BY <3>3, <2>5, <3>1
    <3>5. \A j, k \in 1..(m + 1) : j < k => h[j] < h[k]
      <4> HIDE DEF h
      <4> SUFFICES ASSUME NEW j \in 1..(m + 1), NEW k \in 1..(m + 1), j < k PROVE h[j] < h[k]
        OBVIOUS
      <4>1. j \in 1..m
        BY <3>1
      <4>2. CASE k = m + 1
        BY <3>2, <3>3, <4>1, <4>2
      <4>3. CASE k # m + 1
        BY <3>1, <3>2, <4>1, <4>3
      <4> QED
        BY <4>2, <4>3
    <3>6. \A i \in I \cap (1..(n + 1)) : \E k \in 1..(m + 1) : h[k] = i
      <4> HIDE DEF h
      <4> SUFFICES ASSUME NEW i \in I \cap (1..(n + 1)) PROVE \E k \in 1..(m + 1) : h[k] = i
        OBVIOUS
      <4>1. CASE i = n + 1
        BY <3>1, <3>2, <4>1
      <4>2. CASE i # n + 1
        <5>1. i \in I \cap (1..n)
          BY <4>2
        <5> QED
          BY <3>1, <3>2, <5>1
      <4> QED
        BY <4>1, <4>2
    <3>7. Counts(h, m + 1, I, n + 1)
      <4> HIDE DEF h
      <4> QED
        BY <3>1, <3>4, <3>5, <3>6 DEF Counts
    <3>8. Len(g[n]) = m /\ \A k \in 1..m : g[n][k] = s[f[k]]
      BY <2>2 DEF Takes
    <3>9. s[n + 1] \in S
      BY <2>1
    <3>10. /\ Len(g[n + 1]) = m + 1 /\ g[n + 1][m + 1] = s[n + 1]
           /\ \A k \in 1..m : g[n + 1][k] = g[n][k]
      BY <2>1, <2>3, <2>5, <3>8, <3>9, AppendProperties
    <3>11. Takes(g[n + 1], s, h, m + 1)
      <4> HIDE DEF h
      <4> QED
        BY <3>2, <3>8, <3>10 DEF Takes
    <3> HIDE DEF h
    <3> QED
      BY <3>7, <3>11
  <2> QED
    BY <2>4, <2>5
<1>4. Nat \subseteq V
  <2> HIDE DEF V
  <2> QED
    BY <1>2, <1>3, SetInduction
<1>5. N \in Nat /\ N \in V /\ N \in 0..N
  BY <1>4
<1> QED
  BY <1>1, <1>5
-----------------------------------------------------------------------------
(* The invariant of a module's analysis: what the kernel's logs, the kernel's *)
(* stop, the two reports, the campaign and the drive say at each point.       *)

\* The parts of the kernel, of the report and of the campaign, by name.
KLog == kernel.log
KExc == kernel.exc
Dead == kernel.dead
Cpu == kernel.cpu
RInit == report.init
RError == report.error
RLog == report.log
RExc == report.exc
Bug == report.bugcheck
AutoOps == report.auto
Sent == report.ops
Cleaned == report.cleanup
Found == report.harvested
By == report.engine
CampPc == camp.pc
CampOp == camp.op
CampEntries == camp.corpus
CampDone == camp.done

Driving == {"open", "canned", "campaigns", "fuzz", "concolic", "release", "driven"}
Turns == {"load", "init", "deferred", "harvest", "explicit", "over", "delivered"} \cup Driving

Kernels ==
    [log : Seq(Steps), exc : Seq(Steps), dead : {Nothing} \cup Stops, cpu : {"own", "concolic"}]
Outcomes ==
    [op : Ops \cup {"open", "release"}, res : {"ok", "fault", "ran"},
     by : {"open", "canned", "seed", "fuzz", "concolic", "summary", "release"}]
KoReports ==
    [init : {Nothing, "ok", "fault"}, error : {Nothing} \cup Errors, log : Seq(Steps), exc : Seq(Steps),
     bugcheck : {Nothing} \cup Stops, harvested : Seq(Ops), auto : Seq(Outcomes), ops : Seq(Statuses),
     cleanup : {Nothing} \cup Statuses, engine : {"js", "hybrid"}]

KoTyped ==
    /\ phase \in Turns /\ opts \in Options /\ engine \in {"js", "hybrid"}
    /\ image \in [init : BOOLEAN, cleanup : BOOLEAN]
    /\ kernel \in Kernels /\ report \in KoReports
    /\ By = engine /\ (RInit = "fault" <=> RError # Nothing)
    /\ left \in 0..opts.explicit
    /\ logged \in Seq(Steps) /\ killer \in Steps \cup {Nothing}
    /\ Len(KLog) <= MaxLog /\ Len(RExc \o KExc) <= MaxLog

\* The records: what is in the report and what is still in the kernel.
LogsSpliced ==
    /\ RLog \o KLog = logged
    /\ phase \notin Driving \cup {"delivered"} => KLog = <<>>
    /\ phase \notin Driving \cup {"over", "delivered"} => Phases(KExc) \subseteq {"deferred"}
    /\ phase = "over" => Phases(KExc) \subseteq {"deferred", "cleanup"}

\* The stop: who stopped the kernel, and whether the report says so.
StopsKnown ==
    /\ killer = Nothing <=> Dead = Nothing
    /\ Bug \in {Nothing, Dead}
    /\ phase \in {"load", "init", "deferred"} => Dead = Nothing
    /\ phase = "harvest" => Bug = Dead \/ killer = "deferred"
    /\ phase \in Driving \cup {"deferred"} => RInit = "ok" /\ Bug = Nothing
    /\ phase \in {"explicit", "over"} => Bug = Dead \/ killer \in {"deferred", "explicit", "cleanup"}
    /\ killer = "init" => Bug # Nothing /\ AutoOps = <<>>
    /\ phase \in {"load", "init", "deferred", "harvest", "open"} => AutoOps = <<>>
    /\ phase \in {"load", "init", "deferred", "harvest"} \cup Driving => Sent = <<>>
    /\ phase \notin {"over", "delivered"} => Cleaned = Nothing
    /\ Bug # Nothing => Sent = <<>> /\ Cleaned = Nothing

\* The attempts: why there is a second one, and which one is delivered.
AttemptsKnown ==
    /\ engine = "hybrid" => /\ firstReport \in KoReports /\ firstReport.engine = "js"
                            /\ Refused(firstReport)
    /\ phase = "delivered" =>
          \/ engine = "js" /\ answer = Thrown
          \/ engine = "js" /\ answer = report /\ ~(opts.fallback /\ Refused(report))
          \/ engine = "hybrid" /\ answer = report /\ KeepsSecond(report)
          \/ engine = "hybrid" /\ answer = firstReport

\* The campaign: of the operation whose turn it is, on a kernel that runs; fuzzing fills the
\* corpus with inputs that ran, and a concolic campaign after it starts from one at least.
Executed == [buf : Inputs, res : {"ran"}, by : {"seed", "fuzz", "concolic"}]
FuzzCamp ==
    /\ opts.auto \in {"fuzz", "both"} /\ CampPc \in {"seed", "loop"} /\ Len(CampEntries) <= Cap
    /\ CampEntries \in Seq(Executed)
    /\ CampPc = "seed" => Len(CampEntries) < Cap /\ CampDone < SeedCount
    /\ CampPc = "loop" => CampEntries # <<>>
ConcolicCamp ==
    /\ opts.auto \in {"concolic", "both"} /\ CampPc \in {"queue", "flip"}
    /\ opts.auto = "both" => CampEntries # <<>> /\ CampEntries[1].res = "ran"
CampKnown ==
    /\ phase \notin {"fuzz", "concolic"} => camp = Nothing
    /\ phase \in {"fuzz", "concolic"} =>
          camp \in Campaigns(Ops) /\ Dead = Nothing /\ todo # <<>> /\ CampOp = Head(todo)
    /\ phase = "fuzz" => FuzzCamp
    /\ phase = "concolic" => ConcolicCamp
    /\ Cpu = "concolic" <=> phase = "concolic"

ReportsInv == KoTyped /\ LogsSpliced /\ StopsKnown /\ AttemptsKnown /\ CampKnown

\* The drive: what is left to be driven is the end of what was chosen, the operations
\* before it have had their turn.
Chosen == Unique(Found)
Done == Len(Chosen) - Len(todo)
Turning == {"canned", "campaigns", "fuzz", "concolic"}

TodoKnown ==
    /\ todo \in Seq(Ops) /\ pattern \in 0..(Patterns - 1)
    /\ phase \in Turning => /\ Len(todo) <= Len(Chosen)
                            /\ \A i \in 1..Len(todo) : todo[i] = Chosen[Done + i]
    /\ phase \in Turning \ {"canned"} => pattern = 0
    /\ phase = "canned" => opts.auto = "canned" /\ (todo = <<>> => pattern = 0)
    /\ phase \in {"campaigns", "fuzz", "concolic"} => opts.auto # "canned"
    /\ phase = "release" => opts.auto = "canned"
    /\ phase \in Driving => opts.auto # "off"

\* The order of the results.
OpenFirst(a) == \A i \in DOMAIN a : a[i].by = "open" <=> i = 1
ReleaseLast(a) == \A i \in DOMAIN a : a[i].by = "release" => i = Len(a)
NoRelease(a) == \A i \in DOMAIN a : a[i].by # "release"

OrderKnown ==
    /\ OpenFirst(AutoOps) /\ ReleaseLast(AutoOps)
    /\ phase \in Turning \cup {"release"} => AutoOps # <<>> /\ NoRelease(AutoOps)
    /\ \A i \in Between(AutoOps) : AutoOps[i].op \in ToSet(Chosen)
    /\ \A i, j \in Between(AutoOps) : i < j => PlaceOf(AutoOps[i].op) <= PlaceOf(AutoOps[j].op)
    /\ phase \in Turning => \A i \in Between(AutoOps) : PlaceOf(AutoOps[i].op) <= Done + 1

\* What a stopped kernel was sent.
SentDeadKnown ==
    /\ killer = Nothing => sentDead = <<>>
    /\ killer \in {"open", "canned", "release"} =>
          /\ phase \in {"canned", "campaigns"} => sentDead = <<>> /\ killer = "open"
          /\ phase = "release" => sentDead \in {<<>>, <<"canned">>}
          /\ sentDead \in {<<>>, <<"canned">>, <<"release">>, <<"canned", "release">>}
          /\ phase \in Driving \cup {"explicit", "over", "delivered"} /\ phase # "open"
          /\ phase \in {"explicit", "over"} => Bug # Nothing
    /\ phase \in Driving => killer \in {Nothing, "deferred", "open", "canned", "release"}

\* How many results each operation has.
ResultCount(p) == Cardinality(ResultsOf(Chosen[p], AutoOps))
Faulted == \E i \in Between(AutoOps) : AutoOps[i].res = "fault"
AllCounted ==
    /\ opts.auto = "canned" => Faulted \/ \A p \in 1..Len(Chosen) : ResultCount(p) = Patterns
    /\ opts.auto \in {"fuzz", "both"} =>
          \A p \in 1..Len(Chosen) : ResultCount(p) \in 1..(MaxResults + 1)
CountsKnown ==
    /\ phase = "canned" => \A p \in 1..Len(Chosen) :
          ResultCount(p) = IF p <= Done THEN Patterns ELSE IF p = Done + 1 THEN pattern ELSE 0
    /\ phase \in {"campaigns", "fuzz", "concolic"} /\ opts.auto # "concolic" =>
          \A p \in 1..Len(Chosen) :
             IF p <= Done THEN ResultCount(p) \in 1..(MaxResults + 1) ELSE ResultCount(p) = 0
    /\ phase = "release" => Faulted
    /\ phase = "driven" /\ killer = Nothing => AllCounted

DriveInv == TodoKnown /\ OrderKnown /\ SentDeadKnown /\ CountsKnown

LEMMA NothingIs ==
    /\ Nothing \notin Errors /\ Nothing \notin Stops /\ Nothing \notin Statuses /\ Nothing \notin Steps
    /\ Nothing # "ran" /\ Nothing # "ok" /\ Nothing # "fault"
  BY NothingAssumption DEF Statuses

\* A report into which logs have been moved, and one that says whether the kernel stopped.
LEMMA PartsTyped ==
    ASSUME KoTyped
    PROVE  /\ KLog \in Seq(Steps) /\ KExc \in Seq(Steps) /\ Dead \in {Nothing} \cup Stops
           /\ Cpu \in {"own", "concolic"}
           /\ RInit \in {Nothing, "ok", "fault"} /\ RError \in {Nothing} \cup Errors
           /\ RLog \in Seq(Steps) /\ RExc \in Seq(Steps) /\ Bug \in {Nothing} \cup Stops
           /\ Found \in Seq(Ops) /\ AutoOps \in Seq(Outcomes) /\ Sent \in Seq(Statuses)
           /\ Cleaned \in {Nothing} \cup Statuses /\ By \in {"js", "hybrid"}
           /\ MaxLog \in Nat /\ opts.explicit \in Nat
<1>1. kernel \in Kernels /\ report \in KoReports /\ opts \in Options
  BY DEF KoTyped
<1>2. /\ KLog \in Seq(Steps) /\ KExc \in Seq(Steps) /\ Dead \in {Nothing} \cup Stops
      /\ Cpu \in {"own", "concolic"}
  BY <1>1 DEF Kernels, KLog, KExc, Dead, Cpu
<1>3. /\ RInit \in {Nothing, "ok", "fault"} /\ RError \in {Nothing} \cup Errors
      /\ RLog \in Seq(Steps) /\ RExc \in Seq(Steps) /\ Bug \in {Nothing} \cup Stops
      /\ Found \in Seq(Ops) /\ AutoOps \in Seq(Outcomes) /\ Sent \in Seq(Statuses)
      /\ Cleaned \in {Nothing} \cup Statuses /\ By \in {"js", "hybrid"}
  BY <1>1 DEF KoReports, RInit, RError, RLog, RExc, Bug, Found, AutoOps, Sent, Cleaned, By
<1>4. MaxLog \in Nat /\ opts.explicit \in Nat
  BY <1>1, ModuleAssumption
<1> QED
  BY <1>2, <1>3, <1>4

LEMMA SplicedIs ==
    ASSUME NEW r \in KoReports, NEW l \in Seq(Steps), NEW x \in Seq(Steps)
    PROVE  LET q == Spliced(r, l, x) IN
           /\ q \in KoReports /\ q.log = r.log \o l /\ q.exc = r.exc \o x
           /\ q.init = r.init /\ q.error = r.error /\ q.bugcheck = r.bugcheck /\ q.engine = r.engine
           /\ q.harvested = r.harvested /\ q.auto = r.auto /\ q.ops = r.ops /\ q.cleanup = r.cleanup
<1>1. r.log \o l \in Seq(Steps) /\ r.exc \o x \in Seq(Steps)
  BY DEF KoReports
<1> QED
  BY <1>1 DEF Spliced, KoReports

LEMMA BugcheckedIs ==
    ASSUME NEW r \in KoReports, NEW d \in {Nothing} \cup Stops
    PROVE  LET q == Bugchecked(r, d) IN
           /\ q \in KoReports /\ q.bugcheck = IF d # Nothing THEN d ELSE r.bugcheck
           /\ q.init = r.init /\ q.error = r.error /\ q.log = r.log /\ q.exc = r.exc /\ q.engine = r.engine
           /\ q.harvested = r.harvested /\ q.auto = r.auto /\ q.ops = r.ops /\ q.cleanup = r.cleanup
  BY DEF Bugchecked, KoReports

LEMMA DrainedIs ==
    ASSUME NEW k \in Kernels
    PROVE  /\ Drained(k) \in Kernels /\ Drained(k).log = <<>> /\ Drained(k).exc = <<>>
           /\ Drained(k).dead = k.dead /\ Drained(k).cpu = k.cpu
<1> DEFINE e == <<>>
           q == [k EXCEPT !.log = e, !.exc = e]
<1>1. e \in Seq(Steps) /\ Drained(k) = q
  BY DEF Drained
<1> HIDE DEF e
<1>2. q \in Kernels /\ q.log = e /\ q.exc = e /\ q.dead = k.dead /\ q.cpu = k.cpu
  BY <1>1 DEF Kernels
<1> QED
  BY <1>1, <1>2 DEF e

LEMMA EndIsAdded ==
    ASSUME NEW S, NEW s \in Seq(S), NEW t \in Seq(S)
    PROVE  SubSeq(s \o t, Len(s) + 1, Len(s \o t)) = t
<1> DEFINE a == s \o t
           u == SubSeq(a, Len(s) + 1, Len(a))
<1>1. /\ a \in Seq(S) /\ Len(a) = Len(s) + Len(t) /\ Len(s) \in Nat /\ Len(t) \in Nat
      /\ \A i \in 1..(Len(s) + Len(t)) : a[i] = IF i <= Len(s) THEN s[i] ELSE t[i - Len(s)]
  BY ConcatProperties
<1> HIDE DEF a
<1>2. \A i \in (Len(s) + 1)..Len(a) : a[i] \in S
  BY <1>1
<1>3. /\ u \in Seq(S)
      /\ Len(u) = IF Len(s) + 1 <= Len(a) THEN Len(a) - (Len(s) + 1) + 1 ELSE 0
      /\ \A i \in 1..(Len(a) - (Len(s) + 1) + 1) : u[i] = a[(Len(s) + 1) + i - 1]
  BY <1>1, <1>2, SubSeqProperties
<1> HIDE DEF u
<1>4. Len(u) = Len(t)
  BY <1>1, <1>3
<1>5. ASSUME NEW i \in 1..Len(u) PROVE u[i] = t[i]
  <2>1. /\ i \in 1..(Len(a) - (Len(s) + 1) + 1) /\ (Len(s) + 1) + i - 1 = Len(s) + i
        /\ Len(s) + i \in 1..(Len(s) + Len(t)) /\ ~(Len(s) + i <= Len(s)) /\ (Len(s) + i) - Len(s) = i
    BY <1>1, <1>4
  <2> QED
    BY <1>1, <1>3, <2>1
<1>6. u = t
  BY <1>3, <1>4, <1>5, SeqEqual
<1> QED
  BY <1>6 DEF u, a

LEMMA OneMore ==
    ASSUME NEW s \in Seq(Steps), NEW x \in Steps, NEW t \in {s, Append(s, x)}
    PROVE  /\ t \in Seq(Steps)
           /\ Phases(t) \subseteq Phases(s) \cup {x}
<1>1. CASE t = s
  BY <1>1 DEF Phases
<1>2. CASE t = Append(s, x)
  <2>1. t \in Seq(Steps)
    BY <1>2
  <2>2. Phases(t) \subseteq Phases(s) \cup {x}
    BY <1>2 DEF Phases
  <2> QED
    BY <2>1, <2>2
<1> QED
  BY <1>1, <1>2

\* A call into the module: at most one record more in each log, and the kernel stays
\* stopped if it was.
LEMMA CallReturns ==
    ASSUME NEW k \in Kernels, NEW ph \in Steps, NEW l \in Ran(k, ph)
    PROVE  /\ l \in Kernels /\ l.cpu = k.cpu
           /\ \E t \in Seq(Steps) : l.log = k.log \o t
           /\ Phases(l.exc) \subseteq Phases(k.exc) \cup {ph}
           /\ k.dead # Nothing => l.dead = k.dead
<1> DEFINE a == k.log
           b == k.exc
           m == k.dead
           u == k.cpu
<1>1. a \in Seq(Steps) /\ b \in Seq(Steps) /\ m \in {Nothing} \cup Stops /\ u \in {"own", "concolic"}
  BY DEF Kernels
<1>2. PICK c \in {a, Append(a, ph)}, d \in {b, Append(b, ph)},
           n \in (IF m = Nothing THEN {Nothing} \cup Stops ELSE {m}) :
         l = [log |-> c, exc |-> d, dead |-> n, cpu |-> u]
  BY DEF Ran
<1> HIDE DEF a, b, m, u
<1>3. c \in Seq(Steps) /\ \E t \in Seq(Steps) : c = a \o t
  <2>1. c \in {a, Append(a, ph)} /\ a \in Seq(Steps)
    BY <1>1
  <2>2. \E v \in Seq(Steps) : c = a \o v
    <3>1. CASE c = a
      BY <2>1, <3>1, ConcatEmptySeq, EmptySeq
    <3>2. CASE c = Append(a, ph)
      <4>1. c = a \o <<ph>> /\ <<ph>> \in Seq(Steps)
        BY <2>1, <3>2
      <4> QED
        BY <4>1
    <3> QED
      BY <2>1, <3>1, <3>2
  <2>3. c \in Seq(Steps)
    BY <2>1, OneMore
  <2> QED
    BY <2>2, <2>3
<1>4. d \in Seq(Steps) /\ Phases(d) \subseteq Phases(b) \cup {ph}
  <2>1. d \in {b, Append(b, ph)} /\ b \in Seq(Steps)
    BY <1>1
  <2> QED
    BY <2>1, OneMore
<1>5. n \in {Nothing} \cup Stops /\ (m # Nothing => n = m)
  BY <1>1
<1>6. l \in Kernels
  BY <1>1, <1>2, <1>3, <1>4, <1>5 DEF Kernels
<1> QED
  BY <1>2, <1>3, <1>4, <1>5, <1>6 DEF a, b, m, u

\* What the history keeps of a call, and how the kernel is left.
LEMMA CallNoted ==
    ASSUME KoTyped, LogsSpliced, StopsKnown, NEW ph \in Steps, NEW who \in Steps,
           NEW k \in Ran(kernel, ph), Noted(k, who)
    PROVE  \E l \in Seq(Steps), x \in Seq(Steps), d \in {Nothing} \cup Stops :
           /\ k \in Kernels /\ k.log = l /\ k.exc = x /\ k.dead = d /\ k.cpu = Cpu
           /\ RLog \o l = logged' /\ logged' \in Seq(Steps)
           /\ Len(l) <= MaxLog /\ Len(RExc \o x) <= MaxLog
           /\ Phases(x) \subseteq Phases(KExc) \cup {ph}
           /\ Dead # Nothing => d = Dead
           /\ killer' = IF Dead = Nothing /\ d # Nothing THEN who ELSE killer
           /\ killer' = Nothing <=> d = Nothing
           /\ killer' \in Steps \cup {Nothing}
           /\ sentDead' = IF Dead = Nothing THEN sentDead ELSE Append(sentDead, who)
<1>1. kernel \in Kernels
  BY DEF KoTyped
<1>2. /\ k \in Kernels /\ k.cpu = Cpu
      /\ \E t \in Seq(Steps) : k.log = KLog \o t
      /\ Phases(k.exc) \subseteq Phases(KExc) \cup {ph}
      /\ Dead # Nothing => k.dead = Dead
  BY <1>1, CallReturns DEF Cpu, KLog, KExc, Dead
<1>3. PICK c \in Seq(Steps), x \in Seq(Steps), e \in {Nothing} \cup Stops :
         c = k.log /\ x = k.exc /\ e = k.dead
  BY <1>2 DEF Kernels
<1>4. /\ logged' = logged \o SubSeq(c, Len(KLog) + 1, Len(c))
      /\ Len(logged') <= MaxLog /\ Len(RExc \o x) <= MaxLog
      /\ killer' = IF Dead = Nothing /\ e # Nothing THEN who ELSE killer
      /\ sentDead' = IF Dead = Nothing THEN sentDead ELSE Append(sentDead, who)
  BY <1>3 DEF Noted, KLog, RExc, Dead
<1>5. /\ RLog \in Seq(Steps) /\ KLog \in Seq(Steps) /\ logged = RLog \o KLog /\ MaxLog \in Nat
      /\ killer \in Steps \cup {Nothing} /\ who # Nothing /\ (killer = Nothing <=> Dead = Nothing)
  BY NothingIs, PartsTyped DEF LogsSpliced, StopsKnown, KoTyped
<1>6. PICK t \in Seq(Steps) : c = KLog \o t
  BY <1>2, <1>3
<1>7. SubSeq(c, Len(KLog) + 1, Len(c)) = t
  BY <1>5, <1>6, EndIsAdded
<1>8. logged' = RLog \o c
  <2>1. (RLog \o KLog) \o t = RLog \o (KLog \o t)
    BY <1>5, ConcatAssociative
  <2> QED
    BY <1>4, <1>5, <1>6, <1>7, <2>1
<1>9. logged' \in Seq(Steps) /\ Len(logged') = Len(RLog) + Len(c)
  BY <1>5, <1>8, ConcatProperties
<1>10. Len(c) <= MaxLog
  <2>1. Len(c) \in Nat /\ Len(RLog) \in Nat /\ MaxLog \in Nat
    BY <1>3, <1>5
  <2>2. Len(logged') <= MaxLog /\ Len(logged') = Len(RLog) + Len(c)
    BY <1>4, <1>9
  <2> QED
    BY <2>1, <2>2
<1>11. /\ killer' = Nothing <=> e = Nothing
       /\ killer' \in Steps \cup {Nothing}
       /\ Dead # Nothing => e = Dead
       /\ Phases(x) \subseteq Phases(KExc) \cup {ph}
  BY <1>2, <1>3, <1>4, <1>5
<1> QED
  BY <1>2, <1>3, <1>4, <1>8, <1>9, <1>10, <1>11

LEMMA ReportsInitially == KoInit => ReportsInv
<1> SUFFICES ASSUME KoInit PROVE ReportsInv
  OBVIOUS
<1>1. /\ phase = "load" /\ opts \in Options /\ engine = "js" /\ image \in [init : BOOLEAN, cleanup : BOOLEAN]
      /\ kernel = FreshKernel /\ report = FreshReport /\ left = 0 /\ camp = Nothing
      /\ logged = <<>> /\ killer = Nothing
  BY DEF KoInit
<1>2. FreshKernel \in Kernels /\ FreshReport \in KoReports
  BY DEF FreshKernel, Kernels, FreshReport, KoReports
<1>3. /\ KLog = <<>> /\ KExc = <<>> /\ Dead = Nothing /\ Cpu = "own"
      /\ RLog = <<>> /\ RExc = <<>> /\ Bug = Nothing /\ AutoOps = <<>>
      /\ Sent = <<>> /\ Cleaned = Nothing /\ By = "js" /\ RInit = Nothing /\ RError = Nothing
  BY <1>1 DEF FreshKernel, FreshReport, KLog, KExc, Dead, Cpu, RLog, RExc, Bug, AutoOps, Sent, Cleaned, By, RInit, RError
<1>4. opts.explicit \in Nat /\ MaxLog \in Nat
  BY <1>1, ModuleAssumption
<1>5. <<>> \o <<>> = <<>> /\ Len(<<>>) = 0 /\ Phases(<<>>) = {}
  BY DEF Phases
<1>6. KoTyped
  BY <1>1, <1>2, <1>3, <1>4, <1>5, NothingIs DEF KoTyped, Turns
<1>7. LogsSpliced
  BY <1>1, <1>3, <1>5 DEF LogsSpliced
<1>8. StopsKnown
  <2>1. killer # "init"
    BY <1>1, NothingIs DEF Steps
  <2> QED
    BY <1>1, <1>3, <2>1 DEF StopsKnown, Driving
<1>9. AttemptsKnown /\ CampKnown
  BY <1>1, <1>3 DEF AttemptsKnown, CampKnown
<1> QED
  BY <1>6, <1>7, <1>8, <1>9 DEF ReportsInv

\* The attempts do not change before the analysis of one of them is over.
LEMMA SameAttempt ==
    ASSUME AttemptsKnown, phase' # "delivered", UNCHANGED <<engine, firstReport>>
    PROVE  AttemptsKnown'
  BY DEF AttemptsKnown

\* Without a campaign before and after there is nothing to know about one.
LEMMA SameCamp ==
    ASSUME CampKnown, UNCHANGED <<camp, Cpu>>, {phase, phase'} \cap {"fuzz", "concolic"} = {}
    PROVE  CampKnown'
  BY DEF CampKnown

LEMMA LoadFailsKeeps == ASSUME ReportsInv, LoadFails PROVE ReportsInv'
<1>1. PICK e \in Errors : report' = [report EXCEPT !.init = "fault", !.error = e]
  BY DEF LoadFails
<1>2. /\ phase = "load" /\ phase' = "over"
      /\ UNCHANGED <<kernel, camp, opts, engine, image, left, firstReport, logged, killer>>
  BY DEF LoadFails, Unloaded, history
<1>3. KoTyped /\ LogsSpliced /\ StopsKnown /\ AttemptsKnown /\ CampKnown
  BY DEF ReportsInv
<1>4. report' \in KoReports /\ RInit' = "fault" /\ RError' # Nothing
  BY <1>1, <1>3, NothingIs DEF KoTyped, KoReports, RInit, RError
<1>5. UNCHANGED <<RLog, RExc, Bug, AutoOps, Sent, Cleaned, By>>
  BY <1>1, <1>3 DEF KoTyped, KoReports, RLog, RExc, Bug, AutoOps, Sent, Cleaned, By
<1>6. UNCHANGED <<KLog, KExc, Dead, Cpu>>
  BY <1>2 DEF KLog, KExc, Dead, Cpu
<1>7. KoTyped'
  BY <1>2, <1>3, <1>4, <1>5, <1>6 DEF KoTyped, Turns
<1>8. LogsSpliced'
  BY <1>2, <1>3, <1>5, <1>6 DEF LogsSpliced, Driving
<1>9. StopsKnown'
  BY <1>2, <1>3, <1>5, <1>6 DEF StopsKnown, Driving
<1> QED
  BY <1>2, <1>3, <1>6, <1>7, <1>8, <1>9, SameAttempt, SameCamp DEF ReportsInv

LEMMA LoadKeeps == ASSUME ReportsInv, Load PROVE ReportsInv'
<1>1. /\ phase = "load" /\ phase' = "init"
      /\ UNCHANGED <<report, kernel, camp, opts, engine, image, left, firstReport, logged, killer>>
  BY DEF Load, Unloaded, history
<1>2. KoTyped /\ LogsSpliced /\ StopsKnown /\ AttemptsKnown /\ CampKnown
  BY DEF ReportsInv
<1>3. /\ UNCHANGED <<RInit, RError, RLog, RExc, Bug, AutoOps, Sent, Cleaned, By>>
      /\ UNCHANGED <<KLog, KExc, Dead, Cpu>>
  BY <1>1 DEF RInit, RError, RLog, RExc, Bug, AutoOps, Sent, Cleaned, By, KLog, KExc, Dead, Cpu
<1>4. KoTyped'
  BY <1>1, <1>2, <1>3 DEF KoTyped, Turns
<1>5. LogsSpliced' /\ StopsKnown'
  BY <1>1, <1>2, <1>3 DEF LogsSpliced, Driving, StopsKnown
<1> QED
  BY <1>1, <1>2, <1>3, <1>4, <1>5, SameAttempt, SameCamp DEF ReportsInv

LEMMA RunInitKeeps ==
    ASSUME ReportsInv, RunInit
    PROVE  /\ ReportsInv' /\ AutoOps' = AutoOps /\ phase' \in {"deferred", "harvest"}
           /\ killer' \in {killer, "init"} /\ sentDead' = sentDead
<1>1. KoTyped /\ LogsSpliced /\ StopsKnown /\ AttemptsKnown /\ CampKnown
  BY DEF ReportsInv
<1>2. /\ phase = "init" /\ phase' = IF GoesOn(report') THEN "deferred" ELSE "harvest"
      /\ UNCHANGED <<camp, opts, engine, image, left, firstReport>>
  BY DEF RunInit
<1>3. PICK k \in Ran(kernel, "init"), e \in {Nothing} \cup Errors :
         /\ report' = Bugchecked(Spliced([report EXCEPT !.init = IF e = Nothing THEN "ok" ELSE "fault",
                                                        !.error = e], k.log, k.exc), k.dead)
         /\ kernel' = Drained(k) /\ Noted(k, "init")
  BY DEF RunInit
<1>4. PICK l \in Seq(Steps), x \in Seq(Steps), d \in {Nothing} \cup Stops :
         /\ k \in Kernels /\ k.log = l /\ k.exc = x /\ k.dead = d /\ k.cpu = Cpu
         /\ RLog \o l = logged' /\ logged' \in Seq(Steps)
         /\ Len(l) <= MaxLog /\ Len(RExc \o x) <= MaxLog
         /\ Phases(x) \subseteq Phases(KExc) \cup {"init"}
         /\ Dead # Nothing => d = Dead
         /\ killer' = IF Dead = Nothing /\ d # Nothing THEN "init" ELSE killer
         /\ killer' = Nothing <=> d = Nothing
         /\ killer' \in Steps \cup {Nothing}
         /\ sentDead' = IF Dead = Nothing THEN sentDead ELSE Append(sentDead, "init")
  <2>1. "init" \in Steps
    BY DEF Steps
  <2> QED
    BY <1>1, <1>3, <2>1, CallNoted
<1>5. PICK i \in {"ok", "fault"} : i = IF e = Nothing THEN "ok" ELSE "fault"
  OBVIOUS
<1>6. PICK r : r = [report EXCEPT !.init = i, !.error = e]
  OBVIOUS
<1>7. /\ r \in KoReports /\ r.init = i /\ r.error = e
      /\ r.log = RLog /\ r.exc = RExc /\ r.bugcheck = Bug /\ r.engine = By /\ r.auto = AutoOps
      /\ r.ops = Sent /\ r.cleanup = Cleaned
  BY <1>1, <1>6 DEF KoTyped, KoReports, RLog, RExc, Bug, By, AutoOps, Sent, Cleaned
<1>8. PICK s : s = Spliced(r, l, x)
  OBVIOUS
<1>9. /\ s \in KoReports /\ s.init = i /\ s.error = e
      /\ s.log = RLog \o l /\ s.exc = RExc \o x /\ s.bugcheck = Bug /\ s.engine = By /\ s.auto = AutoOps
      /\ s.ops = Sent /\ s.cleanup = Cleaned
  BY <1>7, <1>8, SplicedIs
<1>10. report' = Bugchecked(s, d)
  BY <1>3, <1>4, <1>5, <1>6, <1>8
<1>11. /\ report' \in KoReports /\ RInit' = i /\ RError' = e
       /\ RLog' = RLog \o l /\ RExc' = RExc \o x /\ Bug' = (IF d # Nothing THEN d ELSE Bug)
       /\ By' = By /\ AutoOps' = AutoOps /\ Sent' = Sent /\ Cleaned' = Cleaned
  BY <1>9, <1>10, BugcheckedIs DEF RInit, RError, RLog, RExc, Bug, By, AutoOps, Sent, Cleaned
<1>12. kernel' \in Kernels /\ KLog' = <<>> /\ KExc' = <<>> /\ Dead' = d /\ Cpu' = Cpu
  BY <1>3, <1>4, DrainedIs DEF KLog, KExc, Dead, Cpu
<1>13. /\ RLog' \o <<>> = RLog' /\ RExc' \o <<>> = RExc' /\ Len(<<>>) = 0 /\ Phases(<<>>) = {}
  BY <1>1, <1>11, PartsTyped DEF Phases
<1>14. phase' = IF RInit' = "ok" /\ Bug' = Nothing THEN "deferred" ELSE "harvest"
  BY <1>2 DEF GoesOn, RInit, Bug
<1>15. KoTyped'
  <2>1. MaxLog \in Nat /\ (i = "fault" <=> e # Nothing)
    BY <1>1, <1>5, PartsTyped, NothingIs
  <2> QED
    BY <1>1, <1>2, <1>4, <1>11, <1>12, <1>13, <1>14, <2>1 DEF KoTyped, Turns
<1>16. LogsSpliced'
  BY <1>4, <1>11, <1>12, <1>13, <1>14 DEF LogsSpliced, Driving
<1>17. StopsKnown'
  BY <1>1, <1>2, <1>4, <1>11, <1>12, <1>14, NothingIs DEF StopsKnown, Driving
<1>18. ReportsInv'
  BY <1>1, <1>2, <1>12, <1>14, <1>15, <1>16, <1>17, SameAttempt, SameCamp DEF ReportsInv
<1>19. Dead = Nothing
  BY <1>1, <1>2 DEF StopsKnown
<1> QED
  BY <1>4, <1>11, <1>14, <1>18, <1>19

\* The logs are moved into the report.
LEMMA SplicedReport ==
    ASSUME KoTyped, NEW l \in Seq(Steps), NEW x \in Seq(Steps), report' = Spliced(report, l, x)
    PROVE  /\ report' \in KoReports /\ UNCHANGED <<RInit, RError, Bug, By, AutoOps, Sent, Cleaned, Found>>
           /\ RLog' = RLog \o l /\ RExc' = RExc \o x /\ RLog' \in Seq(Steps)
<1>1. PICK r, q : r \in KoReports /\ r = report /\ q = report'
  BY DEF KoTyped
<1>2. /\ q \in KoReports /\ q.log = r.log \o l /\ q.exc = r.exc \o x
      /\ q.init = r.init /\ q.error = r.error /\ q.bugcheck = r.bugcheck /\ q.engine = r.engine
      /\ q.harvested = r.harvested /\ q.auto = r.auto /\ q.ops = r.ops /\ q.cleanup = r.cleanup
  BY <1>1, SplicedIs
<1>3. q.log \in Seq(Steps)
  BY <1>2 DEF KoReports
<1> QED
  BY <1>1, <1>2, <1>3 DEF RInit, RError, RLog, RExc, Bug, By, AutoOps, Sent, Cleaned, Found

LEMMA RunDeferredKeeps ==
    ASSUME ReportsInv, RunDeferred
    PROVE  /\ ReportsInv' /\ AutoOps' = AutoOps /\ phase' = "harvest"
           /\ killer' \in {killer, "deferred"} /\ sentDead' = sentDead
<1>1. KoTyped /\ LogsSpliced /\ StopsKnown /\ AttemptsKnown /\ CampKnown
  BY DEF ReportsInv
<1>2. /\ phase = "deferred" /\ phase' = "harvest"
      /\ UNCHANGED <<camp, opts, engine, image, left, firstReport>>
  BY DEF RunDeferred
<1>3. PICK k \in Ran(kernel, "deferred") :
         /\ report' = Spliced(report, k.log, <<>>) /\ kernel' = [k EXCEPT !.log = <<>>]
         /\ Noted(k, "deferred")
  BY DEF RunDeferred
<1>4. PICK l \in Seq(Steps), x \in Seq(Steps), d \in {Nothing} \cup Stops :
         /\ k \in Kernels /\ k.log = l /\ k.exc = x /\ k.dead = d /\ k.cpu = Cpu
         /\ RLog \o l = logged' /\ logged' \in Seq(Steps)
         /\ Len(l) <= MaxLog /\ Len(RExc \o x) <= MaxLog
         /\ Phases(x) \subseteq Phases(KExc) \cup {"deferred"}
         /\ Dead # Nothing => d = Dead
         /\ killer' = IF Dead = Nothing /\ d # Nothing THEN "deferred" ELSE killer
         /\ killer' = Nothing <=> d = Nothing
         /\ killer' \in Steps \cup {Nothing}
         /\ sentDead' = IF Dead = Nothing THEN sentDead ELSE Append(sentDead, "deferred")
  <2>1. "deferred" \in Steps
    BY DEF Steps
  <2> QED
    BY <1>1, <1>3, <2>1, CallNoted
<1>5. PICK e : e = <<>>
  OBVIOUS
<1>6. e \in Seq(Steps) /\ Len(e) = 0
  BY <1>5
<1>7. /\ report' \in KoReports /\ UNCHANGED <<RInit, RError, Bug, By, AutoOps, Sent, Cleaned>>
      /\ RLog' = RLog \o l /\ RExc' = RExc \o e /\ RLog' \in Seq(Steps)
  <2>1. report' = Spliced(report, l, e)
    BY <1>3, <1>4, <1>5
  <2> QED
    BY <1>1, <1>6, <2>1, SplicedReport
<1>8. kernel' \in Kernels /\ KLog' = e /\ KExc' = x /\ Dead' = d /\ Cpu' = Cpu
  <2>1. kernel' = [k EXCEPT !.log = e]
    BY <1>3, <1>5
  <2> QED
    BY <1>4, <1>6, <2>1 DEF Kernels, KLog, KExc, Dead, Cpu
<1>9. RLog' \o e = RLog' /\ RExc \o e = RExc
  BY <1>1, <1>5, <1>6, PartsTyped
<1>10. KoTyped'
  <2>1. MaxLog \in Nat
    BY <1>1, PartsTyped
  <2> QED
    BY <1>1, <1>2, <1>4, <1>6, <1>7, <1>8, <1>9, <2>1 DEF KoTyped, Turns
<1>11. LogsSpliced'
  BY <1>1, <1>2, <1>4, <1>5, <1>7, <1>8, <1>9 DEF LogsSpliced, Driving
<1>12. StopsKnown'
  BY <1>1, <1>2, <1>4, <1>7, <1>8, NothingIs DEF StopsKnown, Driving
<1>13. ReportsInv'
  BY <1>1, <1>2, <1>8, <1>10, <1>11, <1>12, SameAttempt, SameCamp DEF ReportsInv
<1>14. Dead = Nothing
  BY <1>1, <1>2 DEF StopsKnown
<1> QED
  BY <1>2, <1>4, <1>7, <1>13, <1>14

LEMMA HarvestKeeps ==
    ASSUME ReportsInv, Harvest
    PROVE  /\ ReportsInv' /\ AutoOps' = AutoOps /\ phase' \in {"open", "explicit"}
           /\ phase' = "open" => opts.auto # "off" /\ Bug = Nothing
<1>1. KoTyped /\ LogsSpliced /\ StopsKnown /\ AttemptsKnown /\ CampKnown
  BY DEF ReportsInv
<1>2. /\ phase = "harvest" /\ phase' = IF opts.auto # "off" /\ GoesOn(report) THEN "open" ELSE "explicit"
      /\ left' = opts.explicit
      /\ UNCHANGED <<kernel, camp, opts, engine, image, firstReport, logged, killer>>
  BY DEF Harvest, history
<1>3. PICK h \in Harvests \cup {<<>>} : report' = [report EXCEPT !.harvested = h]
  BY DEF Harvest
<1>4. h \in Seq(Ops)
  <2>1. CASE h \in Harvests
    BY <2>1, HarvestAssumption
  <2>2. CASE h = <<>>
    BY <2>2
  <2> QED
    BY <2>1, <2>2
<1>5. report' \in KoReports /\ UNCHANGED <<RInit, RError, RLog, RExc, Bug, AutoOps, Sent, Cleaned, By>>
  BY <1>1, <1>3, <1>4 DEF KoTyped, KoReports, RInit, RError, RLog, RExc, Bug, AutoOps, Sent, Cleaned, By
<1>6. UNCHANGED <<KLog, KExc, Dead, Cpu>>
  BY <1>2 DEF KLog, KExc, Dead, Cpu
<1>7. /\ phase' \in {"open", "explicit"}
      /\ phase' = "open" => RInit = "ok" /\ Bug = Nothing
  BY <1>2 DEF GoesOn, RInit, Bug
<1>8. KoTyped'
  <2>1. opts.explicit \in Nat
    BY <1>1, PartsTyped
  <2> QED
    BY <1>1, <1>2, <1>5, <1>6, <1>7, <2>1 DEF KoTyped, Turns, Driving
<1>9. LogsSpliced'
  BY <1>1, <1>2, <1>5, <1>6, <1>7 DEF LogsSpliced, Driving
<1>10. StopsKnown'
  BY <1>1, <1>2, <1>5, <1>6, <1>7, NothingIs DEF StopsKnown, Driving
<1>11. ReportsInv'
  BY <1>1, <1>2, <1>6, <1>7, <1>8, <1>9, <1>10, SameAttempt, SameCamp DEF ReportsInv
<1> QED
  BY <1>2, <1>5, <1>7, <1>11

\* An operation is sent in the course of the drive.
LEMMA PushKeeps ==
    ASSUME ReportsInv, NEW op \in Ops \cup {"open", "release"}, NEW by \in {"open", "canned", "release"},
           NEW res \in Statuses, Push(op, by, res),
           phase \in {"open", "canned", "campaigns", "release"},
           phase' \in {"canned", "campaigns", "release", "driven"}
    PROVE  /\ ReportsInv'
           /\ AutoOps' = Append(AutoOps, Result(op, by, res)) /\ Found' = Found /\ Bug' = Bug
           /\ killer' = IF Dead = Nothing /\ Dead' # Nothing THEN by ELSE killer
           /\ sentDead' = IF Dead = Nothing THEN sentDead ELSE Append(sentDead, by)
           /\ Dead # Nothing => Dead' = Dead
<1>1. KoTyped /\ LogsSpliced /\ StopsKnown /\ AttemptsKnown /\ CampKnown
  BY DEF ReportsInv
<1>2. /\ UNCHANGED <<camp, opts, engine, image, left, firstReport>>
      /\ kernel' \in Ran(kernel, "auto") /\ Noted(kernel', by)
      /\ report' = [report EXCEPT !.auto = Append(report.auto, Result(op, by, res))]
  BY DEF Push
<1>3. PICK l \in Seq(Steps), x \in Seq(Steps), d \in {Nothing} \cup Stops :
         /\ kernel' \in Kernels /\ KLog' = l /\ KExc' = x /\ Dead' = d /\ Cpu' = Cpu
         /\ RLog \o l = logged' /\ logged' \in Seq(Steps) /\ Len(l) <= MaxLog /\ Len(RExc \o x) <= MaxLog
         /\ Phases(x) \subseteq Phases(KExc) \cup {"auto"}
         /\ Dead # Nothing => d = Dead
         /\ killer' = IF Dead = Nothing /\ d # Nothing THEN by ELSE killer
         /\ killer' = Nothing <=> d = Nothing
         /\ killer' \in Steps \cup {Nothing}
         /\ sentDead' = IF Dead = Nothing THEN sentDead ELSE Append(sentDead, by)
  <2>1. "auto" \in Steps /\ by \in Steps
    BY DEF Steps
  <2>2. PICK k : k = kernel'
    OBVIOUS
  <2> QED
    BY <1>1, <1>2, <2>1, <2>2, CallNoted DEF KLog, KExc, Dead, Cpu
<1>4. Result(op, by, res) \in Outcomes
  BY DEF Result, Outcomes, Statuses
<1>5. Append(report.auto, Result(op, by, res)) \in Seq(Outcomes)
  BY <1>1, <1>4, PartsTyped DEF AutoOps
<1>6. /\ report' \in KoReports /\ UNCHANGED <<RInit, RError, RLog, RExc, Bug, Sent, Cleaned, By, Found>>
      /\ AutoOps' = Append(AutoOps, Result(op, by, res))
  BY <1>1, <1>2, <1>5 DEF KoTyped, KoReports, RInit, RError, RLog, RExc, Bug, AutoOps, Sent, Cleaned, By, Found
<1>7. KoTyped'
  BY <1>1, <1>2, <1>3, <1>6 DEF KoTyped, Turns, Driving
<1>8. LogsSpliced'
  <2>1. phase' \in Driving
    BY DEF Driving
  <2>2. RLog' \o KLog' = logged'
    BY <1>3, <1>6
  <2> QED
    BY <2>1, <2>2, <1>3, <1>6 DEF LogsSpliced
<1>9. StopsKnown'
  BY <1>1, <1>3, <1>6, NothingIs DEF StopsKnown, Driving
<1> QED
  BY <1>1, <1>2, <1>3, <1>6, <1>7, <1>8, <1>9, SameAttempt, SameCamp DEF ReportsInv

\* Places in order are at least as far as they are many.
LEMMA CountedPlaces ==
    ASSUME NEW f, NEW m, NEW I, NEW n \in Nat, Counts(f, m, I, n)
    PROVE  \A k \in 1..m : f[k] \in I \cap (1..n) /\ k <= f[k]
<1>1. /\ m \in Nat /\ f \in [1..m -> I \cap (1..n)]
      /\ \A j, k \in 1..m : j < k => f[j] < f[k]
  BY DEF Counts
<1>2. \A k \in 1..m : f[k] \in I \cap (1..n) /\ f[k] \in Nat /\ f[k] >= 1
  BY <1>1
<1> DEFINE V == {k \in Nat : k \in 1..m => k <= f[k]}
<1>3. 0 \in V
  BY <1>1
<1>4. ASSUME NEW k \in Nat, k \in V PROVE k + 1 \in V
  <2> SUFFICES ASSUME k + 1 \in 1..m PROVE k + 1 <= f[k + 1]
    OBVIOUS
  <2>1. CASE k = 0
    BY <1>2, <2>1
  <2>2. CASE k # 0
    <3>1. k \in 1..m /\ k < k + 1 /\ k <= f[k]
      BY <1>1, <1>4, <2>2
    <3>2. f[k] < f[k + 1]
      BY <1>1, <3>1
    <3> QED
      BY <1>2, <3>1, <3>2
  <2> QED
    BY <2>1, <2>2
<1>5. Nat \subseteq V
  <2> HIDE DEF V
  <2> QED
    BY <1>3, <1>4, SetInduction
<1> QED
  BY <1>1, <1>2, <1>5

\* The operations chosen are some of the harvest, each once.
LEMMA UniqueIs ==
    ASSUME NEW h \in Seq(Ops)
    PROVE  /\ Unique(h) \in Seq(Ops)
           /\ \A j, k \in 1..Len(Unique(h)) : Unique(h)[j] = Unique(h)[k] => j = k
<1> DEFINE I == {i \in DOMAIN h : i <= MaxOps /\ \A j \in 1..(i - 1) : h[j] # h[i]}
           u == Kept(h, I)
<1>1. u = Unique(h) /\ I \in SUBSET (DOMAIN h) /\ \A i \in I : \A j \in 1..(i - 1) : h[j] # h[i]
  BY DEF Unique
<1> HIDE DEF I
<1>2. u \in Seq(Ops) /\ \E m, f : Counts(f, m, I, Len(h)) /\ Takes(u, h, f, m)
  BY <1>1, KeptIs
<1> HIDE DEF u
<1>3. PICK m, f : Counts(f, m, I, Len(h)) /\ Takes(u, h, f, m)
  BY <1>2
<1>4. /\ \A k \in 1..m : f[k] \in I /\ f[k] \in Nat /\ f[k] >= 1 /\ u[k] = h[f[k]]
      /\ \A j, k \in 1..m : j < k => f[j] < f[k]
      /\ Len(u) = m /\ m \in Nat
  BY <1>3, CountedPlaces DEF Counts, Takes
<1>5. ASSUME NEW j \in 1..m, NEW k \in 1..m, j < k PROVE u[j] # u[k]
  <2>1. f[j] \in 1..(f[k] - 1) /\ f[k] \in I
    BY <1>4, <1>5
  <2>2. h[f[j]] # h[f[k]]
    BY <1>1, <2>1
  <2> QED
    BY <1>4, <2>2
<1>6. \A j, k \in 1..m : u[j] = u[k] => j = k
  BY <1>4, <1>5
<1> QED
  BY <1>1, <1>2, <1>4, <1>6

\* What is taken over: at most 64 entries, all of them run, and the first entry if it was.
LEMMA TakenOverIs ==
    ASSUME NEW c \in Seq(Entries)
    PROVE  /\ TakenOver(c) \in Seq(Entries) /\ Len(TakenOver(c)) <= MaxResults
           /\ \A k \in 1..Len(TakenOver(c)) : TakenOver(c)[k].res # Nothing
           /\ c # <<>> /\ c[1].res # Nothing => Len(TakenOver(c)) >= 1
<1> DEFINE I == {i \in DOMAIN c : i <= MaxResults /\ c[i].res # Nothing}
           t == Kept(c, I)
<1>1. /\ t = TakenOver(c) /\ I \in SUBSET (DOMAIN c) /\ \A i \in I : i <= MaxResults /\ c[i].res # Nothing
      /\ MaxResults \in Nat /\ MaxResults >= 1
  BY ModuleAssumption DEF TakenOver
<1>2. c # <<>> /\ c[1].res # Nothing => 1 \in I /\ 1 \in 1..Len(c)
  <2> SUFFICES ASSUME c # <<>>, c[1].res # Nothing PROVE 1 \in I /\ 1 \in 1..Len(c)
    OBVIOUS
  <2>1. 1 \in DOMAIN c /\ DOMAIN c = 1..Len(c)
    BY EmptySeq
  <2> QED
    BY <1>1, <2>1
<1> HIDE DEF I
<1>3. t \in Seq(Entries) /\ \E m, f : Counts(f, m, I, Len(c)) /\ Takes(t, c, f, m)
  BY <1>1, KeptIs
<1> HIDE DEF t
<1>4. PICK m, f : Counts(f, m, I, Len(c)) /\ Takes(t, c, f, m)
  BY <1>3
<1>5. /\ \A k \in 1..m : f[k] \in I /\ f[k] \in Nat /\ k <= f[k] /\ t[k] = c[f[k]]
      /\ Len(t) = m /\ m \in Nat
      /\ \A i \in I \cap (1..Len(c)) : \E k \in 1..m : f[k] = i
  <2>1. \A k \in 1..m : f[k] \in I \cap (1..Len(c)) /\ k <= f[k]
    BY <1>4, CountedPlaces
  <2> QED
    BY <1>4, <2>1 DEF Counts, Takes
<1>6. m <= MaxResults
  <2>1. CASE m = 0
    BY <1>1, <2>1
  <2>2. CASE m # 0
    <3>1. m \in 1..m
      BY <1>5, <2>2
    <3>2. f[m] \in Nat /\ m <= f[m] /\ f[m] <= MaxResults
      BY <1>1, <1>5, <3>1
    <3> QED
      BY <1>1, <1>5, <3>2
  <2> QED
    BY <2>1, <2>2
<1>7. \A k \in 1..m : t[k].res # Nothing
  BY <1>1, <1>5
<1>8. c # <<>> /\ c[1].res # Nothing => m >= 1
  <2> SUFFICES ASSUME c # <<>>, c[1].res # Nothing PROVE m >= 1
    OBVIOUS
  <2>1. \E k \in 1..m : f[k] = 1
    BY <1>2, <1>5
  <2> QED
    BY <1>5, <2>1
<1> QED
  BY <1>1, <1>3, <1>5, <1>6, <1>7, <1>8

\* Merging keeps the first entry.
LEMMA MergedIs ==
    ASSUME NEW c \in Seq(Entries)
    PROVE  /\ Merged(c) \in Seq(Entries)
           /\ c # <<>> => Merged(c) # <<>> /\ Merged(c)[1] = c[1]
<1> DEFINE I == {i \in DOMAIN c : \A j \in 1..(i - 1) : c[j].buf # c[i].buf}
           t == Kept(c, I)
<1>1. t = Merged(c) /\ I \in SUBSET (DOMAIN c)
  BY DEF Merged
<1>2. c # <<>> => 1 \in I /\ 1 \in 1..Len(c)
  <2> SUFFICES ASSUME c # <<>> PROVE 1 \in I /\ 1 \in 1..Len(c)
    OBVIOUS
  <2>1. 1 \in DOMAIN c /\ DOMAIN c = 1..Len(c) /\ 1..(1 - 1) = {}
    BY EmptySeq
  <2> QED
    BY <2>1
<1> HIDE DEF I
<1>3. t \in Seq(Entries) /\ \E m, f : Counts(f, m, I, Len(c)) /\ Takes(t, c, f, m)
  BY <1>1, KeptIs
<1> HIDE DEF t
<1>4. PICK m, f : Counts(f, m, I, Len(c)) /\ Takes(t, c, f, m)
  BY <1>3
<1>5. /\ \A k \in 1..m : f[k] \in Nat /\ k <= f[k] /\ t[k] = c[f[k]]
      /\ \A j, k \in 1..m : j < k => f[j] < f[k]
      /\ Len(t) = m /\ m \in Nat
      /\ \A i \in I \cap (1..Len(c)) : \E k \in 1..m : f[k] = i
  <2>1. \A k \in 1..m : f[k] \in I \cap (1..Len(c)) /\ k <= f[k]
    BY <1>4, CountedPlaces
  <2> QED
    BY <1>4, <2>1 DEF Counts, Takes
<1>6. ASSUME c # <<>> PROVE t # <<>> /\ t[1] = c[1]
  <2>1. PICK k \in 1..m : f[k] = 1
    BY <1>2, <1>5, <1>6
  <2>2. k = 1 /\ m # 0
    BY <1>5, <2>1
  <2> QED
    BY <1>5, <2>1, <2>2
<1> QED
  BY <1>1, <1>3, <1>6
-----------------------------------------------------------------------------
(* The campaigns.                                                          *)

\* An input is rolled back: the kernel is as it was.
LEMMA InputLeavesKernel == ASSUME KoTyped, RunInput PROVE kernel' = kernel
<1>1. kernel \in Kernels
  BY DEF KoTyped
<1>2. PICK k \in Ran(kernel, "campaign") : kernel' = Rollback(k, kernel)
  BY DEF RunInput
<1>3. k.cpu = kernel.cpu
  BY <1>2 DEF Ran
<1>4. kernel' = [kernel EXCEPT !.cpu = kernel.cpu]
  BY <1>2, <1>3 DEF Rollback
<1> QED
  BY <1>1, <1>4 DEF Kernels

LEMMA CampTyped ==
    ASSUME camp \in Campaigns(Ops)
    PROVE  /\ CampPc \in {"seed", "loop", "queue", "flip"} /\ CampOp \in Ops
           /\ CampEntries \in Seq(Entries) /\ CampDone \in Nat
           /\ camp.queue \in Seq(Inputs) /\ camp.visited \in SUBSET Inputs /\ camp.flips \in 0..MaxBranches
  BY DEF Campaigns, CampPc, CampOp, CampEntries, CampDone

LEMMA EntryIs ==
    ASSUME NEW b \in Inputs, NEW by \in {"seed", "fuzz", "concolic"}
    PROVE  /\ Entry(b, "ran", by) \in Executed /\ Entry(b, Nothing, by) \in Entries
           /\ Entry(b, "ran", by) \in Entries
  BY DEF Entry, Executed, Entries

LEMMA ExecutedAreEntries == ASSUME NEW c \in Seq(Executed) PROVE c \in Seq(Entries)
<1>1. Executed \subseteq Entries
  BY DEF Executed, Entries
<1> QED
  BY <1>1

LEMMA SeedsAreInputs ==
    /\ Seeds \in Seq(Inputs) /\ Len(Seeds) \in Nat /\ Len(Seeds) >= 1
    /\ SeedCount \in Nat /\ SeedCount >= 1 /\ SeedCount <= Len(Seeds)
    /\ Cap \in Nat /\ Cap >= 1 /\ SeedCap \in Nat /\ SeedCap >= 1
<1>1. Seeds \in Seq(Inputs) /\ Seeds # <<>> /\ Cap \in Nat /\ Cap >= 1 /\ SeedCap \in Nat /\ SeedCap >= 1
  BY FileOpAssumption
<1>2. Len(Seeds) \in Nat /\ Len(Seeds) >= 1
  BY <1>1, EmptySeq
<1>3. 2 * Cap \in Nat /\ 2 * Cap >= 1
  BY <1>1
<1>4. SeedCount = IF Len(Seeds) <= 2 * Cap THEN Len(Seeds) ELSE 2 * Cap
  BY <1>2, <1>3, MinOfTwo DEF SeedCount
<1> QED
  BY <1>1, <1>2, <1>3, <1>4

LEMMA RemoveAtIs ==
    ASSUME NEW S, NEW s \in Seq(S), NEW i \in 1..Len(s)
    PROVE  RemoveAt(s, i) \in Seq(S) /\ Len(RemoveAt(s, i)) = Len(s) - 1
<1> DEFINE a == SubSeq(s, 1, i - 1)
           b == SubSeq(s, i + 1, Len(s))
<1>1. a \in Seq(S) /\ Len(a) = i - 1
  BY SubSeqProperties
<1>2. b \in Seq(S) /\ Len(b) = Len(s) - i
  BY SubSeqProperties
<1>3. RemoveAt(s, i) = a \o b
  BY DEF RemoveAt
<1> HIDE DEF a, b
<1>4. RemoveAt(s, i) \in Seq(S) /\ Len(RemoveAt(s, i)) = Len(a) + Len(b)
  BY <1>1, <1>2, <1>3, ConcatProperties
<1> QED
  BY <1>1, <1>2, <1>4

\* What dropping an entry leaves: as many as the cap allows, and one at least.
LEMMA EvictedIs ==
    ASSUME NEW c \in Seq(Executed), Len(c) <= Cap, NEW e \in Executed, NEW d \in Evicted(Append(c, e))
    PROVE  d \in Seq(Executed) /\ Len(d) <= Cap /\ Len(d) >= 1
<1>1. PICK a : a = Append(c, e)
  OBVIOUS
<1>2. a \in Seq(Executed) /\ Len(a) = Len(c) + 1 /\ Len(c) \in Nat /\ Cap \in Nat /\ Cap >= 1
  BY <1>1, SeedsAreInputs, AppendProperties
<1>3. CASE Len(a) <= Cap
  <2>1. d = a
    BY <1>1, <1>3 DEF Evicted
  <2> QED
    BY <1>2, <1>3, <2>1
<1>4. CASE ~(Len(a) <= Cap)
  <2>1. PICK i \in 1..Len(a) : d = RemoveAt(a, i)
    BY <1>1, <1>2, <1>4 DEF Evicted
  <2>2. d \in Seq(Executed) /\ Len(d) = Len(a) - 1
    BY <1>2, <2>1, RemoveAtIs
  <2> QED
    BY <1>2, <1>4, <2>2
<1> QED
  BY <1>3, <1>4

\* What a step within a campaign leaves alone.
LEMMA SameButCamp ==
    ASSUME ReportsInv, UNCHANGED <<kernel, koVars, history>>, phase \in {"fuzz", "concolic"}
    PROVE  /\ KoTyped' /\ LogsSpliced' /\ StopsKnown' /\ AttemptsKnown'
           /\ UNCHANGED <<Dead, Cpu, AutoOps, Found, Bug>>
<1>1. KoTyped /\ LogsSpliced /\ StopsKnown /\ AttemptsKnown
  BY DEF ReportsInv
<1>2. UNCHANGED <<phase, opts, engine, image, report, kernel, left, firstReport, answer, logged, killer>>
  BY DEF koVars, history
<1>3. UNCHANGED <<RInit, RError, RLog, RExc, Bug, AutoOps, Sent, Cleaned, By, Found, KLog, KExc, Dead, Cpu>>
  BY <1>2 DEF RInit, RError, RLog, RExc, Bug, AutoOps, Sent, Cleaned, By, Found, KLog, KExc, Dead, Cpu
<1>4. KoTyped'
  BY <1>1, <1>2, <1>3 DEF KoTyped
<1>5. LogsSpliced' /\ StopsKnown'
  BY <1>1, <1>2, <1>3 DEF LogsSpliced, StopsKnown
<1>6. AttemptsKnown'
  BY <1>1, <1>2 DEF AttemptsKnown
<1> QED
  BY <1>3, <1>4, <1>5, <1>6

LEMMA CampStepKnown ==
    ASSUME ReportsInv, CampaignStep, UNCHANGED <<koVars, history>>, phase \in {"fuzz", "concolic"}
    PROVE  /\ kernel' = kernel /\ camp' \in Campaigns(Ops) /\ CampOp' = CampOp
           /\ phase = "fuzz" => FuzzCamp'
           /\ phase = "concolic" => ConcolicCamp'
<1>1. /\ KoTyped /\ camp \in Campaigns(Ops) /\ UNCHANGED <<phase, opts>>
      /\ phase = "fuzz" => FuzzCamp
      /\ phase = "concolic" => ConcolicCamp
  BY DEF ReportsInv, CampKnown, koVars
<1>2. /\ CampPc \in {"seed", "loop", "queue", "flip"} /\ CampOp \in Ops
      /\ CampEntries \in Seq(Entries) /\ CampDone \in Nat
      /\ camp.queue \in Seq(Inputs) /\ camp.visited \in SUBSET Inputs /\ camp.flips \in 0..MaxBranches
  BY <1>1, CampTyped
<1>3. phase = "fuzz" <=> CampPc \in {"seed", "loop"}
  BY <1>1 DEF FuzzCamp, ConcolicCamp
<1>4. CASE FuzzSeed
  <2>1. CampPc = "seed" /\ FuzzCamp /\ phase = "fuzz"
    BY <1>1, <1>3, <1>4 DEF FuzzSeed, CampPc
  <2> DEFINE s == Seeds[CampDone + 1]
             added(new) == IF new \/ CampEntries = <<>> THEN Append(CampEntries, Entry(s, "ran", "fuzz"))
                           ELSE CampEntries
             ends(c) == Len(c) >= Cap \/ CampDone + 1 = SeedCount
  <2>2. PICK new, c :
           /\ c = added(new)
           /\ camp' = [camp EXCEPT !.corpus = c, !.pc = IF ends(c) THEN "loop" ELSE camp.pc,
                                   !.done = IF ends(c) THEN 0 ELSE camp.done + 1]
    BY <1>4 DEF FuzzSeed, CampDone, CampEntries
  <2> DEFINE last == ends(c)
  <2>3. s \in Inputs
    <3>1. CampDone + 1 \in 1..Len(Seeds)
      BY <1>2, <2>1, SeedsAreInputs DEF FuzzCamp
    <3> QED
      BY <3>1, SeedsAreInputs
  <2> HIDE DEF s, last
  <2>4. Entry(s, "ran", "fuzz") \in Executed
    BY <2>3, EntryIs
  <2>5. CampEntries \in Seq(Executed) /\ Len(CampEntries) < Cap /\ CampDone < SeedCount
    BY <2>1 DEF FuzzCamp
  <2>6. /\ c \in Seq(Executed) /\ c # <<>> /\ Len(c) <= Cap /\ Len(c) \in Nat
    <3>1. CASE c = CampEntries /\ CampEntries # <<>>
      BY <2>5, <3>1, SeedsAreInputs
    <3>2. CASE c = Append(CampEntries, Entry(s, "ran", "fuzz"))
      BY <2>4, <2>5, <3>2, SeedsAreInputs, AppendProperties
    <3> QED
      BY <2>2, <3>1, <3>2
  <2> HIDE DEF added
  <2>7. PICK p, n : p = (IF last THEN "loop" ELSE camp.pc) /\ n = (IF last THEN 0 ELSE camp.done + 1)
    OBVIOUS
  <2>8. /\ p \in {"seed", "loop"} /\ n \in Nat
        /\ p = "seed" => ~last /\ n = CampDone + 1
    BY <1>2, <2>1, <2>7 DEF CampPc, CampDone
  <2>9. camp' = [camp EXCEPT !.corpus = c, !.pc = p, !.done = n] /\ c \in Seq(Entries)
    BY <2>2, <2>6, <2>7, ExecutedAreEntries DEF last
  <2>10. camp' \in Campaigns(Ops) /\ CampOp' = CampOp /\ CampPc' = p /\ CampEntries' = c /\ CampDone' = n
    BY <1>1, <2>8, <2>9 DEF Campaigns, CampOp, CampPc, CampEntries, CampDone
  <2>11. p = "seed" => Len(c) < Cap /\ n < SeedCount
    <3>1. last <=> (Len(c) >= Cap \/ CampDone + 1 = SeedCount)
      BY DEF last
    <3>2. /\ Len(c) \in Nat /\ Cap \in Nat /\ CampDone \in Nat /\ SeedCount \in Nat
          /\ CampDone < SeedCount
      BY <1>2, <2>5, <2>6, SeedsAreInputs
    <3> QED
      BY <2>8, <3>1, <3>2
  <2>12. FuzzCamp'
    BY <1>1, <2>1, <2>6, <2>8, <2>10, <2>11 DEF FuzzCamp
  <2>13. kernel' = kernel
    BY <1>1, <1>4, InputLeavesKernel DEF FuzzSeed
  <2> QED
    BY <2>1, <2>10, <2>12, <2>13
<1>5. CASE FuzzChild
  <2>1. CampPc = "loop" /\ FuzzCamp /\ phase = "fuzz"
    BY <1>1, <1>3, <1>5 DEF FuzzChild, CampPc
  <2>2. PICK child, c :
           /\ child \in Inputs
           /\ c \in Evicted(Append(CampEntries, Entry(child, "ran", "fuzz"))) \/ c = CampEntries
           /\ camp' = [camp EXCEPT !.corpus = c, !.done = camp.done + 1]
    BY <1>5 DEF FuzzChild, CampEntries
  <2>3. CampEntries \in Seq(Executed) /\ Len(CampEntries) <= Cap /\ CampEntries # <<>>
    BY <2>1 DEF FuzzCamp
  <2>4. c \in Seq(Executed) /\ Len(c) <= Cap /\ c # <<>>
    <3>1. CASE c = CampEntries
      BY <2>3, <3>1
    <3>2. CASE c \in Evicted(Append(CampEntries, Entry(child, "ran", "fuzz")))
      <4>1. PICK e : e = Entry(child, "ran", "fuzz")
        OBVIOUS
      <4>2. e \in Executed /\ c \in Evicted(Append(CampEntries, e))
        BY <2>2, <3>2, <4>1, EntryIs
      <4>3. c \in Seq(Executed) /\ Len(c) <= Cap /\ Len(c) >= 1
        BY <2>3, <4>2, EvictedIs
      <4> QED
        BY <4>3, EmptySeq
    <3> QED
      BY <2>2, <3>1, <3>2
  <2>5. PICK n \in Nat : n = camp.done + 1
    BY <1>2 DEF CampDone
  <2>6. camp' = [camp EXCEPT !.corpus = c, !.done = n] /\ c \in Seq(Entries)
    BY <2>2, <2>4, <2>5, ExecutedAreEntries
  <2>7. camp' \in Campaigns(Ops) /\ CampOp' = CampOp /\ CampPc' = CampPc /\ CampEntries' = c
    BY <1>1, <2>6 DEF Campaigns, CampOp, CampPc, CampEntries
  <2>8. FuzzCamp'
    BY <1>1, <2>1, <2>4, <2>7 DEF FuzzCamp
  <2>9. kernel' = kernel
    BY <1>1, <1>5, InputLeavesKernel DEF FuzzChild
  <2> QED
    BY <2>1, <2>7, <2>8, <2>9
<1>6. CASE ConcolicSeed
  <2>1. CampPc = "queue" /\ ConcolicCamp /\ phase = "concolic" /\ camp.queue # <<>>
    BY <1>1, <1>3, <1>6 DEF ConcolicSeed, CampPc
  <2>2. PICK n \in 0..MaxBranches : camp' = [camp EXCEPT !.queue = Tail(camp.queue), !.flips = n, !.pc = "flip"]
    BY <1>6 DEF ConcolicSeed
  <2>3. Tail(camp.queue) \in Seq(Inputs)
    BY <1>2, <2>1
  <2>4. camp' \in Campaigns(Ops) /\ CampOp' = CampOp /\ CampPc' = "flip" /\ CampEntries' = CampEntries
    BY <1>1, <2>2, <2>3 DEF Campaigns, CampOp, CampPc, CampEntries
  <2>5. ConcolicCamp'
    BY <1>1, <2>1, <2>4 DEF ConcolicCamp
  <2>6. kernel' = kernel
    BY <1>1, <1>6, InputLeavesKernel DEF ConcolicSeed
  <2> QED
    BY <2>1, <2>4, <2>5, <2>6
<1>7. CASE ConcolicFlip
  <2>1. CampPc = "flip" /\ ConcolicCamp /\ phase = "concolic" /\ camp.flips > 0
    BY <1>1, <1>3, <1>7 DEF ConcolicFlip, CampPc
  <2>2. PICK a : a = Asked(camp)
    OBVIOUS
  <2>3. /\ a \in Campaigns(Ops) /\ a.op = CampOp /\ a.pc = "flip" /\ a.corpus = CampEntries
    <3>1. camp.flips - 1 \in 0..MaxBranches /\ camp.done + 1 \in Nat
      BY <1>2, <2>1, FileOpAssumption DEF CampDone
    <3>2. a = [camp EXCEPT !.flips = camp.flips - 1, !.done = camp.done + 1]
      BY <2>2 DEF Asked
    <3> QED
      BY <1>1, <2>1, <3>1, <3>2 DEF Campaigns, CampOp, CampPc, CampEntries
  <2>4. CASE camp' = a /\ UNCHANGED kernel
    <3>1. camp' \in Campaigns(Ops) /\ CampOp' = CampOp /\ CampPc' = "flip" /\ CampEntries' = CampEntries
      BY <2>3, <2>4 DEF CampOp, CampPc, CampEntries
    <3>2. ConcolicCamp'
      BY <1>1, <2>1, <3>1 DEF ConcolicCamp
    <3> QED
      BY <2>1, <2>4, <3>1, <3>2
  <2>5. CASE RunInput /\ \E child \in Inputs, kept \in BOOLEAN, again \in BOOLEAN :
                           camp' = Answered(a, child, kept, again)
    <3>1. PICK child \in Inputs, kept \in BOOLEAN, again \in BOOLEAN : camp' = Answered(a, child, kept, again)
      BY <2>5
    <3> DEFINE c == IF kept THEN Append(a.corpus, Entry(child, "ran", "concolic")) ELSE a.corpus
               q == IF again THEN Append(a.queue, child) ELSE a.queue
               v == IF again THEN a.visited \cup {child} ELSE a.visited
    <3>2. camp' = [a EXCEPT !.corpus = c, !.queue = q, !.visited = v]
      BY <3>1 DEF Answered
    <3>3. a.corpus \in Seq(Entries) /\ a.queue \in Seq(Inputs) /\ a.visited \in SUBSET Inputs
      BY <2>3 DEF Campaigns
    <3>4. Entry(child, "ran", "concolic") \in Entries
      BY EntryIs
    <3>5. c \in Seq(Entries) /\ (CampEntries # <<>> => c # <<>> /\ c[1] = CampEntries[1])
      <4>1. CASE c = a.corpus
        BY <2>3, <3>3, <4>1
      <4>2. CASE c = Append(a.corpus, Entry(child, "ran", "concolic"))
        <5>1. PICK e \in Entries : e = Entry(child, "ran", "concolic")
          BY <3>4
        <5>2. CampEntries \in Seq(Entries) /\ c = Append(CampEntries, e)
          BY <2>3, <3>3, <4>2, <5>1
        <5> HIDE DEF c
        <5>3. PICK z : z = Append(CampEntries, e)
          OBVIOUS
        <5>4. z \in Seq(Entries) /\ z # <<>> /\ (CampEntries # <<>> => z[1] = CampEntries[1])
          BY <5>2, <5>3, EmptySeq, AppendProperties
        <5> QED
          BY <5>2, <5>3, <5>4
      <4> QED
        BY <4>1, <4>2
    <3>6. q \in Seq(Inputs) /\ v \in SUBSET Inputs
      <4>1. Append(a.queue, child) \in Seq(Inputs) /\ a.visited \cup {child} \in SUBSET Inputs
        BY <3>3
      <4> QED
        BY <3>3, <4>1
    <3> HIDE DEF c, q, v
    <3>8. camp' \in Campaigns(Ops) /\ CampOp' = CampOp /\ CampPc' = "flip" /\ CampEntries' = c
      BY <2>3, <3>2, <3>5, <3>6 DEF Campaigns, CampOp, CampPc, CampEntries
    <3>9. ConcolicCamp'
      BY <1>1, <2>1, <3>5, <3>8 DEF ConcolicCamp
    <3>10. kernel' = kernel
      BY <1>1, <2>5, InputLeavesKernel
    <3> QED
      BY <2>1, <3>8, <3>9, <3>10
  <2> QED
    BY <1>7, <2>2, <2>4, <2>5 DEF ConcolicFlip
<1>8. CASE FlipsDone
  <2>1. CampPc = "flip" /\ ConcolicCamp /\ phase = "concolic" /\ kernel' = kernel
    BY <1>1, <1>3, <1>8 DEF FlipsDone, CampPc
  <2>2. camp' = [camp EXCEPT !.pc = "queue", !.flips = 0] /\ 0 \in 0..MaxBranches
    BY <1>8, FileOpAssumption DEF FlipsDone
  <2>3. camp' \in Campaigns(Ops) /\ CampOp' = CampOp /\ CampPc' = "queue" /\ CampEntries' = CampEntries
    BY <1>1, <2>2 DEF Campaigns, CampOp, CampPc, CampEntries
  <2>4. ConcolicCamp'
    BY <1>1, <2>1, <2>3 DEF ConcolicCamp
  <2> QED
    BY <2>1, <2>3, <2>4
<1> QED
  BY <1>4, <1>5, <1>6, <1>7, <1>8 DEF CampaignStep

\* A step of the drive that calls nothing and may list results.
LEMMA DriveGoesOn ==
    ASSUME ReportsInv, phase \in Driving, phase' \in Driving \ {"open"},
           kernel' \in Kernels, UNCHANGED <<KLog, KExc, Dead>>,
           report' \in KoReports, UNCHANGED <<RInit, RError, RLog, RExc, Bug, Sent, Cleaned, By>>,
           UNCHANGED <<opts, engine, image, left, firstReport, logged, killer>>
    PROVE  KoTyped' /\ LogsSpliced' /\ StopsKnown' /\ AttemptsKnown'
<1>1. KoTyped /\ LogsSpliced /\ StopsKnown /\ AttemptsKnown
  BY DEF ReportsInv
<1>2. KoTyped'
  BY <1>1 DEF KoTyped, Turns
<1>3. LogsSpliced'
  <2>1. phase' \notin {"over", "delivered"} /\ phase \notin {"over", "delivered"}
    BY DEF Driving
  <2>2. RLog' \o KLog' = logged'
    BY <1>1 DEF LogsSpliced
  <2> QED
    BY <2>1, <2>2 DEF LogsSpliced
<1>4. StopsKnown'
  BY <1>1 DEF StopsKnown, Driving
<1>5. AttemptsKnown'
  BY <1>1, SameAttempt DEF Driving
<1> QED
  BY <1>2, <1>3, <1>4, <1>5

LEMMA SameReport ==
    ASSUME KoTyped, UNCHANGED report
    PROVE  /\ report' \in KoReports
           /\ UNCHANGED <<RInit, RError, RLog, RExc, Bug, Sent, Cleaned, By, AutoOps, Found>>
  BY DEF KoTyped, RInit, RError, RLog, RExc, Bug, Sent, Cleaned, By, AutoOps, Found

LEMMA SameKernel ==
    ASSUME KoTyped, UNCHANGED kernel
    PROVE  kernel' \in Kernels /\ UNCHANGED <<KLog, KExc, Dead, Cpu>>
  BY DEF KoTyped, KLog, KExc, Dead, Cpu

LEMMA OtherEngine ==
    ASSUME KoTyped, NEW u \in {"own", "concolic"}, kernel' = [kernel EXCEPT !.cpu = u]
    PROVE  kernel' \in Kernels /\ UNCHANGED <<KLog, KExc, Dead>> /\ Cpu' = u
  BY DEF KoTyped, Kernels, KLog, KExc, Dead, Cpu

LEMMA RunCampaignKeeps == ASSUME ReportsInv, RunCampaign PROVE ReportsInv'
<1>1. phase \in {"fuzz", "concolic"} /\ CampaignStep /\ UNCHANGED <<koVars, history>>
  BY DEF RunCampaign
<1>2. /\ kernel' = kernel /\ camp' \in Campaigns(Ops) /\ CampOp' = CampOp
      /\ phase = "fuzz" => FuzzCamp'
      /\ phase = "concolic" => ConcolicCamp'
  BY <1>1, CampStepKnown
<1>3. KoTyped' /\ LogsSpliced' /\ StopsKnown' /\ AttemptsKnown' /\ UNCHANGED <<Dead, Cpu>>
  BY <1>1, <1>2, SameButCamp
<1>4. UNCHANGED <<phase, todo>>
  BY <1>1 DEF koVars
<1>5. CampKnown'
  BY <1>1, <1>2, <1>3, <1>4 DEF ReportsInv, CampKnown
<1> QED
  BY <1>3, <1>5 DEF ReportsInv

LEMMA ConcolicStarts ==
    ASSUME KoTyped, NEW op \in Ops, NEW c \in Seq(Entries), ConcolicStart(op, c)
    PROVE  /\ camp' \in Campaigns(Ops) /\ CampPc' = "queue" /\ CampOp' = op /\ CampEntries' = c
           /\ kernel' \in Kernels /\ UNCHANGED <<KLog, KExc, Dead>> /\ Cpu' = "concolic"
<1> DEFINE bufs == [i \in DOMAIN c |-> c[i].buf]
           queue == SubSeq(bufs, 1, Min({SeedCap, Len(bufs)}))
<1>1. /\ kernel' = [kernel EXCEPT !.cpu = "concolic"]
      /\ camp' = [pc |-> "queue", op |-> op, corpus |-> c, done |-> 0, queue |-> queue,
                  visited |-> ToSet(queue), flips |-> 0]
  BY DEF ConcolicStart
<1>2. bufs \in Seq(Inputs)
  <2>1. \A i \in 1..Len(c) : c[i].buf \in Inputs
    <3>1. \A i \in 1..Len(c) : c[i] \in Entries
      OBVIOUS
    <3> QED
      BY <3>1 DEF Entries
  <2>2. DOMAIN c = 1..Len(c) /\ Len(c) \in Nat
    OBVIOUS
  <2> QED
    BY <2>1, <2>2
<1> HIDE DEF bufs
<1>3. Min({SeedCap, Len(bufs)}) = (IF SeedCap <= Len(bufs) THEN SeedCap ELSE Len(bufs))
  BY <1>2, SeedsAreInputs, MinOfTwo
<1>4. queue \in Seq(Inputs)
  <2>1. PICK n \in 0..Len(bufs) : n = Min({SeedCap, Len(bufs)})
    BY <1>2, <1>3, SeedsAreInputs
  <2>2. SubSeq(bufs, 1, n) \in Seq(Inputs)
    <3>1. \A i \in 1..n : bufs[i] \in Inputs
      BY <1>2, <2>1
    <3>2. n \in Nat /\ 1 \in Nat
      BY <2>1
    <3> QED
      BY <1>2, <3>1, <3>2, SubSeqProperties
  <2> QED
    BY <2>1, <2>2
<1> HIDE DEF queue
<1>5. ToSet(queue) \in SUBSET Inputs
  BY <1>4 DEF ToSet
<1>6. 0 \in 0..MaxBranches /\ 0 \in Nat
  BY FileOpAssumption
<1>7. camp' \in Campaigns(Ops) /\ CampPc' = "queue" /\ CampOp' = op /\ CampEntries' = c
  BY <1>1, <1>4, <1>5, <1>6 DEF Campaigns, CampPc, CampOp, CampEntries
<1>8. kernel' \in Kernels /\ UNCHANGED <<KLog, KExc, Dead>> /\ Cpu' = "concolic"
  BY <1>1, OtherEngine
<1> QED
  BY <1>7, <1>8

LEMMA BeginOpKeeps == ASSUME ReportsInv, todo \in Seq(Ops), opts.auto # "canned", opts.auto # "off", BeginOp PROVE ReportsInv'
<1>1. /\ KoTyped /\ phase = "campaigns" /\ todo # <<>> /\ Dead = Nothing
      /\ UNCHANGED <<opts, engine, image, report, todo, pattern, left, firstReport, answer, logged, killer>>
  BY DEF BeginOp, ReportsInv, history, Dead
<1>2. report' \in KoReports /\ UNCHANGED <<RInit, RError, RLog, RExc, Bug, Sent, Cleaned, By>>
  BY <1>1, SameReport
<1>3. Head(todo) \in Ops
  BY <1>1
<1>4. opts.auto \in {"fuzz", "concolic", "both"}
  BY <1>1, ModuleAssumption DEF KoTyped
<1>5. CASE opts.auto = "concolic"
  <2> DEFINE c == [i \in DOMAIN Seeds |-> Entry(Seeds[i], Nothing, "seed")]
  <2>1. ConcolicStart(Head(todo), c) /\ phase' = "concolic"
    BY <1>5 DEF BeginOp
  <2>2. c \in Seq(Entries)
    <3>1. \A i \in 1..Len(Seeds) : Entry(Seeds[i], Nothing, "seed") \in Entries
      BY SeedsAreInputs, EntryIs
    <3>2. DOMAIN Seeds = 1..Len(Seeds) /\ Len(Seeds) \in Nat
      BY SeedsAreInputs
    <3> QED
      BY <3>1, <3>2
  <2> HIDE DEF c
  <2>3. /\ camp' \in Campaigns(Ops) /\ CampPc' = "queue" /\ CampOp' = Head(todo)
        /\ kernel' \in Kernels /\ UNCHANGED <<KLog, KExc, Dead>> /\ Cpu' = "concolic"
    BY <1>1, <1>3, <2>1, <2>2, ConcolicStarts
  <2>4. KoTyped' /\ LogsSpliced' /\ StopsKnown' /\ AttemptsKnown'
    BY <1>1, <1>2, <2>1, <2>3, DriveGoesOn DEF Driving
  <2>5. CampKnown'
    BY <1>1, <1>5, <2>1, <2>3 DEF CampKnown, ConcolicCamp
  <2> QED
    BY <2>4, <2>5 DEF ReportsInv
<1>6. CASE opts.auto # "concolic"
  <2>1. FuzzStart(Head(todo)) /\ phase' = "fuzz" /\ UNCHANGED kernel
    BY <1>6 DEF BeginOp
  <2>2. camp' \in Campaigns(Ops) /\ CampPc' = "seed" /\ CampOp' = Head(todo) /\ CampEntries' = <<>> /\ CampDone' = 0
    <3>1. <<>> \in Seq(Entries) /\ <<>> \in Seq(Inputs) /\ {} \in SUBSET Inputs /\ 0 \in 0..MaxBranches /\ 0 \in Nat
      BY FileOpAssumption
    <3> QED
      BY <1>3, <2>1, <3>1 DEF FuzzStart, Campaigns, CampPc, CampOp, CampEntries, CampDone
  <2>3. kernel' \in Kernels /\ UNCHANGED <<KLog, KExc, Dead, Cpu>>
    BY <1>1, <2>1, SameKernel
  <2>4. KoTyped' /\ LogsSpliced' /\ StopsKnown' /\ AttemptsKnown'
    BY <1>1, <1>2, <2>1, <2>3, DriveGoesOn DEF Driving
  <2>5. FuzzCamp'
    <3>1. <<>> \in Seq(Executed) /\ Len(<<>>) = 0 /\ 0 < Cap /\ 0 <= Cap /\ 0 < SeedCount
      BY SeedsAreInputs
    <3>2. SeedCount' = SeedCount
      OBVIOUS
    <3> QED
      BY <1>1, <1>4, <1>6, <2>2, <3>1 DEF FuzzCamp
  <2>6. CampKnown'
    BY <1>1, <2>1, <2>2, <2>3, <2>5 DEF ReportsInv, CampKnown
  <2> QED
    BY <2>4, <2>6 DEF ReportsInv
<1> QED
  BY <1>5, <1>6

LEMMA FuzzToConcolicKeeps == ASSUME ReportsInv, FuzzToConcolic PROVE ReportsInv'
<1>1. /\ KoTyped /\ phase = "fuzz" /\ phase' = "concolic" /\ opts.auto = "both"
      /\ ConcolicStart(CampOp, CampEntries) /\ CampPc = "loop"
      /\ UNCHANGED <<opts, engine, image, report, todo, left, firstReport, logged, killer>>
  BY DEF FuzzToConcolic, ReportsInv, history, CampOp, CampEntries, FuzzOver, CampPc
<1>2. camp \in Campaigns(Ops) /\ Dead = Nothing /\ todo # <<>> /\ CampOp = Head(todo) /\ FuzzCamp
  BY <1>1 DEF ReportsInv, CampKnown
<1>3. CampOp \in Ops /\ CampEntries \in Seq(Entries)
  BY <1>2, CampTyped
<1>4. /\ camp' \in Campaigns(Ops) /\ CampPc' = "queue" /\ CampOp' = CampOp /\ CampEntries' = CampEntries
      /\ kernel' \in Kernels /\ UNCHANGED <<KLog, KExc, Dead>> /\ Cpu' = "concolic"
  BY <1>1, <1>3, ConcolicStarts
<1>5. report' \in KoReports /\ UNCHANGED <<RInit, RError, RLog, RExc, Bug, Sent, Cleaned, By>>
  BY <1>1, SameReport
<1>6. KoTyped' /\ LogsSpliced' /\ StopsKnown' /\ AttemptsKnown'
  BY <1>1, <1>4, <1>5, DriveGoesOn DEF Driving
<1>7. CampEntries # <<>> /\ CampEntries[1].res = "ran"
  <2>1. CampEntries # <<>> /\ CampEntries \in Seq(Executed)
    BY <1>1, <1>2 DEF FuzzCamp
  <2>2. CampEntries[1] \in Executed
    BY <2>1, EmptySeq
  <2> QED
    BY <2>1, <2>2 DEF Executed
<1>8. CampKnown'
  BY <1>1, <1>2, <1>4, <1>7 DEF CampKnown, ConcolicCamp
<1> QED
  BY <1>6, <1>8 DEF ReportsInv

\* What the end of a campaign adds to the results: entries of its operation only, and for the
\* fuzzer and for both one at least.
LEMMA EndOpAdds ==
    ASSUME ReportsInv, EndOp
    PROVE  \E new \in Seq(Outcomes) :
              /\ report' = [report EXCEPT !.auto = AutoOps \o new]
              /\ \A i \in 1..Len(new) :
                    new[i].op = CampOp /\ new[i].by \in {"seed", "fuzz", "concolic", "summary"}
              /\ opts.auto \in {"fuzz", "both"} => Len(new) \in 1..(MaxResults + 1)
<1> DEFINE c == IF opts.auto = "both" THEN Merged(CampEntries) ELSE CampEntries
           t == TakenOver(c)
           results == [i \in DOMAIN t |-> Result(CampOp, t[i].by, t[i].res)]
           summary == IF opts.auto = "fuzz" THEN <<Result(CampOp, "summary", "ok")>> ELSE <<>>
<1>1. report' = [report EXCEPT !.auto = (AutoOps \o results) \o summary]
  BY DEF EndOp, CampOp, CampEntries, AutoOps
<1>2. /\ camp \in Campaigns(Ops) /\ phase \in {"fuzz", "concolic"}
      /\ phase = "fuzz" => FuzzCamp /\ opts.auto = "fuzz" /\ CampPc = "loop"
      /\ phase = "concolic" => ConcolicCamp
      /\ KoTyped
  BY DEF EndOp, ReportsInv, CampKnown, FuzzOver, CampPc
<1>3. CampOp \in Ops /\ CampEntries \in Seq(Entries)
  BY <1>2, CampTyped
<1>4. Merged(CampEntries) \in Seq(Entries) /\ (CampEntries # <<>> => Merged(CampEntries) # <<>> /\ Merged(CampEntries)[1] = CampEntries[1])
  BY <1>3, MergedIs
<1>5. c \in Seq(Entries)
  BY <1>3, <1>4
<1>6. opts.auto = "both" => c # <<>> /\ c[1].res # Nothing
  <2> SUFFICES ASSUME opts.auto = "both" PROVE c # <<>> /\ c[1].res # Nothing
    OBVIOUS
  <2>1. CampEntries # <<>> /\ CampEntries[1].res = "ran"
    BY <1>2 DEF ConcolicCamp
  <2> QED
    BY <1>4, <2>1, NothingIs
<1> HIDE DEF c
<1>7. /\ t \in Seq(Entries) /\ Len(t) <= MaxResults
      /\ \A k \in 1..Len(t) : t[k].res # Nothing
      /\ opts.auto = "both" => Len(t) >= 1
  BY <1>5, <1>6, TakenOverIs
<1> HIDE DEF t
<1>8. /\ Len(t) \in Nat /\ MaxResults \in Nat /\ MaxResults >= 1 /\ DOMAIN t = 1..Len(t)
  BY <1>7, ModuleAssumption
<1>9. ASSUME NEW i \in 1..Len(t)
      PROVE  Result(CampOp, t[i].by, t[i].res) \in Outcomes /\ t[i].by \in {"seed", "fuzz", "concolic"}
  <2>1. t[i] \in Entries /\ t[i].res # Nothing
    BY <1>7
  <2>2. t[i].by \in {"seed", "fuzz", "concolic"} /\ t[i].res = "ran"
    BY <2>1 DEF Entries
  <2> QED
    BY <1>3, <2>2 DEF Result, Outcomes
<1>10. /\ results \in Seq(Outcomes) /\ Len(results) = Len(t)
       /\ \A i \in 1..Len(t) : results[i] = Result(CampOp, t[i].by, t[i].res)
  BY <1>8, <1>9
<1>11. \A i \in 1..Len(results) : results[i].op = CampOp /\ results[i].by \in {"seed", "fuzz", "concolic", "summary"}
  BY <1>9, <1>10 DEF Result
<1>12. PICK r \in Seq(Outcomes) :
          /\ r = results /\ Len(r) = Len(t)
          /\ \A i \in 1..Len(r) : r[i].op = CampOp /\ r[i].by \in {"seed", "fuzz", "concolic", "summary"}
  BY <1>10, <1>11
<1>13. PICK s \in Seq(Outcomes) :
          /\ s = summary /\ Len(s) = (IF opts.auto = "fuzz" THEN 1 ELSE 0)
          /\ \A i \in 1..Len(s) : s[i].op = CampOp /\ s[i].by \in {"seed", "fuzz", "concolic", "summary"}
  <2>1. PICK e \in Outcomes : e = Result(CampOp, "summary", "ok") /\ e.op = CampOp /\ e.by = "summary"
    <3>1. Result(CampOp, "summary", "ok") \in Outcomes
      BY <1>3 DEF Result, Outcomes
    <3>2. Result(CampOp, "summary", "ok").op = CampOp /\ Result(CampOp, "summary", "ok").by = "summary"
      BY DEF Result
    <3> QED
      BY <3>1, <3>2
  <2>2. summary = IF opts.auto = "fuzz" THEN <<e>> ELSE <<>>
    BY <2>1
  <2> HIDE DEF summary
  <2>3. CASE opts.auto = "fuzz"
    <3>1. summary = <<e>>
      BY <2>2, <2>3
    <3>2. summary \in Seq(Outcomes) /\ Len(summary) = 1 /\ summary[1] = e
      BY <2>1, <3>1
    <3>3. \A i \in 1..Len(summary) : i = 1
      BY <3>2
    <3> QED
      BY <2>1, <2>3, <3>2, <3>3
  <2>4. CASE opts.auto # "fuzz"
    <3>1. summary = <<>>
      BY <2>2, <2>4
    <3>2. summary \in Seq(Outcomes) /\ Len(summary) = 0 /\ 1..0 = {}
      BY <3>1
    <3> QED
      BY <2>4, <3>2
  <2> QED
    BY <2>3, <2>4
<1>14. PICK n : n = r \o s
  OBVIOUS
<1>15. /\ n \in Seq(Outcomes) /\ Len(n) = Len(r) + Len(s)
       /\ \A i \in 1..Len(n) : n[i] = IF i <= Len(r) THEN r[i] ELSE s[i - Len(r)]
  BY <1>14, ConcatProperties
<1>16. \A i \in 1..Len(n) : n[i].op = CampOp /\ n[i].by \in {"seed", "fuzz", "concolic", "summary"}
  <2> SUFFICES ASSUME NEW i \in 1..Len(n)
               PROVE  n[i].op = CampOp /\ n[i].by \in {"seed", "fuzz", "concolic", "summary"}
    OBVIOUS
  <2>1. Len(r) \in Nat /\ Len(s) \in Nat
    OBVIOUS
  <2>2. CASE i <= Len(r)
    <3>1. i \in 1..Len(r)
      BY <2>1, <2>2
    <3> QED
      BY <1>12, <1>15, <2>2, <3>1
  <2>3. CASE ~(i <= Len(r))
    <3>1. i - Len(r) \in 1..Len(s)
      BY <1>15, <2>1, <2>3
    <3> QED
      BY <1>13, <1>15, <2>3, <3>1
  <2> QED
    BY <2>2, <2>3
<1>17. report' = [report EXCEPT !.auto = AutoOps \o n]
  <2>2. PICK a \in Seq(Outcomes) : a = AutoOps
    BY <1>2, PartsTyped
  <2>1. (a \o r) \o s = a \o (r \o s)
    BY ConcatAssociative
  <2> HIDE DEF results, summary
  <2> QED
    BY <1>1, <1>12, <1>13, <1>14, <2>1, <2>2
<1>18. opts.auto \in {"fuzz", "both"} => Len(n) \in 1..(MaxResults + 1)
  BY <1>7, <1>8, <1>12, <1>13, <1>15
<1> QED
  BY <1>15, <1>16, <1>17, <1>18

LEMMA EndOpKeeps ==
    ASSUME ReportsInv, EndOp
    PROVE  /\ ReportsInv' /\ UNCHANGED <<Found, Dead, Bug>>
           /\ \E new \in Seq(Outcomes) :
                 /\ AutoOps' = AutoOps \o new
                 /\ \A i \in 1..Len(new) :
                       new[i].op = CampOp /\ new[i].by \in {"seed", "fuzz", "concolic", "summary"}
                 /\ opts.auto \in {"fuzz", "both"} => Len(new) \in 1..(MaxResults + 1)
<1>1. /\ KoTyped /\ phase \in {"fuzz", "concolic"} /\ phase' = "campaigns" /\ camp' = Nothing
      /\ kernel' = [kernel EXCEPT !.cpu = "own"]
      /\ UNCHANGED <<opts, engine, image, left, firstReport, logged, killer>>
  BY DEF EndOp, ReportsInv, history
<1>2. PICK new \in Seq(Outcomes) :
         /\ report' = [report EXCEPT !.auto = AutoOps \o new]
         /\ \A i \in 1..Len(new) :
               new[i].op = CampOp /\ new[i].by \in {"seed", "fuzz", "concolic", "summary"}
         /\ opts.auto \in {"fuzz", "both"} => Len(new) \in 1..(MaxResults + 1)
  BY EndOpAdds
<1>3. PICK a \in Seq(Outcomes) : a = AutoOps \o new
  <2>1. AutoOps \in Seq(Outcomes)
    BY <1>1, PartsTyped
  <2>2. AutoOps \o new \in Seq(Outcomes)
    BY <2>1, ConcatProperties
  <2> QED
    BY <2>2
<1>4. report' = [report EXCEPT !.auto = a]
  BY <1>2, <1>3
<1>5. /\ report' \in KoReports /\ UNCHANGED <<RInit, RError, RLog, RExc, Bug, Sent, Cleaned, By, Found>>
      /\ AutoOps' = a
  BY <1>1, <1>4 DEF KoTyped, KoReports, RInit, RError, RLog, RExc, Bug, AutoOps, Sent, Cleaned, By, Found
<1>6. kernel' \in Kernels /\ UNCHANGED <<KLog, KExc, Dead>> /\ Cpu' = "own"
  BY <1>1, OtherEngine
<1>7. KoTyped' /\ LogsSpliced' /\ StopsKnown' /\ AttemptsKnown'
  BY <1>1, <1>5, <1>6, DriveGoesOn DEF Driving
<1>8. CampKnown'
  BY <1>1, <1>6 DEF CampKnown
<1> QED
  BY <1>2, <1>3, <1>5, <1>6, <1>7, <1>8 DEF ReportsInv

LEMMA DrivenKeeps ==
    ASSUME ReportsInv, Driven
    PROVE  ReportsInv' /\ UNCHANGED <<AutoOps, Found, Dead>> /\ Bug' = Dead
<1>1. KoTyped /\ LogsSpliced /\ StopsKnown /\ AttemptsKnown /\ CampKnown
  BY DEF ReportsInv
<1>2. /\ phase = "driven" /\ phase' = "explicit"
      /\ report' = Bugchecked(Spliced(report, kernel.log, kernel.exc), kernel.dead)
      /\ kernel' = Drained(kernel)
      /\ UNCHANGED <<camp, opts, engine, image, left, firstReport, logged, killer>>
  BY DEF Driven, history
<1>3. PICK r \in KoReports, l \in Seq(Steps), x \in Seq(Steps), d \in {Nothing} \cup Stops :
         r = report /\ l = KLog /\ x = KExc /\ d = Dead
  BY <1>1, PartsTyped DEF KoTyped
<1>4. PICK s : s = Spliced(r, l, x)
  OBVIOUS
<1>5. /\ s \in KoReports /\ s.log = r.log \o l /\ s.exc = r.exc \o x
      /\ s.init = r.init /\ s.error = r.error /\ s.bugcheck = r.bugcheck /\ s.engine = r.engine
      /\ s.harvested = r.harvested /\ s.auto = r.auto /\ s.ops = r.ops /\ s.cleanup = r.cleanup
  BY <1>4, SplicedIs
<1>6. PICK q : q = Bugchecked(s, d)
  OBVIOUS
<1>7. /\ q \in KoReports /\ q.bugcheck = IF d # Nothing THEN d ELSE s.bugcheck
      /\ q.init = s.init /\ q.error = s.error /\ q.log = s.log /\ q.exc = s.exc /\ q.engine = s.engine
      /\ q.harvested = s.harvested /\ q.auto = s.auto /\ q.ops = s.ops /\ q.cleanup = s.cleanup
  BY <1>5, <1>6, BugcheckedIs
<1>8. report' = q
  BY <1>2, <1>3, <1>4, <1>6 DEF KLog, KExc, Dead
<1>9. /\ report' \in KoReports /\ UNCHANGED <<RInit, RError, By, AutoOps, Sent, Cleaned, Found>>
      /\ RLog' = RLog \o KLog /\ RExc' = RExc \o KExc /\ Bug' = IF Dead # Nothing THEN Dead ELSE Bug
  BY <1>3, <1>5, <1>7, <1>8 DEF RInit, RError, RLog, RExc, Bug, By, AutoOps, Sent, Cleaned, Found
<1>10. kernel' \in Kernels /\ KLog' = <<>> /\ KExc' = <<>> /\ Dead' = Dead /\ Cpu' = Cpu
  BY <1>1, <1>2, DrainedIs DEF KoTyped, KLog, KExc, Dead, Cpu
<1>11. Bug = Nothing /\ Bug' = Dead /\ RInit = "ok"
  BY <1>1, <1>2, <1>9 DEF StopsKnown, Driving
<1>12. /\ RLog' \o <<>> = RLog' /\ RExc' \o <<>> = RExc' /\ Len(<<>>) = 0 /\ Phases(<<>>) = {}
  BY <1>1, <1>9, PartsTyped DEF Phases
<1>13. KoTyped'
  <2>1. MaxLog \in Nat
    BY <1>1, PartsTyped
  <2> QED
    BY <1>1, <1>2, <1>9, <1>10, <1>12, <2>1 DEF KoTyped, Turns
<1>14. LogsSpliced'
  BY <1>1, <1>2, <1>9, <1>10, <1>12 DEF LogsSpliced, Driving
<1>15. StopsKnown'
  <2>1. Sent = <<>> /\ Cleaned = Nothing /\ killer # "init"
    BY <1>1, <1>2, <1>11 DEF StopsKnown, Driving
  <2> QED
    BY <1>1, <1>2, <1>9, <1>10, <1>11, <2>1 DEF StopsKnown, Driving
<1> QED
  BY <1>1, <1>2, <1>9, <1>10, <1>11, <1>13, <1>14, <1>15, SameAttempt, SameCamp DEF ReportsInv

LEMMA SendExplicitKeeps ==
    ASSUME ReportsInv, SendExplicit
    PROVE  ReportsInv' /\ UNCHANGED <<AutoOps, Found>> /\ RInit = "ok" /\ Bug = Nothing
           /\ phase' = "explicit" /\ phase = "explicit"
           /\ sentDead' \in {sentDead, Append(sentDead, "explicit")}
           /\ (Dead = Nothing => sentDead' = sentDead)
           /\ (killer # Nothing => killer' = killer) /\ killer' \in {killer, "explicit"}
<1>1. KoTyped /\ LogsSpliced /\ StopsKnown /\ AttemptsKnown /\ CampKnown
  BY DEF ReportsInv
<1>2. /\ phase = "explicit" /\ phase' = phase /\ left > 0 /\ RInit = "ok" /\ Bug = Nothing
      /\ UNCHANGED <<camp, opts, engine, image, firstReport>>
  BY DEF SendExplicit, AtExplicit, GoesOn, RInit, Bug
<1>3. PICK k \in Ran(kernel, "explicit"), res \in Statuses :
         /\ report' = Spliced([report EXCEPT !.ops = Append(report.ops, res)], k.log, k.exc)
         /\ kernel' = Drained(k) /\ Noted(k, "explicit")
         /\ left' = IF res = "fault" THEN 0 ELSE left - 1
  BY DEF SendExplicit
<1>4. PICK l \in Seq(Steps), x \in Seq(Steps), d \in {Nothing} \cup Stops :
         /\ k \in Kernels /\ k.log = l /\ k.exc = x /\ k.dead = d /\ k.cpu = Cpu
         /\ RLog \o l = logged' /\ logged' \in Seq(Steps)
         /\ Len(l) <= MaxLog /\ Len(RExc \o x) <= MaxLog
         /\ Phases(x) \subseteq Phases(KExc) \cup {"explicit"}
         /\ Dead # Nothing => d = Dead
         /\ killer' = IF Dead = Nothing /\ d # Nothing THEN "explicit" ELSE killer
         /\ killer' = Nothing <=> d = Nothing
         /\ killer' \in Steps \cup {Nothing}
         /\ sentDead' = IF Dead = Nothing THEN sentDead ELSE Append(sentDead, "explicit")
  <2>1. "explicit" \in Steps
    BY DEF Steps
  <2> QED
    BY <1>1, <1>3, <2>1, CallNoted
<1>5. PICK o \in Seq(Statuses) : o = Append(report.ops, res)
  <2>1. report.ops \in Seq(Statuses)
    BY <1>1, PartsTyped DEF Sent
  <2>2. Append(report.ops, res) \in Seq(Statuses)
    BY <2>1
  <2> QED
    BY <2>2
<1>6. PICK r : r = [report EXCEPT !.ops = o]
  OBVIOUS
<1>7. /\ r \in KoReports /\ r.init = RInit /\ r.error = RError
      /\ r.log = RLog /\ r.exc = RExc /\ r.bugcheck = Bug /\ r.engine = By /\ r.auto = AutoOps
      /\ r.ops = o /\ r.cleanup = Cleaned /\ r.harvested = Found
  BY <1>1, <1>6 DEF KoTyped, KoReports, RInit, RError, RLog, RExc, Bug, By, AutoOps, Cleaned, Found
<1>8. PICK s : s = Spliced(r, l, x)
  OBVIOUS
<1>9. /\ s \in KoReports /\ s.init = RInit /\ s.error = RError
      /\ s.log = RLog \o l /\ s.exc = RExc \o x /\ s.bugcheck = Bug /\ s.engine = By /\ s.auto = AutoOps
      /\ s.ops = o /\ s.cleanup = Cleaned /\ s.harvested = Found
  BY <1>7, <1>8, SplicedIs
<1>10. report' = s
  BY <1>3, <1>4, <1>5, <1>6, <1>8
<1>11. /\ report' \in KoReports /\ UNCHANGED <<RInit, RError, Bug, By, AutoOps, Cleaned, Found>>
       /\ RLog' = RLog \o l /\ RExc' = RExc \o x /\ Sent' = o
  BY <1>9, <1>10 DEF RInit, RError, RLog, RExc, Bug, By, AutoOps, Sent, Cleaned, Found
<1>12. kernel' \in Kernels /\ KLog' = <<>> /\ KExc' = <<>> /\ Dead' = d /\ Cpu' = Cpu
  BY <1>3, <1>4, DrainedIs DEF KLog, KExc, Dead, Cpu
<1>13. /\ RLog' \o <<>> = RLog' /\ RExc' \o <<>> = RExc' /\ Len(<<>>) = 0 /\ Phases(<<>>) = {}
  BY <1>1, <1>11, PartsTyped DEF Phases
<1>14. left' \in 0..opts.explicit /\ MaxLog \in Nat
  BY <1>1, <1>2, <1>3, PartsTyped DEF KoTyped
<1>15. KoTyped'
  BY <1>1, <1>2, <1>4, <1>11, <1>12, <1>13, <1>14 DEF KoTyped
<1>16. LogsSpliced'
  BY <1>2, <1>4, <1>11, <1>12, <1>13 DEF LogsSpliced
<1>17. StopsKnown'
  <2>1. /\ killer # "init" /\ (killer = Nothing <=> Dead = Nothing)
        /\ Bug = Dead \/ killer \in {"deferred", "explicit", "cleanup"}
        /\ Cleaned = Nothing
    BY <1>1, <1>2 DEF StopsKnown
  <2>2. killer' # "init"
    BY <1>4, <2>1
  <2>3. Bug' = Dead' \/ killer' \in {"deferred", "explicit", "cleanup"}
    BY <1>2, <1>4, <1>11, <1>12, <2>1
  <2>4. Bug' \in {Nothing, Dead'} /\ (killer' = Nothing <=> Dead' = Nothing) /\ Cleaned' = Nothing
    BY <1>2, <1>4, <1>11, <1>12, <2>1
  <2> QED
    BY <1>2, <1>11, <2>2, <2>3, <2>4 DEF StopsKnown, Driving
<1>18. ReportsInv'
  BY <1>1, <1>2, <1>12, <1>15, <1>16, <1>17, SameAttempt, SameCamp DEF ReportsInv
<1>19. killer # Nothing => killer' = killer
  BY <1>1, <1>4 DEF StopsKnown
<1> QED
  BY <1>2, <1>4, <1>11, <1>18, <1>19

LEMMA RunCleanupKeeps ==
    ASSUME ReportsInv, RunCleanup
    PROVE  ReportsInv' /\ UNCHANGED <<AutoOps, Found>> /\ Bug = Nothing
           /\ phase' = "over" /\ phase = "explicit"
           /\ (Dead = Nothing => sentDead' = sentDead)
           /\ (killer # Nothing => killer' = killer) /\ killer' \in {killer, "cleanup"}
<1>1. KoTyped /\ LogsSpliced /\ StopsKnown /\ AttemptsKnown /\ CampKnown
  BY DEF ReportsInv
<1>2. /\ phase = "explicit" /\ phase' = "over" /\ RInit = "ok" /\ Bug = Nothing
      /\ UNCHANGED <<camp, opts, engine, image, left, firstReport>>
  BY DEF RunCleanup, CleansUp, GoesOn, RInit, Bug
<1>3. PICK k \in Ran(kernel, "cleanup"), res \in Statuses :
         /\ report' = Spliced([report EXCEPT !.cleanup = res], k.log, <<>>)
         /\ kernel' = [k EXCEPT !.log = <<>>] /\ Noted(k, "cleanup")
  BY DEF RunCleanup
<1>4. PICK l \in Seq(Steps), x \in Seq(Steps), d \in {Nothing} \cup Stops :
         /\ k \in Kernels /\ k.log = l /\ k.exc = x /\ k.dead = d /\ k.cpu = Cpu
         /\ RLog \o l = logged' /\ logged' \in Seq(Steps)
         /\ Len(l) <= MaxLog /\ Len(RExc \o x) <= MaxLog
         /\ Phases(x) \subseteq Phases(KExc) \cup {"cleanup"}
         /\ Dead # Nothing => d = Dead
         /\ killer' = IF Dead = Nothing /\ d # Nothing THEN "cleanup" ELSE killer
         /\ killer' = Nothing <=> d = Nothing
         /\ killer' \in Steps \cup {Nothing}
         /\ sentDead' = IF Dead = Nothing THEN sentDead ELSE Append(sentDead, "cleanup")
  <2>1. "cleanup" \in Steps
    BY DEF Steps
  <2> QED
    BY <1>1, <1>3, <2>1, CallNoted
<1>5. PICK e \in Seq(Steps) : e = <<>>
  <2>1. <<>> \in Seq(Steps)
    OBVIOUS
  <2> QED
    BY <2>1
<1>6. PICK r : r = [report EXCEPT !.cleanup = res]
  OBVIOUS
<1>7. /\ r \in KoReports /\ r.init = RInit /\ r.error = RError
      /\ r.log = RLog /\ r.exc = RExc /\ r.bugcheck = Bug /\ r.engine = By /\ r.auto = AutoOps
      /\ r.ops = Sent /\ r.harvested = Found
  BY <1>1, <1>6 DEF KoTyped, KoReports, RInit, RError, RLog, RExc, Bug, By, AutoOps, Sent, Found
<1>8. PICK s : s = Spliced(r, l, e)
  OBVIOUS
<1>9. /\ s \in KoReports /\ s.init = RInit /\ s.error = RError
      /\ s.log = RLog \o l /\ s.exc = RExc \o e /\ s.bugcheck = Bug /\ s.engine = By /\ s.auto = AutoOps
      /\ s.ops = Sent /\ s.harvested = Found
  BY <1>7, <1>8, SplicedIs
<1>10. report' = s
  BY <1>3, <1>4, <1>5, <1>6, <1>8
<1>11. /\ report' \in KoReports /\ UNCHANGED <<RInit, RError, Bug, By, AutoOps, Sent, Found>>
       /\ RLog' = RLog \o l /\ RExc' = RExc \o e
  BY <1>9, <1>10 DEF RInit, RError, RLog, RExc, Bug, By, AutoOps, Sent, Found
<1>12. kernel' \in Kernels /\ KLog' = e /\ KExc' = x /\ Dead' = d /\ Cpu' = Cpu
  <2>1. kernel' = [k EXCEPT !.log = e]
    BY <1>3, <1>5
  <2> QED
    BY <1>4, <2>1 DEF Kernels, KLog, KExc, Dead, Cpu
<1>13. RLog' \o e = RLog' /\ RExc \o e = RExc /\ Len(e) = 0
  <2>1. RLog' \in Seq(Steps) /\ RExc \in Seq(Steps)
    BY <1>1, <1>4, <1>11, PartsTyped
  <2> QED
    BY <1>5, <2>1
<1>14. KoTyped'
  <2>1. MaxLog \in Nat
    BY <1>1, PartsTyped
  <2> QED
    BY <1>1, <1>2, <1>4, <1>11, <1>12, <1>13, <2>1 DEF KoTyped, Turns
<1>15. LogsSpliced'
  <2>1. Phases(KExc) \subseteq {"deferred"}
    BY <1>1, <1>2 DEF LogsSpliced, Driving
  <2> QED
    BY <1>2, <1>4, <1>5, <1>11, <1>12, <1>13, <2>1 DEF LogsSpliced
<1>16. StopsKnown'
  <2>1. /\ killer # "init" /\ (killer = Nothing <=> Dead = Nothing)
        /\ Bug = Dead \/ killer \in {"deferred", "explicit", "cleanup"}
    BY <1>1, <1>2 DEF StopsKnown
  <2>2. killer' # "init"
    BY <1>4, <2>1
  <2>3. Bug' = Dead' \/ killer' \in {"deferred", "explicit", "cleanup"}
    BY <1>2, <1>4, <1>11, <1>12, <2>1
  <2>4. Bug' \in {Nothing, Dead'} /\ (killer' = Nothing <=> Dead' = Nothing)
    BY <1>2, <1>4, <1>11, <1>12, <2>1
  <2> QED
    BY <1>2, <1>11, <2>2, <2>3, <2>4 DEF StopsKnown, Driving
<1>17. ReportsInv'
  BY <1>1, <1>2, <1>12, <1>14, <1>15, <1>16, SameAttempt, SameCamp DEF ReportsInv
<1>18. killer # Nothing => killer' = killer
  BY <1>1, <1>4 DEF StopsKnown
<1> QED
  BY <1>2, <1>4, <1>11, <1>17, <1>18

LEMMA NoCleanupKeeps ==
    ASSUME ReportsInv, NoCleanup
    PROVE  ReportsInv' /\ UNCHANGED <<AutoOps, Found, Bug>>
<1>1. /\ phase = "explicit" /\ phase' = "over"
      /\ UNCHANGED <<report, kernel, camp, opts, engine, image, left, firstReport, logged, killer>>
  BY DEF NoCleanup, Unloaded, history
<1>2. KoTyped /\ LogsSpliced /\ StopsKnown /\ AttemptsKnown /\ CampKnown
  BY DEF ReportsInv
<1>3. /\ UNCHANGED <<RInit, RError, RLog, RExc, Bug, AutoOps, Sent, Cleaned, By, Found>>
      /\ UNCHANGED <<KLog, KExc, Dead, Cpu>>
  BY <1>1, <1>2, SameReport, SameKernel
<1>4. KoTyped'
  BY <1>1, <1>2, <1>3 DEF KoTyped, Turns
<1>5. LogsSpliced'
  BY <1>1, <1>2, <1>3 DEF LogsSpliced, Driving
<1>6. StopsKnown'
  BY <1>1, <1>2, <1>3 DEF StopsKnown, Driving
<1> QED
  BY <1>1, <1>2, <1>3, <1>4, <1>5, <1>6, SameAttempt, SameCamp DEF ReportsInv

LEMMA RetryHybridKeeps == ASSUME ReportsInv, RetryHybrid PROVE ReportsInv'
<1>1. KoTyped /\ LogsSpliced /\ StopsKnown /\ AttemptsKnown /\ CampKnown
  BY DEF ReportsInv
<1>2. /\ phase = "over" /\ phase' = "load" /\ firstReport' = report /\ engine' = "hybrid" /\ engine = "js"
      /\ Refused(report) /\ kernel' = FreshKernel /\ report' = [FreshReport EXCEPT !.engine = "hybrid"]
      /\ left' = 0 /\ logged' = <<>> /\ killer' = Nothing
      /\ UNCHANGED <<camp, opts, image>>
  BY DEF RetryHybrid, Retries
<1>3. FreshKernel \in Kernels /\ FreshReport \in KoReports
  BY DEF FreshKernel, Kernels, FreshReport, KoReports
<1>4. KLog' = <<>> /\ KExc' = <<>> /\ Dead' = Nothing /\ Cpu' = "own"
  BY <1>2 DEF FreshKernel, KLog, KExc, Dead, Cpu
<1>5. /\ FreshReport.log = <<>> /\ FreshReport.exc = <<>> /\ FreshReport.bugcheck = Nothing
      /\ FreshReport.auto = <<>> /\ FreshReport.ops = <<>> /\ FreshReport.cleanup = Nothing
      /\ FreshReport.init = Nothing /\ FreshReport.error = Nothing
  BY DEF FreshReport
<1>6. PICK f \in KoReports : f = FreshReport
  BY <1>3
<1>7. /\ report' \in KoReports /\ By' = "hybrid" /\ RLog' = f.log /\ RExc' = f.exc /\ Bug' = f.bugcheck
      /\ AutoOps' = f.auto /\ Sent' = f.ops /\ Cleaned' = f.cleanup /\ RInit' = f.init /\ RError' = f.error
  <2>1. report' = [f EXCEPT !.engine = "hybrid"]
    BY <1>2, <1>6
  <2> QED
    BY <2>1 DEF KoReports, By, RLog, RExc, Bug, AutoOps, Sent, Cleaned, RInit, RError
<1>8. /\ RLog' = <<>> /\ RExc' = <<>> /\ Bug' = Nothing /\ AutoOps' = <<>>
      /\ Sent' = <<>> /\ Cleaned' = Nothing /\ RInit' = Nothing /\ RError' = Nothing
  BY <1>5, <1>6, <1>7
<1>9. opts.explicit \in Nat /\ MaxLog \in Nat
  BY <1>1, PartsTyped
<1>10. <<>> \o <<>> = <<>> /\ Len(<<>>) = 0 /\ Phases(<<>>) = {}
  BY DEF Phases
<1>11. KoTyped'
  BY <1>1, <1>2, <1>3, <1>4, <1>7, <1>8, <1>9, <1>10, NothingIs DEF KoTyped, Turns
<1>12. LogsSpliced'
  BY <1>2, <1>4, <1>8, <1>10 DEF LogsSpliced
<1>13. StopsKnown'
  <2>1. killer' # "init"
    BY <1>2, NothingIs DEF Steps
  <2> QED
    BY <1>2, <1>4, <1>8, <2>1 DEF StopsKnown, Driving
<1>14. AttemptsKnown'
  <2>1. firstReport' \in KoReports /\ firstReport'.engine = "js" /\ Refused(firstReport')
    BY <1>1, <1>2 DEF KoTyped, By
  <2> QED
    BY <1>2, <2>1 DEF AttemptsKnown
<1>15. CampKnown'
  BY <1>1, <1>2, <1>4 DEF CampKnown
<1> QED
  BY <1>11, <1>12, <1>13, <1>14, <1>15 DEF ReportsInv

\* The end of the analysis.
LEMMA DeliveredKeeps ==
    ASSUME ReportsInv, phase \in {"over", "open", "canned", "campaigns", "release", "explicit"}, phase' = "delivered",
           UNCHANGED <<kernel, camp, opts, engine, image, report, left, firstReport, logged, killer>>,
           AttemptsKnown'
    PROVE  ReportsInv' /\ UNCHANGED <<AutoOps, Found, Bug>>
<1>1. KoTyped /\ LogsSpliced /\ StopsKnown /\ CampKnown
  BY DEF ReportsInv
<1>2. /\ UNCHANGED <<RInit, RError, RLog, RExc, Bug, AutoOps, Sent, Cleaned, By, Found>>
      /\ UNCHANGED <<KLog, KExc, Dead, Cpu>>
  BY <1>1, SameReport, SameKernel
<1>3. KoTyped'
  BY <1>1, <1>2 DEF KoTyped, Turns
<1>4. LogsSpliced'
  BY <1>1, <1>2 DEF LogsSpliced
<1>5. StopsKnown'
  BY <1>1, <1>2 DEF StopsKnown, Driving
<1>6. CampKnown'
  BY <1>1, <1>2, SameCamp
<1> QED
  BY <1>2, <1>3, <1>4, <1>5, <1>6 DEF ReportsInv

LEMMA DeliverReportKeeps == ASSUME ReportsInv, DeliverReport PROVE ReportsInv' /\ UNCHANGED <<AutoOps, Found, Bug>>
<1>1. /\ phase = "over" /\ phase' = "delivered" /\ ~Retries
      /\ answer' = IF engine = "js" \/ KeepsSecond(report) THEN report ELSE firstReport
      /\ UNCHANGED <<kernel, camp, opts, engine, image, report, left, firstReport, logged, killer>>
  BY DEF DeliverReport, history
<1>2. engine \in {"js", "hybrid"} /\ AttemptsKnown
  BY DEF ReportsInv, KoTyped
<1>3. engine = "js" => ~(opts.fallback /\ Refused(report))
  BY <1>1 DEF Retries
<1>4. AttemptsKnown'
  BY <1>1, <1>2, <1>3 DEF AttemptsKnown
<1> QED
  BY <1>1, <1>4, DeliveredKeeps

LEMMA OpThrowsKeeps ==
    ASSUME ReportsInv, OpThrows
    PROVE  ReportsInv' /\ UNCHANGED <<AutoOps, Found, Bug>> /\ phase \in {"open", "canned", "campaigns", "release", "explicit"}
<1>1. /\ phase \in {"open", "canned", "campaigns", "release", "explicit"} /\ phase' = "delivered"
      /\ answer' = IF engine = "js" THEN Thrown ELSE firstReport
      /\ UNCHANGED <<kernel, camp, opts, engine, image, report, left, firstReport, logged, killer>>
  BY DEF OpThrows, history, AtRelease, AtExplicit
<1>2. engine \in {"js", "hybrid"} /\ AttemptsKnown
  BY DEF ReportsInv, KoTyped
<1>3. AttemptsKnown'
  BY <1>1, <1>2 DEF AttemptsKnown
<1> QED
  BY <1>1, <1>3, DeliveredKeeps
-----------------------------------------------------------------------------
(* The drive.                                                              *)

\* What has been chosen is a list of operations of the module without repetitions, and an
\* operation's place is where it stands.
LEMMA ChosenIs ==
    ASSUME KoTyped
    PROVE  /\ Chosen \in Seq(Ops) /\ Len(Chosen) \in Nat
           /\ \A j, k \in 1..Len(Chosen) : Chosen[j] = Chosen[k] => j = k
           /\ \A p \in 1..Len(Chosen) : PlaceOf(Chosen[p]) = p
           /\ \A op \in ToSet(Chosen) : PlaceOf(op) \in 1..Len(Chosen) /\ Chosen[PlaceOf(op)] = op
<1>1. /\ Chosen \in Seq(Ops)
      /\ \A j, k \in 1..Len(Chosen) : Chosen[j] = Chosen[k] => j = k
  BY PartsTyped, UniqueIs DEF Chosen
<1>2. Len(Chosen) \in Nat /\ DOMAIN Chosen = 1..Len(Chosen)
  BY <1>1
<1>3. \A op : PlaceOf(op) = CHOOSE i \in DOMAIN Chosen : Chosen[i] = op
  BY DEF PlaceOf, Chosen, Found
<1>4. ASSUME NEW p \in 1..Len(Chosen) PROVE PlaceOf(Chosen[p]) = p
  <2>1. \E i \in DOMAIN Chosen : Chosen[i] = Chosen[p]
    BY <1>2
  <2>2. PlaceOf(Chosen[p]) \in DOMAIN Chosen /\ Chosen[PlaceOf(Chosen[p])] = Chosen[p]
    BY <1>3, <2>1
  <2> QED
    BY <1>1, <1>2, <2>2
<1>5. ASSUME NEW op \in ToSet(Chosen) PROVE PlaceOf(op) \in 1..Len(Chosen) /\ Chosen[PlaceOf(op)] = op
  <2>1. \E i \in DOMAIN Chosen : Chosen[i] = op
    BY DEF ToSet
  <2> QED
    BY <1>2, <1>3, <2>1
<1> QED
  BY <1>1, <1>2, <1>4, <1>5

\* Found stays, so does what was chosen.
LEMMA SameChosen == ASSUME UNCHANGED Found PROVE Chosen' = Chosen /\ \A op : PlaceOf(op)' = PlaceOf(op)
<1>1. report'.harvested = report.harvested
  BY DEF Found
<1> QED
  BY <1>1 DEF Chosen, PlaceOf, Found, Unique, Kept

\* The operation whose turn it is.
LEMMA TurnIs ==
    ASSUME KoTyped, TodoKnown, phase \in Turning, todo # <<>>
    PROVE  /\ Done \in Nat /\ Done + 1 \in 1..Len(Chosen) /\ Head(todo) = Chosen[Done + 1]
           /\ Head(todo) \in Ops /\ Head(todo) \in ToSet(Chosen) /\ PlaceOf(Head(todo)) = Done + 1
           /\ Tail(todo) \in Seq(Ops) /\ Len(Tail(todo)) = Len(todo) - 1
           /\ \A i \in 1..Len(Tail(todo)) : Tail(todo)[i] = Chosen[Done + 1 + i]
<1>1. /\ todo \in Seq(Ops) /\ Len(todo) <= Len(Chosen) /\ Len(Chosen) \in Nat /\ Chosen \in Seq(Ops)
      /\ \A i \in 1..Len(todo) : todo[i] = Chosen[Done + i]
  BY ChosenIs DEF TodoKnown
<1>2. Len(todo) \in Nat /\ Len(todo) >= 1
  BY <1>1, EmptySeq
<1>3. Done \in Nat /\ Done + 1 \in 1..Len(Chosen) /\ Done + Len(todo) = Len(Chosen)
  BY <1>1, <1>2 DEF Done
<1>4. Head(todo) = todo[1] /\ 1 \in 1..Len(todo)
  BY <1>1, <1>2
<1>5. Head(todo) = Chosen[Done + 1]
  BY <1>1, <1>4
<1>6. Head(todo) \in Ops /\ Head(todo) \in ToSet(Chosen) /\ PlaceOf(Head(todo)) = Done + 1
  <2>1. DOMAIN Chosen = 1..Len(Chosen)
    BY <1>1
  <2> QED
    BY <1>1, <1>3, <1>5, <2>1, ChosenIs DEF ToSet
<1>7. Tail(todo) \in Seq(Ops) /\ Len(Tail(todo)) = Len(todo) - 1
  BY <1>1, <1>2, HeadTailProperties
<1>8. ASSUME NEW i \in 1..Len(Tail(todo)) PROVE Tail(todo)[i] = Chosen[Done + 1 + i]
  <2>1. i + 1 \in 1..Len(todo) /\ i \in Nat
    BY <1>2, <1>7
  <2>2. Tail(todo)[i] = todo[i + 1]
    BY <1>1, <1>2, <1>8, HeadTailProperties
  <2>3. todo[i + 1] = Chosen[Done + (i + 1)]
    BY <1>1, <2>1
  <2>4. Done + (i + 1) = Done + 1 + i
    BY <1>3, <2>1
  <2> QED
    BY <2>2, <2>3, <2>4
<1> QED
  BY <1>3, <1>5, <1>6, <1>7, <1>8

\* Results are added at the end: those that were there stay where they were.
LEMMA AddedResults ==
    ASSUME NEW a \in Seq(Outcomes), NEW n \in Seq(Outcomes), NEW b, b = a \o n
    PROVE  /\ b \in Seq(Outcomes) /\ Len(b) = Len(a) + Len(n) /\ Len(a) \in Nat /\ Len(n) \in Nat
           /\ DOMAIN b = 1..Len(b) /\ DOMAIN a = 1..Len(a)
           /\ \A i \in 1..Len(a) : b[i] = a[i]
           /\ \A i \in (Len(a) + 1)..(Len(a) + Len(n)) : b[i] = n[i - Len(a)] /\ i - Len(a) \in 1..Len(n)
<1>1. /\ b \in Seq(Outcomes) /\ Len(b) = Len(a) + Len(n)
      /\ \A i \in 1..(Len(a) + Len(n)) : b[i] = IF i <= Len(a) THEN a[i] ELSE n[i - Len(a)]
  BY ConcatProperties
<1>2. Len(a) \in Nat /\ Len(n) \in Nat /\ DOMAIN b = 1..Len(b) /\ DOMAIN a = 1..Len(a)
  BY <1>1
<1>3. \A i \in 1..Len(a) : b[i] = a[i]
  BY <1>1, <1>2
<1>4. \A i \in (Len(a) + 1)..(Len(a) + Len(n)) : b[i] = n[i - Len(a)] /\ i - Len(a) \in 1..Len(n)
  BY <1>1, <1>2
<1> QED
  BY <1>1, <1>2, <1>3, <1>4

OfTurn(n, op) == \A i \in 1..Len(n) : n[i].op = op /\ n[i].by \notin {"open", "release"}

\* The results of an operation after those of one turn were added.
CountedAfter(o, a, n, b, op) ==
    /\ Cardinality(ResultsOf(o, a)) \in Nat
    /\ Cardinality(ResultsOf(o, b)) = Cardinality(ResultsOf(o, a)) + (IF o = op THEN Len(n) ELSE 0)

LEMMA CountedResults ==
    ASSUME NEW a \in Seq(Outcomes), NEW n \in Seq(Outcomes), NEW b, b = a \o n,
           NEW op, OfTurn(n, op), NEW o
    PROVE  CountedAfter(o, a, n, b, op)
<1> DEFINE K == Len(a)
           R == ResultsOf(o, a)
           Q == ResultsOf(o, b)
           T == (K + 1)..(K + Len(n))
<1>1. /\ Len(b) = K + Len(n) /\ K \in Nat /\ Len(n) \in Nat /\ DOMAIN b = 1..Len(b) /\ DOMAIN a = 1..K
      /\ \A i \in 1..K : b[i] = a[i]
      /\ \A i \in T : b[i] = n[i - K] /\ i - K \in 1..Len(n)
  BY AddedResults
<1>2. R = {i \in 1..K : a[i].by \notin {"open", "release"} /\ a[i].op = o}
  BY <1>1 DEF ResultsOf, Between
<1>3. Q = {i \in 1..Len(b) : b[i].by \notin {"open", "release"} /\ b[i].op = o}
  BY <1>1 DEF ResultsOf, Between
<1>4. 1..Len(b) = (1..K) \cup T /\ (1..K) \cap T = {}
  BY <1>1
<1>5. \A i \in T : b[i].op = op /\ b[i].by \notin {"open", "release"}
  BY <1>1 DEF OfTurn
<1> HIDE DEF R, Q, T, K
<1>6. Q = R \cup (IF o = op THEN T ELSE {}) /\ R \cap T = {}
  <2>1. CASE o = op
    BY <1>1, <1>2, <1>3, <1>4, <1>5, <2>1
  <2>2. CASE o # op
    BY <1>1, <1>2, <1>3, <1>4, <1>5, <2>2
  <2> QED
    BY <2>1, <2>2
<1>7. IsFiniteSet(R) /\ Cardinality(R) \in Nat
  <2>1. IsFiniteSet(1..K)
    BY <1>1, FS_Interval
  <2>2. R \subseteq 1..K
    BY <1>2
  <2> QED
    BY <2>1, <2>2, FS_Subset, FS_CardinalityType
<1>8. IsFiniteSet(T) /\ Cardinality(T) = Len(n)
  <2>1. K + 1 \in Int /\ K + Len(n) \in Int
    BY <1>1
  <2>2. IsFiniteSet(T) /\ Cardinality(T) = (IF K + 1 > K + Len(n) THEN 0 ELSE (K + Len(n)) - (K + 1) + 1)
    BY <2>1, FS_Interval DEF T
  <2> QED
    BY <1>1, <2>2
<1>9. CASE o = op
  <2>1. Q = R \cup T /\ R \cap T = {}
    BY <1>6, <1>9
  <2>2. Cardinality(R \cup T) = Cardinality(R) + Cardinality(T) - Cardinality(R \cap T)
    BY <1>7, <1>8, FS_Union
  <2>3. Cardinality({}) = 0
    BY FS_EmptySet
  <2>4. Cardinality(Q) = Cardinality(R) + Len(n)
    <3>1. Cardinality(R \cap T) = 0
      BY <2>1, <2>3
    <3>2. Cardinality(Q) = Cardinality(R \cup T)
      BY <2>1
    <3> QED
      BY <1>1, <1>7, <1>8, <2>2, <3>1, <3>2
  <2> QED
    BY <1>7, <1>9, <2>4 DEF R, Q, CountedAfter
<1>10. CASE o # op
  <2>1. Q = R
    BY <1>6, <1>10
  <2> QED
    BY <1>7, <1>10, <2>1 DEF R, Q, CountedAfter
<1> QED
  BY <1>9, <1>10 DEF CountedAfter

\* Results of the operation whose turn it is keep the order.
ResultsAfter(a, n, b, op) ==
    /\ b # <<>> /\ Between(b) = Between(a) \cup ((Len(a) + 1)..(Len(a) + Len(n)))
    /\ Between(a) \subseteq 1..Len(a) /\ \A i \in Between(a) : b[i] = a[i]
    /\ \A i \in (Len(a) + 1)..(Len(a) + Len(n)) : b[i].op = op
    /\ OpenFirst(b) /\ NoRelease(b)
    /\ Len(a) \in Nat /\ Len(n) \in Nat

LEMMA ResultsAdded ==
    ASSUME NEW a \in Seq(Outcomes), a # <<>>, NEW n \in Seq(Outcomes), NEW b, b = a \o n,
           NEW op, OfTurn(n, op), OpenFirst(a), NoRelease(a)
    PROVE  ResultsAfter(a, n, b, op)
<1> DEFINE K == Len(a)
           T == (K + 1)..(K + Len(n))
<1>1. /\ b \in Seq(Outcomes) /\ Len(b) = K + Len(n) /\ K \in Nat /\ Len(n) \in Nat
      /\ DOMAIN b = 1..(K + Len(n)) /\ DOMAIN a = 1..K
      /\ \A i \in 1..K : b[i] = a[i]
      /\ \A i \in T : b[i] = n[i - K] /\ i - K \in 1..Len(n)
  BY AddedResults
<1>2. K >= 1
  BY <1>1, EmptySeq
<1>3. \A i \in T : b[i].op = op /\ b[i].by \notin {"open", "release"} /\ i # 1
  BY <1>1, <1>2 DEF OfTurn
<1>4. 1..(K + Len(n)) = (1..K) \cup T
  BY <1>1
<1> HIDE DEF K, T
<1>5. Between(b) = Between(a) \cup T /\ Between(a) \subseteq 1..K
  BY <1>1, <1>3, <1>4 DEF Between
<1>6. \A i \in 1..K : (b[i].by = "open" <=> i = 1) /\ b[i].by # "release"
  <2>1. \A i \in 1..K : (a[i].by = "open" <=> i = 1) /\ a[i].by # "release"
    BY <1>1 DEF OpenFirst, NoRelease
  <2> QED
    BY <1>1, <2>1
<1>7. OpenFirst(b) /\ NoRelease(b)
  <2>1. \A i \in DOMAIN b : (b[i].by = "open" <=> i = 1) /\ b[i].by # "release"
    BY <1>1, <1>3, <1>4, <1>6
  <2> QED
    BY <2>1 DEF OpenFirst, NoRelease
<1>8. b # <<>>
  <2>1. Len(b) # 0
    BY <1>1, <1>2
  <2> QED
    BY <2>1
<1> QED
  BY <1>1, <1>3, <1>5, <1>7, <1>8 DEF K, T, ResultsAfter

LEMMA OrderAdded ==
    ASSUME KoTyped, TodoKnown, OrderKnown, phase \in Turning, todo # <<>>, Found' = Found,
           NEW n \in Seq(Outcomes), AutoOps' = AutoOps \o n, OfTurn(n, Head(todo)),
           todo' \in {todo, Tail(todo)}, phase' \in Turning \cup {"release", "driven"}
    PROVE  OrderKnown'
<1>1. PICK a \in Seq(Outcomes) : a = AutoOps
  BY PartsTyped
<1>2. PICK b, op, d : b = a \o n /\ op = Head(todo) /\ d = Done + 1
  OBVIOUS
<1>3. a # <<>> /\ OpenFirst(a) /\ NoRelease(a)
  BY <1>1 DEF OrderKnown
<1>4. /\ b # <<>> /\ Between(b) = Between(a) \cup ((Len(a) + 1)..(Len(a) + Len(n)))
      /\ Between(a) \subseteq 1..Len(a) /\ \A i \in Between(a) : b[i] = a[i]
      /\ \A i \in (Len(a) + 1)..(Len(a) + Len(n)) : b[i].op = op
      /\ OpenFirst(b) /\ NoRelease(b)
      /\ Len(a) \in Nat /\ Len(n) \in Nat
  <2>1. OfTurn(n, op) /\ b = a \o n
    BY <1>2
  <2>2. a \in Seq(Outcomes) /\ n \in Seq(Outcomes)
    OBVIOUS
  <2>3. ResultsAfter(a, n, b, op)
    BY ONLY <1>3, <2>1, <2>2, ResultsAdded
  <2> QED
    BY <2>3 DEF ResultsAfter
<1>5. Chosen' = Chosen /\ \A o : PlaceOf(o)' = PlaceOf(o)
  BY SameChosen
<1>6. /\ Done \in Nat /\ d \in Nat /\ op \in ToSet(Chosen) /\ PlaceOf(op) = d
      /\ Len(Tail(todo)) = Len(todo) - 1
  BY <1>2, TurnIs
<1>7. /\ \A i \in Between(a) : a[i].op \in ToSet(Chosen) /\ PlaceOf(a[i].op) <= d
      /\ \A i, j \in Between(a) : i < j => PlaceOf(a[i].op) <= PlaceOf(a[j].op)
  BY <1>1, <1>2 DEF OrderKnown
<1>8. \A o \in ToSet(Chosen) : PlaceOf(o) \in Nat
  BY ChosenIs
<1>9. PICK e \in Nat : e = Done' /\ d <= e + 1
  <2>1. Len(Chosen) \in Nat /\ Len(todo) \in Nat
    BY ChosenIs DEF TodoKnown
  <2>2. Done = Len(Chosen) - Len(todo) /\ Done' = Len(Chosen) - Len(todo')
    BY <1>5 DEF Done
  <2>3. Len(todo') = Len(todo) \/ Len(todo') = Len(todo) - 1
    BY <1>6
  <2>4. Done' = Done \/ Done' = Done + 1
    <3>1. PICK x, y, z : x = Len(Chosen) /\ y = Len(todo) /\ z = Len(todo')
      OBVIOUS
    <3>2. x \in Nat /\ y \in Nat /\ (z = y \/ z = y - 1)
      BY <2>1, <2>3, <3>1
    <3>3. x - z = x - y \/ x - z = (x - y) + 1
      BY <3>2
    <3> QED
      BY <2>2, <3>1, <3>3
  <2> QED
    BY <1>2, <1>6, <2>4
<1>10. ASSUME NEW i \in Between(b) PROVE b[i].op \in ToSet(Chosen) /\ PlaceOf(b[i].op) <= d
  <2>1. CASE i \in Between(a)
    BY <1>4, <1>7, <2>1
  <2>2. CASE i \notin Between(a)
    <3>1. b[i].op = op
      BY <1>4, <2>2
    <3> QED
      BY <1>6, <3>1
  <2> QED
    BY <2>1, <2>2
<1>11. ASSUME NEW i \in Between(b), NEW j \in Between(b), i < j PROVE PlaceOf(b[i].op) <= PlaceOf(b[j].op)
  <2>1. CASE j \notin Between(a)
    <3>1. b[j].op = op
      BY <1>4, <2>1
    <3> QED
      BY <1>6, <1>10, <3>1
  <2>2. CASE j \in Between(a)
    <3>1. i \in Between(a)
      <4>1. j \in 1..Len(a)
        BY <1>4, <2>2
      <4>2. i \notin (Len(a) + 1)..(Len(a) + Len(n))
        BY <1>4, <1>11, <4>1
      <4> QED
        BY <1>4, <4>2
    <3> QED
      BY <1>4, <1>7, <1>11, <2>2, <3>1
  <2> QED
    BY <2>1, <2>2
<1>12. \A i \in Between(b) : PlaceOf(b[i].op) <= e + 1
  <2> SUFFICES ASSUME NEW i \in Between(b) PROVE PlaceOf(b[i].op) <= e + 1
    OBVIOUS
  <2>1. PICK k \in Nat : k = PlaceOf(b[i].op) /\ k <= d
    BY <1>8, <1>10
  <2>2. k <= e + 1
    <3>1. k \in Nat /\ d \in Nat /\ e \in Nat /\ k <= d /\ d <= e + 1
      BY <1>6, <1>9, <2>1
    <3> QED
      BY ONLY <3>1
  <2> QED
    BY <2>1, <2>2
<1>13. AutoOps' = b
  BY <1>1, <1>2
<1>14. /\ \A i \in Between(b) : b[i].op \in ToSet(Chosen') /\ PlaceOf(b[i].op)' <= Done' + 1
       /\ \A i, j \in Between(b) : i < j => PlaceOf(b[i].op)' <= PlaceOf(b[j].op)'
  BY <1>5, <1>9, <1>10, <1>11, <1>12
<1>15. ReleaseLast(b)
  BY <1>4 DEF NoRelease, ReleaseLast
<1> QED
  BY <1>4, <1>13, <1>14, <1>15 DEF OrderKnown

\* The list begins with open's result and ends with release's, if there is one.
LEMMA OpenPushed ==
    ASSUME AutoOps = <<>>, NEW r \in Outcomes, r.by = "open", AutoOps' = Append(AutoOps, r)
    PROVE  /\ AutoOps' # <<>> /\ Between(AutoOps)' = {} /\ OrderKnown'
<1>1. PICK b : b = <<r>>
  OBVIOUS
<1>2. b = Append(<<>>, r) /\ b \in Seq(Outcomes) /\ Len(b) = 1 /\ b[1] = r
  BY <1>1, AppendProperties, EmptySeq
<1>3. DOMAIN b = {1} /\ b # <<>>
  BY <1>2
<1>4. Between(b) = {} /\ \A i \in DOMAIN b : i = 1 /\ b[i].by = "open"
  BY <1>2, <1>3 DEF Between
<1>5. AutoOps' = b
  BY <1>2
<1>6. OpenFirst(b) /\ ReleaseLast(b) /\ NoRelease(b)
  BY <1>2, <1>3, <1>4 DEF OpenFirst, ReleaseLast, NoRelease
<1> QED
  BY <1>3, <1>4, <1>5, <1>6 DEF OrderKnown

LEMMA ReleasePushed ==
    ASSUME KoTyped, OrderKnown, Found' = Found, NEW r \in Outcomes, r.by = "release", AutoOps' = Append(AutoOps, r),
           phase \in Turning \cup {"release"}, phase' \notin Turning \cup {"release"}
    PROVE  /\ OrderKnown' /\ Between(AutoOps)' = Between(AutoOps)
           /\ \A i \in Between(AutoOps) : AutoOps'[i] = AutoOps[i]
           /\ \A o : ResultsOf(o, AutoOps)' = ResultsOf(o, AutoOps)
<1>1. PICK a \in Seq(Outcomes) : a = AutoOps
  BY PartsTyped
<1>2. PICK b, K : b = Append(a, r) /\ K = Len(a)
  OBVIOUS
<1>3. /\ DOMAIN a = 1..K /\ K \in Nat /\ DOMAIN b = 1..(K + 1) /\ Len(b) = K + 1
      /\ \A i \in 1..K : b[i] = a[i]
      /\ b[K + 1] = r
  BY <1>2, AppendProperties
<1>4. Chosen' = Chosen /\ \A o : PlaceOf(o)' = PlaceOf(o)
  BY SameChosen
<1>5. /\ a # <<>> /\ OpenFirst(a) /\ NoRelease(a)
      /\ \A i \in Between(a) : a[i].op \in ToSet(Chosen)
      /\ \A i, j \in Between(a) : i < j => PlaceOf(a[i].op) <= PlaceOf(a[j].op)
  BY <1>1 DEF OrderKnown
<1>6. \A i \in 1..(K + 1) : i = K + 1 \/ i \in 1..K
  BY <1>3
<1>7. Between(b) = Between(a) /\ Between(a) \subseteq 1..K
  BY <1>3, <1>6 DEF Between
<1>8. \A o : ResultsOf(o, b) = ResultsOf(o, a)
  BY <1>3, <1>7 DEF ResultsOf
<1>9. OpenFirst(b) /\ ReleaseLast(b)
  <2>1. \A i \in 1..K : (a[i].by = "open" <=> i = 1) /\ a[i].by # "release"
    BY <1>3, <1>5 DEF OpenFirst, NoRelease
  <2>2. K # 0
    BY <1>2, <1>5, EmptySeq
  <2>3. \A i \in 1..K : (b[i].by = "open" <=> i = 1) /\ b[i].by # "release"
    BY <1>3, <2>1
  <2>4. b[K + 1].by = "release" /\ K + 1 # 1
    BY <1>3, <2>2
  <2>5. \A i \in DOMAIN b : (b[i].by = "open" <=> i = 1) /\ (b[i].by = "release" => i = Len(b))
    BY <1>3, <1>6, <2>3, <2>4
  <2> QED
    BY <2>5 DEF OpenFirst, ReleaseLast
<1>10. /\ \A i \in Between(b) : b[i] = a[i] /\ b[i].op \in ToSet(Chosen')
       /\ \A i, j \in Between(b) : i < j => PlaceOf(b[i].op)' <= PlaceOf(b[j].op)'
  BY <1>3, <1>4, <1>5, <1>7
<1>11. AutoOps' = b /\ AutoOps = a
  BY <1>1, <1>2
<1>12. OrderKnown'
  BY <1>9, <1>10, <1>11 DEF OrderKnown
<1>13. Between(AutoOps)' = Between(b) /\ \A o : ResultsOf(o, AutoOps)' = ResultsOf(o, b)
  BY <1>11
<1> QED
  BY <1>7, <1>8, <1>10, <1>11, <1>12, <1>13
-----------------------------------------------------------------------------
(* Each action keeps what is known of the drive.                           *)

LEMMA NoDrive ==
    ASSUME TodoKnown, todo' = todo, pattern' = pattern, phase' \notin Driving, OrderKnown', SentDeadKnown'
    PROVE  DriveInv'
<1>1. TodoKnown'
  BY DEF TodoKnown, Driving, Turning
<1>2. CountsKnown'
  BY DEF CountsKnown, Driving
<1> QED
  BY <1>1, <1>2 DEF DriveInv

LEMMA SameOrder ==
    ASSUME OrderKnown, UNCHANGED <<AutoOps, Found>>, phase' \notin Turning \cup {"release"}
    PROVE  OrderKnown'
<1>1. Chosen' = Chosen /\ \A op : PlaceOf(op)' = PlaceOf(op)
  BY SameChosen
<1> QED
  BY <1>1 DEF OrderKnown

LEMMA EmptyOrder ==
    ASSUME AutoOps' = <<>>, phase' \notin Turning \cup {"release"}
    PROVE  OrderKnown'
<1>1. PICK a : a = <<>>
  OBVIOUS
<1>2. DOMAIN a = {}
  BY <1>1
<1>3. Between(a) = {} /\ OpenFirst(a) /\ ReleaseLast(a)
  BY <1>2 DEF Between, OpenFirst, ReleaseLast
<1>4. AutoOps' = a
  BY <1>1
<1> QED
  BY <1>3, <1>4 DEF OrderKnown

\* The phases before the drive, and the kernel alive or stopped by one of them.
LEMMA NoDriveKiller ==
    ASSUME killer' = Nothing => sentDead' = <<>>,
           killer' \notin {"open", "canned", "release"},
           phase' \in Driving => killer' \in {Nothing, "deferred"}
    PROVE  SentDeadKnown'
  BY DEF SentDeadKnown

LEMMA AliveUnsent ==
    ASSUME StopsKnown, SentDeadKnown, phase \in {"load", "init", "deferred"}
    PROVE  killer = Nothing /\ sentDead = <<>> /\ Dead = Nothing /\ AutoOps = <<>>
  BY DEF StopsKnown, SentDeadKnown

LEMMA LoadFailsDrives == ASSUME ReportsInv, DriveInv, LoadFails PROVE DriveInv'
<1>1. phase = "load" /\ phase' = "over" /\ UNCHANGED <<todo, pattern, killer, sentDead>>
  BY DEF LoadFails, Unloaded, history
<1>2. killer = Nothing /\ sentDead = <<>> /\ AutoOps = <<>>
  BY <1>1, AliveUnsent DEF ReportsInv, DriveInv
<1>3. AutoOps' = AutoOps
  BY DEF LoadFails, ReportsInv, KoTyped, KoReports, AutoOps
<1>4. OrderKnown'
  BY <1>1, <1>2, <1>3, EmptyOrder DEF Turning
<1>5. SentDeadKnown'
  BY <1>1, <1>2, NoDriveKiller, NothingIs DEF Driving, Steps
<1> QED
  BY <1>1, <1>4, <1>5, NoDrive DEF DriveInv, Driving

LEMMA LoadDrives == ASSUME ReportsInv, DriveInv, Load PROVE DriveInv'
<1>1. phase = "load" /\ phase' = "init" /\ UNCHANGED <<todo, pattern, killer, sentDead, report>>
  BY DEF Load, Unloaded, history
<1>2. killer = Nothing /\ sentDead = <<>> /\ AutoOps = <<>>
  BY <1>1, AliveUnsent DEF ReportsInv, DriveInv
<1>3. AutoOps' = AutoOps
  BY <1>1 DEF AutoOps
<1>4. OrderKnown'
  BY <1>1, <1>2, <1>3, EmptyOrder DEF Turning
<1>5. SentDeadKnown'
  BY <1>1, <1>2, NoDriveKiller, NothingIs DEF Driving, Steps
<1> QED
  BY <1>1, <1>4, <1>5, NoDrive DEF DriveInv, Driving

LEMMA RunInitDrives == ASSUME ReportsInv, DriveInv, RunInit PROVE DriveInv'
<1>1. phase = "init" /\ UNCHANGED <<todo, pattern>>
  BY DEF RunInit
<1>2. killer = Nothing /\ sentDead = <<>> /\ AutoOps = <<>>
  BY <1>1, AliveUnsent DEF ReportsInv, DriveInv
<1>3. /\ AutoOps' = AutoOps /\ phase' \in {"deferred", "harvest"}
      /\ killer' \in {killer, "init"} /\ sentDead' = sentDead
  BY RunInitKeeps
<1>4. OrderKnown'
  BY <1>2, <1>3, EmptyOrder DEF Turning
<1>5. SentDeadKnown'
  BY <1>2, <1>3, NoDriveKiller, NothingIs DEF Driving, Steps
<1> QED
  BY <1>1, <1>3, <1>4, <1>5, NoDrive DEF DriveInv, Driving

LEMMA RunDeferredDrives == ASSUME ReportsInv, DriveInv, RunDeferred PROVE DriveInv'
<1>1. phase = "deferred" /\ UNCHANGED <<todo, pattern>>
  BY DEF RunDeferred
<1>2. killer = Nothing /\ sentDead = <<>> /\ AutoOps = <<>>
  BY <1>1, AliveUnsent DEF ReportsInv, DriveInv
<1>3. /\ AutoOps' = AutoOps /\ phase' = "harvest"
      /\ killer' \in {killer, "deferred"} /\ sentDead' = sentDead
  BY RunDeferredKeeps
<1>4. OrderKnown'
  BY <1>2, <1>3, EmptyOrder DEF Turning
<1>5. SentDeadKnown'
  BY <1>2, <1>3, NoDriveKiller, NothingIs DEF Driving, Steps
<1> QED
  BY <1>1, <1>3, <1>4, <1>5, NoDrive DEF DriveInv, Driving

LEMMA HarvestDrives == ASSUME ReportsInv, DriveInv, Harvest PROVE DriveInv'
<1>1. phase = "harvest" /\ UNCHANGED <<todo, pattern, opts, killer, sentDead>>
  BY DEF Harvest, history
<1>2. /\ AutoOps' = AutoOps /\ phase' \in {"open", "explicit"}
      /\ phase' = "open" => opts.auto # "off" /\ Bug = Nothing
  BY HarvestKeeps
<1>3. AutoOps = <<>> /\ killer \notin {"open", "canned", "release"} /\ (killer = Nothing => sentDead = <<>>)
  BY <1>1 DEF ReportsInv, StopsKnown, DriveInv, SentDeadKnown, Driving
<1>4. phase' = "open" => killer \in {Nothing, "deferred"}
  BY <1>1, <1>2 DEF ReportsInv, StopsKnown
<1>5. OrderKnown'
  BY <1>2, <1>3, EmptyOrder DEF Turning
<1>6. SentDeadKnown'
  BY <1>1, <1>2, <1>3, <1>4, NoDriveKiller DEF Driving
<1>7. TodoKnown'
  BY <1>1, <1>2 DEF DriveInv, TodoKnown, Driving, Turning
<1>8. CountsKnown'
  BY <1>2 DEF CountsKnown
<1> QED
  BY <1>5, <1>6, <1>7, <1>8 DEF DriveInv

\* After the drive.
LEMMA DrivenDrives == ASSUME ReportsInv, DriveInv, Driven PROVE DriveInv'
<1>1. /\ phase = "driven" /\ phase' = "explicit" /\ todo' = <<>> /\ pattern' = 0
      /\ UNCHANGED <<killer, sentDead>>
  BY DEF Driven, history
<1>2. UNCHANGED <<AutoOps, Found, Dead>> /\ Bug' = Dead
  BY DrivenKeeps
<1>3. OrderKnown'
  BY <1>1, <1>2, SameOrder DEF DriveInv, Turning
<1>4. killer = Nothing <=> Dead = Nothing
  BY DEF ReportsInv, StopsKnown
<1>5. SentDeadKnown'
  BY <1>1, <1>2, <1>4, NothingIs DEF DriveInv, SentDeadKnown, Driving, Steps
<1>6. TodoKnown'
  <2>1. <<>> \in Seq(Ops) /\ 0 \in 0..(Patterns - 1)
    BY ModuleAssumption
  <2> QED
    BY <1>1, <2>1 DEF TodoKnown, Driving, Turning
<1>7. CountsKnown'
  BY <1>1 DEF CountsKnown
<1> QED
  BY <1>3, <1>5, <1>6, <1>7 DEF DriveInv

LEMMA SendExplicitDrives == ASSUME ReportsInv, DriveInv, SendExplicit PROVE DriveInv'
<1>1. UNCHANGED <<todo, pattern>>
  BY DEF SendExplicit
<1>2. /\ UNCHANGED <<AutoOps, Found>> /\ Bug = Nothing
      /\ phase' = "explicit" /\ phase = "explicit"
      /\ (Dead = Nothing => sentDead' = sentDead)
      /\ (killer # Nothing => killer' = killer) /\ killer' \in {killer, "explicit"}
  BY SendExplicitKeeps
<1>3. killer \notin {"open", "canned", "release"} /\ (killer = Nothing => sentDead = <<>> /\ Dead = Nothing)
  BY <1>2 DEF ReportsInv, StopsKnown, DriveInv, SentDeadKnown
<1>4. OrderKnown'
  BY <1>2, SameOrder DEF DriveInv, Turning
<1>5. SentDeadKnown'
  BY <1>2, <1>3, NoDriveKiller DEF Driving
<1> QED
  BY <1>1, <1>2, <1>4, <1>5, NoDrive DEF DriveInv, Driving

LEMMA RunCleanupDrives == ASSUME ReportsInv, DriveInv, RunCleanup PROVE DriveInv'
<1>1. UNCHANGED <<todo, pattern>>
  BY DEF RunCleanup
<1>2. /\ UNCHANGED <<AutoOps, Found>> /\ Bug = Nothing
      /\ phase' = "over" /\ phase = "explicit"
      /\ (Dead = Nothing => sentDead' = sentDead)
      /\ (killer # Nothing => killer' = killer) /\ killer' \in {killer, "cleanup"}
  BY RunCleanupKeeps
<1>3. killer \notin {"open", "canned", "release"} /\ (killer = Nothing => sentDead = <<>> /\ Dead = Nothing)
  BY <1>2 DEF ReportsInv, StopsKnown, DriveInv, SentDeadKnown
<1>4. OrderKnown'
  BY <1>2, SameOrder DEF DriveInv, Turning
<1>5. SentDeadKnown'
  BY <1>2, <1>3, NoDriveKiller DEF Driving
<1> QED
  BY <1>1, <1>2, <1>4, <1>5, NoDrive DEF DriveInv, Driving

\* A step at the end of the analysis that runs nothing of the module.
LEMMA EndsQuietly ==
    ASSUME DriveInv, UNCHANGED <<todo, pattern, killer, sentDead, AutoOps, Found, Bug>>,
           phase' \in {"over", "delivered"}, phase' = "over" => phase = "explicit"
    PROVE  DriveInv'
<1>1. OrderKnown'
  BY SameOrder DEF DriveInv, Turning
<1>2. SentDeadKnown'
  BY DEF DriveInv, SentDeadKnown, Driving
<1> QED
  BY <1>1, <1>2, NoDrive DEF DriveInv, Driving

LEMMA NoCleanupDrives == ASSUME ReportsInv, DriveInv, NoCleanup PROVE DriveInv'
<1>1. phase = "explicit" /\ phase' = "over" /\ UNCHANGED <<todo, pattern, killer, sentDead>>
  BY DEF NoCleanup, Unloaded, history
<1> QED
  BY <1>1, NoCleanupKeeps, EndsQuietly

LEMMA RetryHybridDrives == ASSUME ReportsInv, DriveInv, RetryHybrid PROVE DriveInv'
<1>1. phase' = "load" /\ UNCHANGED <<todo, pattern>> /\ killer' = Nothing /\ sentDead' = <<>>
  BY DEF RetryHybrid
<1>2. AutoOps' = <<>>
  BY DEF RetryHybrid, FreshReport, AutoOps
<1>3. OrderKnown'
  BY <1>1, <1>2, EmptyOrder DEF Turning
<1>4. SentDeadKnown'
  BY <1>1, NoDriveKiller, NothingIs DEF Driving, Steps
<1> QED
  BY <1>1, <1>3, <1>4, NoDrive DEF DriveInv, Driving

LEMMA DeliverReportDrives == ASSUME ReportsInv, DriveInv, DeliverReport PROVE DriveInv'
<1>1. phase' = "delivered" /\ UNCHANGED <<todo, pattern, killer, sentDead>>
  BY DEF DeliverReport, history
<1> QED
  BY <1>1, DeliverReportKeeps, EndsQuietly

LEMMA OpThrowsDrives == ASSUME ReportsInv, DriveInv, OpThrows PROVE DriveInv'
<1>1. phase' = "delivered" /\ UNCHANGED <<todo, pattern, killer, sentDead>>
  BY DEF OpThrows, history
<1> QED
  BY <1>1, OpThrowsKeeps, EndsQuietly

-----------------------------------------------------------------------------
(* Each step of the drive keeps what is known of it.                       *)

\* The operations left stay, or the first of them is done.
LEMMA TodoStays ==
    ASSUME KoTyped, TodoKnown, phase \in Turning, Found' = Found, todo' = todo
    PROVE  /\ Chosen' = Chosen /\ Done' = Done /\ todo' \in Seq(Ops)
           /\ Len(todo') <= Len(Chosen') /\ \A i \in 1..Len(todo') : todo'[i] = Chosen'[Done' + i]
<1>1. Chosen' = Chosen
  BY SameChosen
<1>2. Done' = Done
  BY <1>1 DEF Done
<1> QED
  BY <1>1, <1>2 DEF TodoKnown

LEMMA TodoMoves ==
    ASSUME KoTyped, TodoKnown, phase \in Turning, Found' = Found, todo # <<>>, todo' = Tail(todo)
    PROVE  /\ Chosen' = Chosen /\ Done' = Done + 1 /\ todo' \in Seq(Ops)
           /\ Len(todo') <= Len(Chosen') /\ \A i \in 1..Len(todo') : todo'[i] = Chosen'[Done' + i]
<1>1. Chosen' = Chosen
  BY SameChosen
<1>2. /\ Tail(todo) \in Seq(Ops) /\ Len(Tail(todo)) = Len(todo) - 1
      /\ \A i \in 1..Len(Tail(todo)) : Tail(todo)[i] = Chosen[Done + 1 + i]
  BY TurnIs
<1>3. Len(Chosen) \in Nat /\ Len(todo) \in Nat /\ Len(todo) <= Len(Chosen)
  BY ChosenIs DEF TodoKnown
<1>4. PICK x, y, z : x \in Nat /\ y \in Nat /\ x = Len(Chosen) /\ y = Len(todo) /\ z = Len(todo') /\ z = y - 1 /\ y <= x
  BY <1>2, <1>3
<1>5. Done = x - y /\ Done' = x - z
  BY <1>1, <1>4 DEF Done
<1>6. x - z = (x - y) + 1 /\ z <= x
  BY <1>4
<1>7. Done' = Done + 1
  BY <1>5, <1>6
<1>8. \A i \in 1..Len(todo') : todo'[i] = Chosen'[Done' + i]
  BY <1>1, <1>2, <1>7
<1> QED
  BY <1>1, <1>2, <1>4, <1>6, <1>7, <1>8

\* A step of the campaigns that adds no result.
LEMMA QuietTurn ==
    ASSUME KoTyped, DriveInv, phase \in {"campaigns", "fuzz", "concolic"},
           phase' \in {"campaigns", "fuzz", "concolic"}, killer = Nothing,
           UNCHANGED <<AutoOps, Found, todo, pattern, opts, killer, sentDead>>
    PROVE  DriveInv'
<1>1. /\ Chosen' = Chosen /\ Done' = Done /\ todo' \in Seq(Ops)
      /\ Len(todo') <= Len(Chosen') /\ \A i \in 1..Len(todo') : todo'[i] = Chosen'[Done' + i]
  BY TodoStays DEF DriveInv, Turning
<1>2. \A op : PlaceOf(op)' = PlaceOf(op)
  BY SameChosen
<1>3. TodoKnown'
  BY <1>1 DEF DriveInv, TodoKnown, Turning, Driving
<1>4. OrderKnown'
  BY <1>1, <1>2 DEF DriveInv, OrderKnown, Turning
<1>5. SentDeadKnown'
  BY NoDriveKiller, NothingIs DEF DriveInv, SentDeadKnown, Steps
<1>6. \A p : ResultCount(p)' = ResultCount(p)
  BY <1>1 DEF ResultCount
<1>7. CountsKnown'
  BY <1>1, <1>6 DEF DriveInv, CountsKnown
<1> QED
  BY <1>3, <1>4, <1>5, <1>7 DEF DriveInv

LEMMA BeginOpDrives == ASSUME ReportsInv, DriveInv, BeginOp PROVE DriveInv'
<1>1. /\ phase = "campaigns" /\ phase' \in {"fuzz", "concolic"} /\ Dead = Nothing
      /\ UNCHANGED <<report, todo, pattern, opts, killer, sentDead>>
  BY DEF BeginOp, history, Dead
<1>2. UNCHANGED <<AutoOps, Found>>
  BY <1>1 DEF AutoOps, Found
<1>3. killer = Nothing
  BY <1>1 DEF ReportsInv, StopsKnown
<1> QED
  BY <1>1, <1>2, <1>3, QuietTurn DEF ReportsInv

LEMMA RunCampaignDrives == ASSUME ReportsInv, DriveInv, RunCampaign PROVE DriveInv'
<1>1. /\ phase \in {"fuzz", "concolic"} /\ phase' = phase
      /\ UNCHANGED <<report, todo, pattern, opts, killer, sentDead>>
  BY DEF RunCampaign, koVars, history
<1>2. UNCHANGED <<AutoOps, Found>>
  BY <1>1 DEF AutoOps, Found
<1>3. killer = Nothing
  BY <1>1 DEF ReportsInv, CampKnown, StopsKnown
<1> QED
  BY <1>1, <1>2, <1>3, QuietTurn DEF ReportsInv

LEMMA FuzzToConcolicDrives == ASSUME ReportsInv, DriveInv, FuzzToConcolic PROVE DriveInv'
<1>1. /\ phase = "fuzz" /\ phase' = "concolic"
      /\ UNCHANGED <<report, todo, pattern, opts, killer, sentDead>>
  BY DEF FuzzToConcolic, history
<1>2. UNCHANGED <<AutoOps, Found>>
  BY <1>1 DEF AutoOps, Found
<1>3. killer = Nothing
  BY <1>1 DEF ReportsInv, CampKnown, StopsKnown
<1> QED
  BY <1>1, <1>2, <1>3, QuietTurn DEF ReportsInv

LEMMA ModeIs == ASSUME KoTyped PROVE opts.auto \in {"off", "canned", "fuzz", "concolic", "both"}
  BY ModuleAssumption DEF KoTyped

\* The results of a turn are counted.
LEMMA TurnCounted ==
    ASSUME KoTyped, TodoKnown, phase \in Turning, todo # <<>>, Found' = Found,
           NEW n \in Seq(Outcomes), AutoOps' = AutoOps \o n, OfTurn(n, Head(todo))
    PROVE  \A p \in 1..Len(Chosen) :
              /\ ResultCount(p) \in Nat
              /\ ResultCount(p)' = IF p = Done + 1 THEN ResultCount(p) + Len(n) ELSE ResultCount(p)
<1>1. PICK a \in Seq(Outcomes) : a = AutoOps
  BY PartsTyped
<1>2. PICK b, op : b = a \o n /\ op = Head(todo)
  OBVIOUS
<1>3. Chosen' = Chosen
  BY SameChosen
<1>4. AutoOps' = b
  BY <1>1, <1>2
<1>5. SUFFICES ASSUME NEW p \in 1..Len(Chosen)
               PROVE  /\ ResultCount(p) \in Nat
                      /\ ResultCount(p)' = IF p = Done + 1 THEN ResultCount(p) + Len(n) ELSE ResultCount(p)
  OBVIOUS
<1>6. PICK o : o = Chosen[p]
  OBVIOUS
<1>7. ResultCount(p) = Cardinality(ResultsOf(o, a)) /\ ResultCount(p)' = Cardinality(ResultsOf(o, b))
  BY <1>1, <1>3, <1>4, <1>6 DEF ResultCount
<1>8. o = op <=> p = Done + 1
  BY <1>2, <1>6, TurnIs, ChosenIs
<1>9. OfTurn(n, op)
  BY <1>2
<1>10. /\ Cardinality(ResultsOf(o, a)) \in Nat
       /\ Cardinality(ResultsOf(o, b)) = Cardinality(ResultsOf(o, a)) + (IF o = op THEN Len(n) ELSE 0)
  <2>1. CountedAfter(o, a, n, b, op)
    BY <1>2, <1>9, CountedResults
  <2> QED
    BY <2>1 DEF CountedAfter
<1> QED
  BY <1>7, <1>8, <1>10

LEMMA EndOpDrives == ASSUME ReportsInv, DriveInv, EndOp PROVE DriveInv'
<1>1. /\ phase \in {"fuzz", "concolic"} /\ phase' = "campaigns" /\ todo' = Tail(todo)
      /\ UNCHANGED <<pattern, opts, killer, sentDead>>
  BY DEF EndOp, history
<1>2. /\ KoTyped /\ TodoKnown /\ OrderKnown /\ CountsKnown /\ phase \in Turning
  BY <1>1 DEF ReportsInv, DriveInv, Turning
<1>3. killer = Nothing /\ todo # <<>> /\ CampOp = Head(todo)
  BY <1>1 DEF ReportsInv, CampKnown, StopsKnown
<1>4. Found' = Found
  BY EndOpKeeps
<1>5. PICK n \in Seq(Outcomes) :
         /\ AutoOps' = AutoOps \o n
         /\ \A i \in 1..Len(n) : n[i].op = CampOp /\ n[i].by \in {"seed", "fuzz", "concolic", "summary"}
         /\ opts.auto \in {"fuzz", "both"} => Len(n) \in 1..(MaxResults + 1)
  BY EndOpKeeps
<1>6. OfTurn(n, Head(todo))
  BY <1>3, <1>5 DEF OfTurn
<1>7. OrderKnown'
  <2>1. todo' \in {todo, Tail(todo)} /\ phase' \in Turning \cup {"release", "driven"}
    BY <1>1 DEF Turning
  <2> QED
    BY <1>2, <1>3, <1>4, <1>5, <1>6, <2>1, OrderAdded
<1>8. /\ Chosen' = Chosen /\ Done' = Done + 1 /\ todo' \in Seq(Ops)
      /\ Len(todo') <= Len(Chosen') /\ \A i \in 1..Len(todo') : todo'[i] = Chosen'[Done' + i]
  BY <1>1, <1>2, <1>3, <1>4, TodoMoves
<1>9. TodoKnown'
  BY <1>1, <1>2, <1>8 DEF TodoKnown, Turning, Driving
<1>10. SentDeadKnown'
  BY <1>1, <1>3, NoDriveKiller, NothingIs DEF DriveInv, SentDeadKnown, Steps
<1>11. CountsKnown'
  <2>1. SUFFICES ASSUME opts.auto # "concolic", NEW p \in 1..Len(Chosen)
                 PROVE  IF p <= Done + 1 THEN ResultCount(p)' \in 1..(MaxResults + 1) ELSE ResultCount(p)' = 0
    BY <1>1, <1>8 DEF CountsKnown
  <2>2. opts.auto \in {"fuzz", "both"}
    BY <1>1, <1>2, <2>1, ModeIs DEF TodoKnown, Driving
  <2>3. PICK q, q2, l, d, M : /\ q = ResultCount(p) /\ q2 = ResultCount(p)' /\ l = Len(n)
                              /\ d = Done /\ M = MaxResults
    OBVIOUS
  <2>4. IF p <= d THEN q \in 1..(M + 1) ELSE q = 0
    BY <1>1, <1>2, <2>1, <2>3 DEF CountsKnown
  <2>5. q2 = IF p = d + 1 THEN q + l ELSE q
    BY <1>2, <1>3, <1>4, <1>5, <1>6, <2>1, <2>3, TurnCounted
  <2>6. l \in 1..(M + 1) /\ d \in Nat /\ p \in Nat /\ M \in Nat
    BY <1>2, <1>3, <1>5, <2>1, <2>2, <2>3, TurnIs, ModuleAssumption
  <2>7. IF p <= d + 1 THEN q2 \in 1..(M + 1) ELSE q2 = 0
    BY ONLY <2>4, <2>5, <2>6
  <2> QED
    BY <2>3, <2>7
<1> QED
  BY <1>7, <1>9, <1>10, <1>11 DEF DriveInv

\* What pushing a result lists.
LEMMA PushedLast ==
    ASSUME KoTyped, NEW r \in Outcomes
    PROVE  \E n \in Seq(Outcomes) : n = <<r>> /\ Append(AutoOps, r) = AutoOps \o n /\ Len(n) = 1 /\ n[1] = r
<1>1. AutoOps \in Seq(Outcomes)
  BY PartsTyped
<1>2. Append(AutoOps, r) = AutoOps \o <<r>>
  BY <1>1, AppendIsConcat
<1>3. <<r>> \in Seq(Outcomes) /\ Len(<<r>>) = 1 /\ <<r>>[1] = r
  OBVIOUS
<1> QED
  BY <1>2, <1>3

LEMMA SendOpenDrives == ASSUME ReportsInv, DriveInv, SendOpen PROVE DriveInv'
<1>1. PICK res \in Statuses : Push("open", "open", res)
  BY DEF SendOpen
<1>2. /\ phase = "open" /\ phase' \in {"canned", "campaigns"} /\ (phase' = "canned" <=> opts.auto = "canned")
      /\ pattern' = 0 /\ todo' = Unique(report.harvested) /\ opts' = opts
  BY <1>1 DEF SendOpen, Push
<1>3. KoTyped /\ TodoKnown /\ SentDeadKnown /\ StopsKnown
  BY DEF ReportsInv, DriveInv
<1>4. PICK r : r = Result("open", "open", res)
  OBVIOUS
<1>5. r \in Outcomes /\ r.by = "open"
  BY <1>1, <1>4 DEF Result, Outcomes, Statuses
<1>6. /\ AutoOps' = Append(AutoOps, r) /\ Found' = Found
      /\ killer' = IF Dead = Nothing /\ Dead' # Nothing THEN "open" ELSE killer
      /\ sentDead' = IF Dead = Nothing THEN sentDead ELSE Append(sentDead, "open")
  BY <1>1, <1>2, <1>4, PushKeeps
<1>7. AutoOps = <<>>
  BY <1>2, <1>3 DEF StopsKnown
<1>8. Between(AutoOps)' = {} /\ OrderKnown'
  BY <1>5, <1>6, <1>7, OpenPushed
<1>9. Chosen' = Chosen /\ todo' = Chosen
  BY <1>2, <1>6, SameChosen DEF Chosen, Found
<1>10. Chosen \in Seq(Ops) /\ Len(Chosen) \in Nat
  BY <1>3, ChosenIs
<1>11. Done' = 0
  BY <1>9, <1>10 DEF Done
<1>12. TodoKnown'
  <2>1. \A i \in 1..Len(todo') : todo'[i] = Chosen'[Done' + i]
    BY <1>9, <1>10, <1>11
  <2>2. 0 \in 0..(Patterns - 1)
    BY ModuleAssumption
  <2> QED
    BY <1>2, <1>3, <1>9, <1>10, <2>1, <2>2 DEF TodoKnown, Turning, Driving
<1>13. SentDeadKnown'
  <2>1. killer \in {Nothing, "deferred"}
    BY <1>2, <1>3 DEF SentDeadKnown, Driving
  <2>2. killer = Nothing <=> Dead = Nothing
    BY <1>3 DEF StopsKnown
  <2>3. CASE Dead = Nothing
    <3>1. sentDead' = <<>> /\ killer' \in {Nothing, "open"}
      BY <1>3, <1>6, <2>2, <2>3 DEF SentDeadKnown
    <3> QED
      BY <1>2, <3>1, NothingIs DEF SentDeadKnown, Driving, Steps
  <2>4. CASE Dead # Nothing
    <3>1. killer' = "deferred"
      BY <1>6, <2>1, <2>2, <2>4
    <3> QED
      BY <3>1, NoDriveKiller, NothingIs DEF Steps
  <2> QED
    BY <2>3, <2>4
<1>14. CountsKnown'
  <2>1. \A p : ResultCount(p)' = 0
    <3>1. \A p : ResultsOf(Chosen[p], AutoOps)' = {}
      BY <1>8 DEF ResultsOf
    <3> QED
      BY <3>1, FS_EmptySet DEF ResultCount
  <2>2. \A p \in 1..Len(Chosen) : ~(p <= 0)
    OBVIOUS
  <2> QED
    BY <1>2, <1>9, <1>11, <2>1, <2>2 DEF CountsKnown
<1> QED
  BY <1>8, <1>12, <1>13, <1>14 DEF DriveInv

LEMMA TwoAre == ASSUME NEW S, NEW x \in S, NEW y \in S PROVE Append(<<x>>, y) = <<x, y>>
<1>1. <<x>> \in Seq(S) /\ Len(<<x>>) = 1 /\ <<x>>[1] = x
  OBVIOUS
<1>2. <<x, y>> \in Seq(S) /\ Len(<<x, y>>) = 2 /\ <<x, y>>[1] = x /\ <<x, y>>[2] = y
  OBVIOUS
<1>3. PICK s \in Seq(S), t \in Seq(S) : s = <<x>> /\ t = <<x, y>>
  BY <1>1, <1>2
<1>4. PICK u : u = Append(s, y)
  OBVIOUS
<1>5. u \in Seq(S) /\ Len(u) = 2 /\ u[1] = x /\ u[2] = y
  BY <1>1, <1>3, <1>4, AppendProperties
<1>6. \A i \in 1..2 : i = 1 \/ i = 2
  OBVIOUS
<1>7. \A i \in 1..2 : u[i] = t[i]
  BY <1>2, <1>3, <1>5, <1>6
<1>8. Len(t) = 2
  BY <1>2, <1>3
<1>9. u = t
  BY <1>3, <1>5, <1>7, <1>8, SeqEqual
<1> QED
  BY <1>3, <1>4, <1>9

LEMMA TwoSent == Append(<<"canned">>, "release") = <<"canned", "release">>
<1>1. "canned" \in {"canned", "release"} /\ "release" \in {"canned", "release"}
  OBVIOUS
<1> QED
  BY <1>1, TwoAre

\* A stopped kernel is sent at most two operations.
LEMMA SentToDead ==
    ASSUME StopsKnown, SentDeadKnown, phase \in {"canned", "campaigns", "release"}, NEW who \in {"canned", "release"},
           killer' = IF Dead = Nothing /\ Dead' # Nothing THEN who ELSE killer,
           sentDead' = IF Dead = Nothing THEN sentDead ELSE Append(sentDead, who),
           who = "canned" => phase = "canned",
           phase' \in {"canned", "release", "driven"},
           phase' = "canned" => who = "canned" /\ Dead' = Nothing,
           phase' = "release" => who = "canned",
           Dead # Nothing => Dead' = Dead
    PROVE  SentDeadKnown'
<1>1. killer = Nothing <=> Dead = Nothing
  BY DEF StopsKnown
<1>2. killer \in {Nothing, "deferred", "open", "canned", "release"}
  BY DEF SentDeadKnown, Driving
<1>3. CASE Dead = Nothing
  <2>1. sentDead' = <<>> /\ killer' \in {Nothing, who} /\ (killer' = who => Dead' # Nothing \/ killer' = Nothing)
    BY <1>1, <1>3 DEF SentDeadKnown
  <2>2. CASE killer' = Nothing
    BY <2>1, <2>2, NoDriveKiller, NothingIs DEF Steps
  <2>3. CASE killer' # Nothing
    <3>1. killer' = who /\ phase' # "canned"
      BY <2>1, <2>3
    <3> QED
      BY <2>1, <2>3, <3>1 DEF SentDeadKnown, Driving
  <2> QED
    BY <2>2, <2>3
<1>4. CASE Dead # Nothing /\ killer = "deferred"
  <2>1. killer' = "deferred"
    BY <1>4
  <2> QED
    BY <2>1, NoDriveKiller, NothingIs DEF Steps
<1>5. CASE Dead # Nothing /\ killer \in {"open", "canned", "release"}
  <2>1. killer' = killer /\ sentDead' = Append(sentDead, who) /\ phase' # "canned"
    BY <1>5
  <2>2. CASE phase \in {"canned", "campaigns"}
    <3>1. sentDead' = <<who>>
      <4>1. sentDead = <<>>
        BY <1>5, <2>2 DEF SentDeadKnown
      <4>2. Append(<<>>, who) = <<who>>
        OBVIOUS
      <4> QED
        BY <2>1, <4>1, <4>2
    <3> QED
      BY <1>1, <1>5, <2>1, <2>2, <3>1 DEF SentDeadKnown, Driving
  <2>3. CASE phase = "release"
    <3>1. who = "release" /\ phase' = "driven"
      BY <2>1, <2>3
    <3>2. sentDead \in {<<>>, <<"canned">>}
      BY <1>5, <2>3 DEF SentDeadKnown
    <3>3. sentDead' \in {<<"release">>, <<"canned", "release">>}
      <4>1. Append(<<>>, "release") = <<"release">>
        OBVIOUS
      <4>5. Append(<<"canned">>, "release") = <<"canned", "release">>
        BY TwoSent
      <4>2. sentDead' = Append(sentDead, "release")
        BY <2>1, <3>1
      <4>3. CASE sentDead = <<>>
        BY <4>1, <4>2, <4>3
      <4>4. CASE sentDead = <<"canned">>
        BY <4>5, <4>2, <4>4
      <4> QED
        BY <3>2, <4>3, <4>4
    <3> QED
      BY <1>1, <1>5, <2>1, <3>1, <3>3 DEF SentDeadKnown, Driving
  <2> QED
    BY <2>2, <2>3
<1> QED
  BY <1>1, <1>2, <1>3, <1>4, <1>5

LEMMA CannedOpDrives == ASSUME ReportsInv, DriveInv, CannedOp PROVE DriveInv'
<1>1. PICK res \in Statuses : Push(Head(todo), "canned", res) /\ phase' = AfterCanned(res, kernel'.dead)
  BY DEF CannedOp
<1>2. /\ phase = "canned" /\ todo # <<>> /\ opts' = opts
      /\ pattern' = IF pattern + 1 = Patterns THEN 0 ELSE pattern + 1
      /\ todo' = IF pattern' = 0 THEN Tail(todo) ELSE todo
  BY <1>1 DEF CannedOp, Push
<1>3. KoTyped /\ TodoKnown /\ OrderKnown /\ SentDeadKnown /\ CountsKnown /\ StopsKnown /\ phase \in Turning
  BY <1>2 DEF ReportsInv, DriveInv, Turning
<1>4. /\ phase' \in {"canned", "release", "driven"}
      /\ phase' = "canned" => Dead' = Nothing
      /\ phase' = "driven" => Dead' # Nothing
      /\ phase' = "release" => res = "fault"
  <2>1. PICK d : d = kernel'.dead
    OBVIOUS
  <2>2. CASE res = "fault"
    <3>1. phase' = "release"
      BY <1>1, <2>2 DEF AfterCanned
    <3> QED
      BY <2>2, <3>1
  <2>3. CASE res = "ok" /\ d # Nothing
    <3>1. phase' = "driven"
      BY <1>1, <2>1, <2>3 DEF AfterCanned
    <3> QED
      BY <2>1, <2>3, <3>1 DEF Dead
  <2>4. CASE res = "ok" /\ d = Nothing
    <3>1. phase' = "canned"
      BY <1>1, <2>1, <2>4 DEF AfterCanned
    <3> QED
      BY <2>1, <2>4, <3>1 DEF Dead
  <2> QED
    BY <2>2, <2>3, <2>4 DEF Statuses
<1>5. PICK op : op = Head(todo) /\ op \in Ops
  BY <1>2, <1>3, TurnIs
<1>6. PICK r : r = Result(op, "canned", res)
  OBVIOUS
<1>7. r \in Outcomes /\ r.op = op /\ r.by = "canned" /\ r.res = res
  BY <1>1, <1>5, <1>6 DEF Result, Outcomes, Statuses
<1>8. /\ ReportsInv'
      /\ AutoOps' = Append(AutoOps, r) /\ Found' = Found
      /\ killer' = IF Dead = Nothing /\ Dead' # Nothing THEN "canned" ELSE killer
      /\ sentDead' = IF Dead = Nothing THEN sentDead ELSE Append(sentDead, "canned")
      /\ Dead # Nothing => Dead' = Dead
  <2>1. Push(op, "canned", res)
    BY <1>1, <1>5
  <2> QED
    BY <1>2, <1>4, <1>5, <1>6, <2>1, PushKeeps
<1>9. PICK n \in Seq(Outcomes) : AutoOps' = AutoOps \o n /\ Len(n) = 1 /\ n[1] = r
  BY <1>3, <1>7, <1>8, PushedLast
<1>10. OfTurn(n, Head(todo))
  <2>1. \A i \in 1..1 : i = 1
    OBVIOUS
  <2> QED
    BY <1>5, <1>7, <1>9, <2>1 DEF OfTurn
<1>11. OrderKnown'
  <2>1. todo' \in {todo, Tail(todo)} /\ phase' \in Turning \cup {"release", "driven"}
    BY <1>2, <1>4 DEF Turning
  <2> QED
    BY <1>2, <1>3, <1>8, <1>9, <1>10, <2>1, OrderAdded
<1>12. pattern \in 0..(Patterns - 1) /\ Patterns \in Nat /\ Patterns >= 1
  BY <1>3, ModuleAssumption DEF TodoKnown
<1>13. /\ pattern' \in 0..(Patterns - 1)
       /\ pattern' = 0 => pattern + 1 = Patterns
  BY <1>2, <1>12
<1>14. /\ Chosen' = Chosen /\ todo' \in Seq(Ops)
       /\ Len(todo') <= Len(Chosen') /\ \A i \in 1..Len(todo') : todo'[i] = Chosen'[Done' + i]
       /\ Done' = IF pattern' = 0 THEN Done + 1 ELSE Done
  <2>1. CASE pattern' = 0
    BY <1>2, <1>3, <1>8, <2>1, TodoMoves
  <2>2. CASE pattern' # 0
    BY <1>2, <1>3, <1>8, <2>2, TodoStays
  <2> QED
    BY <2>1, <2>2
<1>15. TodoKnown'
  <2>1. opts.auto = "canned" /\ (todo' = <<>> => pattern' = 0)
    BY <1>2, <1>3 DEF TodoKnown
  <2> QED
    BY <1>2, <1>4, <1>13, <1>14, <2>1 DEF TodoKnown, Turning, Driving
<1>16. SentDeadKnown'
  BY <1>2, <1>3, <1>4, <1>8, SentToDead
<1>17. ASSUME phase' = "canned", NEW p \in 1..Len(Chosen)
       PROVE  ResultCount(p)' = IF p <= Done' THEN Patterns ELSE IF p = Done' + 1 THEN pattern' ELSE 0
  <2>1. PICK q, q2, d, d2, x, x2, P : /\ q = ResultCount(p) /\ q2 = ResultCount(p)' /\ d = Done /\ d2 = Done'
                                      /\ x = pattern /\ x2 = pattern' /\ P = Patterns
    OBVIOUS
  <2>2. q = IF p <= d THEN P ELSE IF p = d + 1 THEN x ELSE 0
    BY <1>2, <1>3, <2>1 DEF CountsKnown
  <2>3. q2 = IF p = d + 1 THEN q + 1 ELSE q
    BY <1>2, <1>3, <1>8, <1>9, <1>10, <2>1, TurnCounted
  <2>4. d \in Nat /\ p \in Nat
    BY <1>2, <1>3, <2>1, TurnIs
  <2>5. x \in 0..(P - 1) /\ P \in Nat /\ P >= 1 /\ x2 = IF x + 1 = P THEN 0 ELSE x + 1
    BY <1>2, <1>12, <2>1
  <2>6. d2 = IF x2 = 0 THEN d + 1 ELSE d
    BY <1>14, <2>1
  <2>7. q2 = IF p <= d2 THEN P ELSE IF p = d2 + 1 THEN x2 ELSE 0
    BY ONLY <2>2, <2>3, <2>4, <2>5, <2>6
  <2> QED
    BY <2>1, <2>7
<1>18. phase' = "release" => Faulted'
  <2>1. PICK a \in Seq(Outcomes) : a = AutoOps
    BY <1>3, PartsTyped
  <2>2. PICK b, K : b = Append(a, r) /\ K = Len(a) /\ K \in Nat
    <3>1. Len(a) \in Nat
      OBVIOUS
    <3> QED
      BY <3>1
  <2>3. K + 1 \in DOMAIN b /\ b[K + 1] = r
    BY <1>7, <2>2, AppendProperties
  <2>4. K + 1 \in Between(b)
    BY <1>7, <2>3 DEF Between
  <2>5. AutoOps' = b
    BY <1>8, <2>1, <2>2
  <2> QED
    BY <1>4, <1>7, <2>3, <2>4, <2>5 DEF Faulted
<1>19. phase' = "driven" => killer' # Nothing
  BY <1>4, <1>8 DEF ReportsInv, StopsKnown
<1>20. CountsKnown'
  BY <1>4, <1>14, <1>17, <1>18, <1>19 DEF CountsKnown
<1> QED
  BY <1>11, <1>15, <1>16, <1>20 DEF DriveInv

LEMMA ReleaseDrives == ASSUME ReportsInv, DriveInv, Release PROVE DriveInv'
<1>1. PICK res \in Statuses : Push("release", "release", res)
  BY DEF Release
<1>2. /\ phase \in {"canned", "campaigns", "release"} /\ phase' = "driven" /\ opts' = opts
      /\ todo' = <<>> /\ pattern' = 0
      /\ phase = "canned" => todo = <<>>
      /\ phase = "campaigns" => todo = <<>> \/ Dead # Nothing
  BY <1>1 DEF Release, AtRelease, Push, Dead
<1>3. KoTyped /\ TodoKnown /\ OrderKnown /\ SentDeadKnown /\ CountsKnown /\ StopsKnown
  BY DEF ReportsInv, DriveInv
<1>4. PICK r : r = Result("release", "release", res)
  OBVIOUS
<1>5. r \in Outcomes /\ r.by = "release"
  BY <1>1, <1>4 DEF Result, Outcomes, Statuses
<1>6. /\ ReportsInv'
      /\ AutoOps' = Append(AutoOps, r) /\ Found' = Found
      /\ killer' = IF Dead = Nothing /\ Dead' # Nothing THEN "release" ELSE killer
      /\ sentDead' = IF Dead = Nothing THEN sentDead ELSE Append(sentDead, "release")
      /\ Dead # Nothing => Dead' = Dead
  BY <1>1, <1>2, <1>4, PushKeeps
<1>7. /\ OrderKnown' /\ Between(AutoOps)' = Between(AutoOps)
      /\ \A i \in Between(AutoOps) : AutoOps'[i] = AutoOps[i]
      /\ \A o : ResultsOf(o, AutoOps)' = ResultsOf(o, AutoOps)
  BY <1>2, <1>3, <1>5, <1>6, ReleasePushed DEF Turning
<1>8. Chosen' = Chosen
  BY <1>6, SameChosen
<1>9. TodoKnown'
  <2>1. <<>> \in Seq(Ops) /\ 0 \in 0..(Patterns - 1)
    BY ModuleAssumption
  <2>2. opts.auto # "off"
    BY <1>2, <1>3 DEF TodoKnown, Driving
  <2> QED
    BY <1>2, <2>1, <2>2 DEF TodoKnown, Turning
<1>10. SentDeadKnown'
  BY <1>2, <1>3, <1>6, SentToDead
<1>11. Faulted => Faulted'
  BY <1>7 DEF Faulted
<1>12. \A p : ResultCount(p)' = ResultCount(p)
  BY <1>7, <1>8 DEF ResultCount
<1>13. ASSUME killer' = Nothing PROVE CountsKnown'
  <2> SUFFICES AllCounted'
    BY <1>2 DEF CountsKnown
  <2>1. killer = Nothing /\ Dead = Nothing
    BY <1>3, <1>6, <1>13, NothingIs DEF StopsKnown, Steps
  <2>2. todo = <<>> => Done = Len(Chosen)
    <3>1. Len(Chosen) \in Nat
      BY <1>3, ChosenIs
    <3> QED
      BY <3>1, EmptySeq DEF Done
  <2>3. \A p \in 1..Len(Chosen) : p <= Len(Chosen)
    BY <1>3, ChosenIs
  <2>4. CASE phase = "release"
    <3>1. opts.auto = "canned" /\ Faulted
      BY <1>3, <2>4 DEF TodoKnown, CountsKnown
    <3> QED
      BY <1>2, <1>11, <3>1 DEF AllCounted
  <2>5. CASE phase = "canned"
    <3>1. opts.auto = "canned" /\ Done = Len(Chosen)
      BY <1>2, <1>3, <2>2, <2>5 DEF TodoKnown
    <3>2. \A p \in 1..Len(Chosen) : ResultCount(p) = Patterns
      BY <1>3, <2>3, <2>5, <3>1 DEF CountsKnown
    <3> QED
      BY <1>2, <1>8, <1>12, <3>1, <3>2 DEF AllCounted
  <2>6. CASE phase = "campaigns"
    <3>1. opts.auto # "canned" /\ Done = Len(Chosen)
      BY <1>2, <1>3, <2>1, <2>2, <2>6 DEF TodoKnown
    <3>2. opts.auto # "concolic" => \A p \in 1..Len(Chosen) : ResultCount(p) \in 1..(MaxResults + 1)
      BY <1>3, <2>3, <2>6, <3>1 DEF CountsKnown
    <3> QED
      BY <1>2, <1>8, <1>12, <3>1, <3>2 DEF AllCounted
  <2> QED
    BY <1>2, <2>4, <2>5, <2>6
<1>14. ASSUME killer' # Nothing PROVE CountsKnown'
  BY <1>2, <1>14 DEF CountsKnown
<1>15. CountsKnown'
  BY ONLY <1>13, <1>14
<1> QED
  BY <1>7, <1>9, <1>10, <1>15 DEF DriveInv

-----------------------------------------------------------------------------
(* The invariant of an analysis, and what follows from it.                 *)

KoInv == ReportsInv /\ DriveInv

LEMMA KoInitially == KoInit => KoInv
<1> SUFFICES ASSUME KoInit PROVE KoInv
  OBVIOUS
<1>1. phase = "load" /\ todo = <<>> /\ pattern = 0 /\ killer = Nothing /\ sentDead = <<>> /\ report = FreshReport
  BY DEF KoInit
<1>2. ReportsInv
  BY ReportsInitially
<1>3. PICK a : a = <<>>
  OBVIOUS
<1>4. AutoOps = a /\ DOMAIN a = {}
  BY <1>1, <1>3 DEF FreshReport, AutoOps
<1>5. Between(a) = {} /\ OpenFirst(a) /\ ReleaseLast(a)
  BY <1>4 DEF Between, OpenFirst, ReleaseLast
<1>6. OrderKnown
  BY <1>1, <1>4, <1>5 DEF OrderKnown, Turning
<1>7. TodoKnown
  <2>1. <<>> \in Seq(Ops) /\ 0 \in 0..(Patterns - 1)
    BY ModuleAssumption
  <2> QED
    BY <1>1, <2>1 DEF TodoKnown, Turning, Driving
<1>8. SentDeadKnown
  BY <1>1, NothingIs DEF SentDeadKnown, Driving, Steps
<1>9. CountsKnown
  BY <1>1 DEF CountsKnown
<1> QED
  BY <1>2, <1>6, <1>7, <1>8, <1>9 DEF KoInv, DriveInv

LEMMA KoStays == ASSUME KoInv, [KoNext]_analysisVars PROVE KoInv'
<1>1. ReportsInv /\ DriveInv
  BY DEF KoInv
<1>2. CASE LoadFails
  BY <1>1, <1>2, LoadFailsKeeps, LoadFailsDrives DEF KoInv
<1>3. CASE Load
  BY <1>1, <1>3, LoadKeeps, LoadDrives DEF KoInv
<1>4. CASE RunInit
  BY <1>1, <1>4, RunInitKeeps, RunInitDrives DEF KoInv
<1>5. CASE RunDeferred
  BY <1>1, <1>5, RunDeferredKeeps, RunDeferredDrives DEF KoInv
<1>6. CASE Harvest
  BY <1>1, <1>6, HarvestKeeps, HarvestDrives DEF KoInv
<1>7. CASE SendOpen
  <2>1. PICK res \in Statuses : Push("open", "open", res)
    BY <1>7 DEF SendOpen
  <2>2. phase = "open" /\ phase' \in {"canned", "campaigns"}
    BY <1>7 DEF SendOpen
  <2>3. ReportsInv'
    BY <1>1, <2>1, <2>2, PushKeeps
  <2> QED
    BY <1>1, <1>7, <2>3, SendOpenDrives DEF KoInv
<1>8. CASE CannedOp
  <2>1. PICK res \in Statuses : Push(Head(todo), "canned", res) /\ phase' = AfterCanned(res, kernel'.dead)
    BY <1>8 DEF CannedOp
  <2>2. phase = "canned" /\ todo # <<>>
    BY <1>8 DEF CannedOp
  <2>3. Head(todo) \in Ops
    BY <1>1, <2>2, TurnIs DEF ReportsInv, DriveInv, Turning
  <2>4. phase' \in {"canned", "release", "driven"}
    <3>1. PICK d : d = kernel'.dead
      OBVIOUS
    <3>2. AfterCanned(res, d) \in {"canned", "release", "driven"}
      BY <2>1 DEF AfterCanned, Statuses
    <3> QED
      BY <2>1, <3>1, <3>2
  <2>5. ReportsInv'
    BY <1>1, <2>1, <2>2, <2>3, <2>4, PushKeeps
  <2> QED
    BY <1>1, <1>8, <2>5, CannedOpDrives DEF KoInv
<1>9. CASE BeginOp
  <2>1. phase = "campaigns"
    BY <1>9 DEF BeginOp
  <2>2. todo \in Seq(Ops) /\ opts.auto # "canned" /\ opts.auto # "off"
    BY <1>1, <2>1 DEF DriveInv, TodoKnown, Driving
  <2> QED
    BY <1>1, <1>9, <2>2, BeginOpKeeps, BeginOpDrives DEF KoInv
<1>10. CASE RunCampaign
  BY <1>1, <1>10, RunCampaignKeeps, RunCampaignDrives DEF KoInv
<1>11. CASE FuzzToConcolic
  BY <1>1, <1>11, FuzzToConcolicKeeps, FuzzToConcolicDrives DEF KoInv
<1>12. CASE EndOp
  BY <1>1, <1>12, EndOpKeeps, EndOpDrives DEF KoInv
<1>13. CASE Release
  <2>1. PICK res \in Statuses : Push("release", "release", res)
    BY <1>13 DEF Release
  <2>2. phase \in {"canned", "campaigns", "release"} /\ phase' = "driven"
    BY <1>13 DEF Release, AtRelease
  <2>3. ReportsInv'
    BY <1>1, <2>1, <2>2, PushKeeps
  <2> QED
    BY <1>1, <1>13, <2>3, ReleaseDrives DEF KoInv
<1>14. CASE Driven
  BY <1>1, <1>14, DrivenKeeps, DrivenDrives DEF KoInv
<1>15. CASE SendExplicit
  BY <1>1, <1>15, SendExplicitKeeps, SendExplicitDrives DEF KoInv
<1>16. CASE RunCleanup
  BY <1>1, <1>16, RunCleanupKeeps, RunCleanupDrives DEF KoInv
<1>17. CASE NoCleanup
  BY <1>1, <1>17, NoCleanupKeeps, NoCleanupDrives DEF KoInv
<1>18. CASE RetryHybrid
  BY <1>1, <1>18, RetryHybridKeeps, RetryHybridDrives DEF KoInv
<1>19. CASE DeliverReport
  BY <1>1, <1>19, DeliverReportKeeps, DeliverReportDrives DEF KoInv
<1>20. CASE OpThrows
  BY <1>1, <1>20, OpThrowsKeeps, OpThrowsDrives DEF KoInv
<1>21. CASE UNCHANGED analysisVars
  <2>1. UNCHANGED <<phase, opts, engine, image, kernel, camp, report, todo, pattern, left, firstReport,
                    answer, logged, killer, sentDead>>
    BY <1>21 DEF analysisVars, koVars, history
  <2>2. UNCHANGED <<KLog, KExc, Dead, Cpu, RInit, RError, RLog, RExc, Bug, AutoOps, Sent, Cleaned, Found, By,
                    CampPc, CampOp, CampEntries, CampDone>>
    BY <2>1 DEF KLog, KExc, Dead, Cpu, RInit, RError, RLog, RExc, Bug, AutoOps, Sent, Cleaned, Found, By,
       CampPc, CampOp, CampEntries, CampDone
  <2>3. KoTyped' /\ LogsSpliced'
    BY <1>1, <2>1, <2>2 DEF ReportsInv, KoTyped, LogsSpliced
  <2>4. StopsKnown'
    BY <1>1, <2>1, <2>2 DEF ReportsInv, StopsKnown
  <2>5. AttemptsKnown'
    BY <1>1, <2>1 DEF ReportsInv, AttemptsKnown, Refused
  <2>6. CampKnown'
    BY <1>1, <2>1, <2>2 DEF ReportsInv, CampKnown, FuzzCamp, ConcolicCamp
  <2>7. Chosen' = Chosen /\ Done' = Done /\ \A op : PlaceOf(op)' = PlaceOf(op)
    BY <2>1, <2>2, SameChosen DEF Done
  <2>8. TodoKnown' /\ SentDeadKnown'
    BY <1>1, <2>1, <2>2, <2>7 DEF DriveInv, TodoKnown, SentDeadKnown
  <2>9. OrderKnown'
    BY <1>1, <2>1, <2>2, <2>7 DEF DriveInv, OrderKnown
  <2>10. Faulted' = Faulted /\ \A p : ResultCount(p)' = ResultCount(p)
    BY <2>2, <2>7 DEF Faulted, ResultCount
  <2>11. CountsKnown'
    BY <1>1, <2>1, <2>7, <2>10 DEF DriveInv, CountsKnown, AllCounted
  <2> QED
    BY <2>3, <2>4, <2>5, <2>6, <2>8, <2>9, <2>11 DEF KoInv, ReportsInv, DriveInv
<1> QED
  BY <1>2, <1>3, <1>4, <1>5, <1>6, <1>7, <1>8, <1>9, <1>10, <1>11, <1>12, <1>13, <1>14, <1>15,
     <1>16, <1>17, <1>18, <1>19, <1>20, <1>21 DEF KoNext

LEMMA KoInvariant == KoSpec => []KoInv
<1>1. KoInit => KoInv
  BY KoInitially
<1>2. KoInv /\ [KoNext]_analysisVars => KoInv'
  BY KoStays
<1> QED
  BY <1>1, <1>2, PTL DEF KoSpec

\* The shape of an analysis of a kernel module: the phase, the kernel's engine and stop, the
\* campaign under way and its bounds, the report and its attempt.
THEOREM AnalysisTypes == KoSpec => []KoTypeOK
<1>1. KoInv => KoTypeOK
  <2> SUFFICES ASSUME KoInv PROVE KoTypeOK
    OBVIOUS
  <2>1. KoTyped /\ CampKnown /\ TodoKnown
    BY DEF KoInv, ReportsInv, DriveInv
  <2>2. Nothing \notin Campaigns(Ops)
    BY HarvestAssumption
  <2>3. phase \in {"load", "init", "deferred", "harvest", "open", "canned", "campaigns", "fuzz",
                  "concolic", "release", "driven", "explicit", "over", "delivered"}
    BY <2>1 DEF KoTyped, Turns, Driving
  <2>4. kernel.dead \in {Nothing} \cup Stops /\ kernel.cpu \in {"own", "concolic"}
    BY <2>1, PartsTyped DEF Dead, Cpu
  <2>5. Len(kernel.log) <= MaxLog /\ Len(report.exc \o kernel.exc) <= MaxLog
    BY <2>1 DEF KoTyped, KLog, KExc, RExc
  <2>6. (camp # Nothing) <=> phase \in {"fuzz", "concolic"}
    BY <2>1, <2>2 DEF CampKnown
  <2>7. camp # Nothing => /\ camp \in Campaigns(Ops)
                          /\ (phase = "fuzz" => Len(camp.corpus) <= Cap)
    BY <2>1, <2>6 DEF CampKnown, FuzzCamp, CampEntries
  <2>8. engine \in {"js", "hybrid"} /\ report.engine = engine /\ left \in 0..opts.explicit
    BY <2>1 DEF KoTyped, By
  <2>9. report.init \in {Nothing, "ok", "fault"} /\ (report.init = "fault" <=> report.error # Nothing)
    BY <2>1, PartsTyped DEF KoTyped, RInit, RError
  <2>10. pattern \in 0..Patterns - 1
    BY <2>1 DEF TodoKnown
  <2> QED
    BY <2>3, <2>4, <2>5, <2>6, <2>7, <2>8, <2>9, <2>10 DEF KoTypeOK
<1> QED
  BY <1>1, KoInvariant, PTL

\* What analyzeKo delivers is what happened: every record that is not a campaign input's is in
\* the report once and in order, a stop of the kernel by init_module or by the drive is
\* reported and nothing is run after it, and a second attempt is explained by a refusal.
THEOREM AnalysisReports == KoSpec => []ReportIsTrue
<1>1. KoInv => ReportIsTrue
  <2> SUFFICES ASSUME KoInv PROVE ReportIsTrue
    OBVIOUS
  <2>1. KoTyped /\ LogsSpliced /\ StopsKnown /\ AttemptsKnown
    BY DEF KoInv, ReportsInv
  <2>2. LogsReachReport
    BY <2>1 DEF LogsSpliced, LogsReachReport, RLog, KLog, KExc, Driving
  <2>3. StopsAreSeen
    <3>1. phase = "over" => Bug = Dead \/ killer \in {"deferred", "explicit", "cleanup"}
      BY <2>1 DEF StopsKnown
    <3>2. (Bug # Nothing => Sent = <<>> /\ Cleaned = Nothing) /\ (killer = "init" => AutoOps = <<>>)
      BY <2>1 DEF StopsKnown
    <3> QED
      BY <3>1, <3>2 DEF StopsAreSeen, Bug, Dead, Sent, Cleaned, AutoOps
  <2>4. RetryExplained
    <3> SUFFICES ASSUME phase = "delivered", answer # Thrown
                 PROVE  /\ engine = "hybrid" => Refused(firstReport)
                        /\ answer.engine = "js" => answer = (IF engine = "js" THEN report ELSE firstReport)
                        /\ answer.error = "unimplemented" /\ opts.fallback =>
                              engine = "hybrid" /\ answer.engine = "js"
      BY DEF RetryExplained
    <3>1. report.engine = engine /\ "unimplemented" \in EngineRefusals
      BY <2>1 DEF KoTyped, By, EngineRefusals, Errors
    <3>2. CASE engine = "js" /\ answer = report /\ ~(opts.fallback /\ Refused(report))
      BY <3>1, <3>2 DEF Refused
    <3>3. CASE engine = "hybrid" /\ answer = report /\ KeepsSecond(report)
      <4>1. Refused(firstReport)
        BY <2>1, <3>3 DEF AttemptsKnown
      <4>2. report.error = "unimplemented" => report.init = "fault"
        BY <2>1, NothingIs DEF KoTyped, RInit, RError, Errors
      <4> QED
        BY <3>1, <3>3, <4>1, <4>2 DEF KeepsSecond
    <3>4. CASE engine = "hybrid" /\ answer = firstReport
      BY <2>1, <3>4 DEF AttemptsKnown
    <3> QED
      BY <2>1, <3>2, <3>3, <3>4 DEF AttemptsKnown
  <2> QED
    BY <2>2, <2>3, <2>4 DEF ReportIsTrue
<1> QED
  BY <1>1, KoInvariant, PTL

\* autoDriveFileOps: open first, release last, the operations in between in the order of the
\* harvest; a drive that ends on a live kernel has given each of them its turn, and a kernel
\* that the drive stopped is sent two operations more at the most.
THEOREM AnalysisDrives == KoSpec => []DriveIsComplete
<1>1. KoInv => DriveIsComplete
  <2> SUFFICES ASSUME KoInv PROVE DriveIsComplete
    OBVIOUS
  <2>1. KoTyped /\ CampKnown /\ TodoKnown /\ OrderKnown /\ SentDeadKnown /\ CountsKnown
    BY DEF KoInv, ReportsInv, DriveInv
  <2>2. report.auto = AutoOps /\ Unique(report.harvested) = Chosen /\ kernel.cpu = Cpu
    BY DEF AutoOps, Chosen, Found, Cpu
  <2>3. DriveInOrder
    <3>1. PICK a : a = AutoOps
      OBVIOUS
    <3>2. OpenFirst(a) /\ ReleaseLast(a)
      BY <2>1, <3>1 DEF OrderKnown
    <3>3. \A i \in DOMAIN a : /\ a[i].by = "open" <=> i = 1
                              /\ a[i].by = "release" => i = Len(a)
      BY <3>2 DEF OpenFirst, ReleaseLast
    <3>4. /\ \A i \in Between(a) : a[i].op \in ToSet(Chosen)
          /\ \A i, j \in Between(a) : i < j => PlaceOf(a[i].op) <= PlaceOf(a[j].op)
      BY <2>1, <3>1 DEF OrderKnown
    <3>5. killer \in {"open", "canned", "release"} =>
             sentDead \in {<<>>, <<"canned">>, <<"release">>, <<"canned", "release">>}
      BY <2>1 DEF SentDeadKnown
    <3>6. report.auto = a
      BY <2>2, <3>1
    <3> QED
      BY <2>2, <3>3, <3>4, <3>5, <3>6 DEF DriveInOrder
  <2>4. EveryOpDriven
    <3>1. kernel.cpu = "concolic" <=> phase = "concolic"
      BY <2>1, <2>2 DEF CampKnown
    <3>2. \A i \in DOMAIN report.auto : report.auto[i].res # Nothing
      <4>1. PICK a \in Seq(Outcomes) : a = AutoOps
        BY <2>1, PartsTyped
      <4>2. \A i \in DOMAIN a : a[i].res \in {"ok", "fault", "ran"}
        <5>1. \A i \in DOMAIN a : a[i] \in Outcomes
          OBVIOUS
        <5> QED
          BY <5>1 DEF Outcomes
      <4>3. \A i \in DOMAIN a : a[i].res # Nothing
        BY <4>2, NothingIs
      <4> QED
        BY <2>2, <4>1, <4>3
    <3>3. ASSUME phase = "driven", killer = Nothing, opts.auto # "concolic", NEW op \in ToSet(Chosen)
          PROVE  IF opts.auto = "canned"
                 THEN \/ Cardinality(ResultsOf(op, AutoOps)) = Patterns
                      \/ \E i \in Between(AutoOps) : AutoOps[i].res = "fault"
                 ELSE Cardinality(ResultsOf(op, AutoOps)) \in 1..(MaxResults + 1)
      <4>1. PICK p \in 1..Len(Chosen) : Chosen[p] = op
        BY <2>1, ChosenIs
      <4>2. Cardinality(ResultsOf(op, AutoOps)) = ResultCount(p)
        BY <4>1 DEF ResultCount
      <4>3. AllCounted
        BY <2>1, <3>3 DEF CountsKnown
      <4>4. opts.auto = "canned" \/ opts.auto \in {"fuzz", "both"}
        BY <2>1, <3>3, ModeIs DEF TodoKnown, Driving
      <4>5. CASE opts.auto = "canned"
        BY <4>2, <4>3, <4>5 DEF AllCounted, Faulted
      <4>6. CASE opts.auto # "canned"
        BY <4>2, <4>3, <4>4, <4>6 DEF AllCounted
      <4> QED
        BY <4>5, <4>6
    <3> QED
      BY <2>2, <3>1, <3>2, <3>3 DEF EveryOpDriven
  <2> QED
    BY <2>3, <2>4 DEF DriveIsComplete
<1> QED
  BY <1>1, KoInvariant, PTL
=============================================================================
