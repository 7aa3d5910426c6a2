-------------------------- MODULE UploaderProofs ---------------------------
(***************************************************************************)
(* Proofs about CachedUploader, for any number of threads, limit and batch *)
(* (0 for none, too), calls and crashes.                                   *)
(*                                                                         *)
(* BaseInv: the ranges, what a thread holds at each place, and that the    *)
(* temporary file is never the cache and never longer than the limit.      *)
(* CountInv: each line above the limit belongs to a thread that has still  *)
(* to rewrite, or the gateway restarted.  AloneInv and OnceInv: as long as *)
(* no two calls overlapped, the cache and what a rewrite is about to put   *)
(* in its place are both the queue of what is neither taken nor dropped.   *)
(***************************************************************************)
EXTENDS CachedUploader, FiniteSetTheorems, SequenceTheorems, TLAPS

Calls == [pc : Places, rec : Records \cup {0}, lines : Seq(Records), k : Nat \ {0}, sent : Nat,
          fd : Inodes \cup {None}, for : {"flush", "append"}]

(* The thread is in rewriteAll, or about to rename its file. *)
Rewriting(c) == call[c].pc \in {"open", "write", "rename"}

(* The record of the call is still to be sent or appended. *)
HasRecord(c) ==
  \/ call[c].pc \in {"pending", "read", "replay", "truncate", "send", "append", "line"}
  \/ Rewriting(c) /\ call[c].for = "flush"

Types ==
  /\ content \in [Inodes -> Seq(Records)]
  /\ cache \in Inodes /\ tmp \in Inodes \cup {None}
  /\ call \in [Callers -> Calls]
  /\ calls \in 0..MaxCalls /\ crashes \in 0..MaxCrashes
  /\ delivered \in [Records -> 0..2]
  /\ kept \subseteq Records /\ dropped \subseteq Records
  /\ overlap \in BOOLEAN

Thread(c) ==
  /\ (call[c].fd # None) <=> call[c].pc \in {"write", "line"}
  /\ call[c].pc = "line" => call[c].fd # tmp
  /\ HasRecord(c) => call[c].rec \in Records
  /\ ~Rewriting(c) => call[c].for = "flush"
  /\ call[c].pc # "replay" => call[c].k = 1
  /\ call[c].k <= Len(call[c].lines) + 1
  /\ Batch > 0 => call[c].sent <= Batch
  /\ call[c].pc \in {"open", "write"} /\ MaxLines > 0 => Len(call[c].lines) <= MaxLines

ThreadInv == \A c \in Callers : Thread(c)

FileInv ==
  /\ tmp # cache
  /\ MaxLines > 0 /\ tmp # None => Len(content[tmp]) <= MaxLines

BaseInv == Types /\ ThreadInv /\ FileInv

(* The constants, inode numbers and record numbers. *)
LEMMA ConstantsTyped ==
  /\ Cardinality(Callers) \in Nat
  /\ MaxLines \in Nat /\ Batch \in Nat /\ MaxCalls \in Nat /\ MaxCrashes \in Nat
  /\ 0 \in Inodes /\ None \notin Inodes /\ None \in Nat /\ Inodes \subseteq Nat
  /\ Records \subseteq Nat /\ 0 \notin Records
  /\ Idle \in Calls
<1>1. Cardinality(Callers) \in Nat
  BY FS_CardinalityType, CachedUploaderAssumption
<1>2. <<>> \in Seq(Records)
  OBVIOUS
<1>3. Idle \in Calls
  BY <1>1, <1>2 DEF Idle, Calls, Places, None, Inodes
<1> QED
  BY <1>1, <1>3, CachedUploaderAssumption DEF Inodes, None, Records

(* A suffix of a sequence of records. *)
LEMMA Suffix ==
  ASSUME NEW s \in Seq(Records), NEW j \in 1..(Len(s) + 1)
  PROVE  /\ SubSeq(s, j, Len(s)) \in Seq(Records)
         /\ Len(SubSeq(s, j, Len(s))) = Len(s) - j + 1
         /\ \A i \in 1..(Len(s) - j + 1) : SubSeq(s, j, Len(s))[i] = s[i + j - 1]
  OBVIOUS

(* Newest leaves a suffix, within the limit. *)
LEMMA NewestIsSuffix ==
  ASSUME NEW s \in Seq(Records)
  PROVE  /\ \E j \in 1..(Len(s) + 1) : Newest(s) = SubSeq(s, j, Len(s))
         /\ Newest(s) \in Seq(Records)
         /\ MaxLines > 0 => Len(Newest(s)) <= MaxLines
<1>1. CASE MaxLines = 0 \/ Len(s) <= MaxLines
  <2>1. Newest(s) = s /\ s = SubSeq(s, 1, Len(s))
    BY <1>1, SubSeqFull DEF Newest
  <2>2. 1 \in 1..(Len(s) + 1)
    OBVIOUS
  <2>3. \E j \in 1..(Len(s) + 1) : Newest(s) = SubSeq(s, j, Len(s))
    BY <2>1, <2>2, Zenon
  <2>4. MaxLines > 0 => Len(Newest(s)) <= MaxLines
    BY <1>1, <2>1, ConstantsTyped
  <2> QED
    BY <2>1, <2>3, <2>4
<1>2. CASE ~(MaxLines = 0 \/ Len(s) <= MaxLines)
  <2>1. Newest(s) = SubSeq(s, Len(s) - MaxLines + 1, Len(s))
    BY <1>2 DEF Newest
  <2>2. Len(s) - MaxLines + 1 \in 1..(Len(s) + 1)
    BY <1>2, ConstantsTyped
  <2>3. PICK j : j = Len(s) - MaxLines + 1
    OBVIOUS
  <2>4. j \in 1..(Len(s) + 1) /\ Newest(s) = SubSeq(s, j, Len(s))
    BY <2>1, <2>2, <2>3
  <2>5. Newest(s) \in Seq(Records) /\ Len(Newest(s)) = Len(s) - j + 1
    BY <2>4, Suffix
  <2>6. MaxLines > 0 => Len(Newest(s)) <= MaxLines
    BY <2>3, <2>5, ConstantsTyped
  <2> QED
    BY <2>4, <2>5, <2>6
<1> QED
  BY <1>1, <1>2

(* What a writer leaves in the file it writes from the start. *)
LEMMA Overwritten ==
  ASSUME NEW new \in Seq(Records), NEW old \in Seq(Records)
  PROVE  LET written == new \o SubSeq(old, Len(new) + 1, Len(old)) IN
         /\ written \in Seq(Records)
         /\ Len(written) = IF Len(old) > Len(new) THEN Len(old) ELSE Len(new)
         /\ old = <<>> => written = new
<1> DEFINE rest == SubSeq(old, Len(new) + 1, Len(old))
<1>1. rest \in Seq(Records) /\ Len(rest) = IF Len(old) > Len(new) THEN Len(old) - Len(new) ELSE 0
  OBVIOUS
<1>2. new \o rest \in Seq(Records) /\ Len(new \o rest) = Len(new) + Len(rest)
  BY <1>1
<1>3. old = <<>> => rest = <<>>
  BY <1>1
<1>4. old = <<>> => new \o rest = new
  BY <1>3
<1> HIDE DEF rest
<1>5. /\ new \o rest \in Seq(Records)
      /\ Len(new \o rest) = IF Len(old) > Len(new) THEN Len(old) ELSE Len(new)
      /\ old = <<>> => new \o rest = new
  BY <1>1, <1>2, <1>4
<1> QED
  BY <1>5 DEF rest

(***************************************************************************)
(* What each step does to the threads                                      *)
(***************************************************************************)
Fields(new, p, r, l, k, s, f, w) ==
  /\ new.pc = p /\ new.rec = r /\ new.lines = l /\ new.k = k
  /\ new.sent = s /\ new.fd = f /\ new.for = w

Moved(c, p, r, l, k, s, f, w) ==
  /\ call' \in [Callers -> Calls]
  /\ \A d \in Callers \ {c} : call'[d] = call[d]
  /\ Fields(call'[c], p, r, l, k, s, f, w)

(* A step replaces the record of its thread. *)
LEMMA Replaced ==
  ASSUME call \in [Callers -> Calls], NEW c \in Callers, NEW new \in Calls,
         call' = [call EXCEPT ![c] = new],
         NEW p, NEW r, NEW l, NEW k, NEW s, NEW f, NEW w, Fields(new, p, r, l, k, s, f, w)
  PROVE  Moved(c, p, r, l, k, s, f, w)
  BY DEF Moved

(* Only the place changes. *)
MovedTo(c, p) ==
  Moved(c, p, call[c].rec, call[c].lines, call[c].k, call[c].sent, call[c].fd, call[c].for)

Returned(c) == Moved(c, "idle", 0, <<>>, 1, 0, None, "flush")

LEMMA IdleFields ==
  Idle \in Calls /\ Fields(Idle, "idle", 0, <<>>, 1, 0, None, "flush")
  BY ConstantsTyped DEF Idle, Fields

LEMMA GotoMoves ==
  ASSUME Types, NEW c \in Callers, NEW p \in Places, Goto(c, p)
  PROVE  MovedTo(c, p)
<1> DEFINE new == [call[c] EXCEPT !.pc = p]
<1>1. call[c] \in Calls /\ call \in [Callers -> Calls]
  BY DEF Types
<1>2. new \in Calls
  BY <1>1 DEF Calls
<1>3. Fields(new, p, call[c].rec, call[c].lines, call[c].k, call[c].sent, call[c].fd, call[c].for)
  BY <1>1 DEF Calls, Fields
<1>4. call' = [call EXCEPT ![c] = new]
  BY <1>1 DEF Goto
<1> QED
  BY <1>1, <1>2, <1>3, <1>4, Replaced DEF MovedTo

LEMMA ReturnMoves ==
  ASSUME Types, NEW c \in Callers, Return(c)
  PROVE  Returned(c)
  BY IdleFields, Replaced DEF Types, Return, Returned

LEMMA CallMoves ==
  ASSUME Types, NEW c \in Callers, Call(c)
  PROVE  Moved(c, "pending", calls + 1, <<>>, 1, 0, None, "flush") /\ calls + 1 \in Records
<1> DEFINE new == [Idle EXCEPT !.pc = "pending", !.rec = calls + 1]
<1>1. calls + 1 \in Records /\ call \in [Callers -> Calls]
  BY ConstantsTyped DEF Types, Call, Records
<1>2. PICK r \in Records : r = calls + 1
  BY <1>1
<1>3. [Idle EXCEPT !.pc = "pending", !.rec = r] \in Calls
  BY IdleFields DEF Calls, Places
<1>4. Fields([Idle EXCEPT !.pc = "pending", !.rec = r], "pending", r, <<>>, 1, 0, None, "flush")
  BY IdleFields DEF Calls, Fields
<1>5. call' = [call EXCEPT ![c] = new]
  BY DEF Call
<1>6. new \in Calls /\ Fields(new, "pending", calls + 1, <<>>, 1, 0, None, "flush")
  BY <1>2, <1>3, <1>4
<1> QED
  BY <1>1, <1>5, <1>6, Replaced

LEMMA ReadMoves ==
  ASSUME Types, NEW c \in Callers, ReadPending(c)
  PROVE  Moved(c, "replay", call[c].rec, Cached, call[c].k, call[c].sent, call[c].fd, call[c].for)
<1> DEFINE new == [call[c] EXCEPT !.pc = "replay", !.lines = Cached]
<1>1. call[c] \in Calls /\ call \in [Callers -> Calls] /\ Cached \in Seq(Records)
  BY DEF Types, Cached
<1>2. PICK l \in Seq(Records) : l = Cached
  BY <1>1
<1>3. [call[c] EXCEPT !.pc = "replay", !.lines = l] \in Calls
  BY <1>1 DEF Calls, Places
<1>4. Fields([call[c] EXCEPT !.pc = "replay", !.lines = l],
             "replay", call[c].rec, l, call[c].k, call[c].sent, call[c].fd, call[c].for)
  BY <1>1 DEF Calls, Fields
<1>5. call' = [call EXCEPT ![c] = new]
  BY DEF ReadPending
<1>6. /\ new \in Calls
      /\ Fields(new, "replay", call[c].rec, Cached, call[c].k, call[c].sent, call[c].fd, call[c].for)
  BY <1>2, <1>3, <1>4
<1> QED
  BY <1>1, <1>5, <1>6, Replaced

(* What rewriteFrom writes back is within the limit. *)
LEMMA RestTyped ==
  ASSUME BaseInv, NEW c \in Callers
  PROVE  /\ SubSeq(call[c].lines, call[c].k, Len(call[c].lines)) \in Seq(Records)
         /\ Rest(c) \in Seq(Records)
         /\ MaxLines > 0 => Len(Rest(c)) <= MaxLines
<1>1. call[c] \in Calls /\ Thread(c)
  BY DEF BaseInv, Types, ThreadInv
<1>2. call[c].lines \in Seq(Records) /\ call[c].k \in 1..(Len(call[c].lines) + 1)
  BY <1>1 DEF Calls, Thread
<1>3. SubSeq(call[c].lines, call[c].k, Len(call[c].lines)) \in Seq(Records)
  BY <1>2, Suffix
<1> QED
  BY <1>3, NewestIsSuffix DEF Rest

LEMMA ReplayMoves ==
  ASSUME BaseInv, NEW c \in Callers, Replay(c)
  PROVE  \/ /\ call[c].k > Len(call[c].lines)
            /\ Moved(c, "truncate", call[c].rec, <<>>, 1, 0, None, "flush")
            /\ UNCHANGED <<delivered, dropped>>
         \/ /\ call[c].k <= Len(call[c].lines)
            /\ Moved(c, "open", call[c].rec, Rest(c), 1, 0, None, "flush")
            /\ dropped' = dropped \cup
                 (Lines(SubSeq(call[c].lines, call[c].k, Len(call[c].lines))) \ Lines(Rest(c)))
            /\ UNCHANGED delivered
         \/ /\ call[c].k <= Len(call[c].lines)
            /\ ~BatchFull(c)
            /\ Take(call[c].lines[call[c].k])
            /\ Moved(c, "replay", call[c].rec, call[c].lines, call[c].k + 1, call[c].sent + 1, call[c].fd, call[c].for)
            /\ UNCHANGED dropped
<1>1. call[c] \in Calls /\ call \in [Callers -> Calls]
  BY DEF BaseInv, Types
<1>2. ASSUME call' = [call EXCEPT ![c] = [Idle EXCEPT !.pc = "truncate", !.rec = call[c].rec]]
      PROVE  Moved(c, "truncate", call[c].rec, <<>>, 1, 0, None, "flush")
  <2> DEFINE new == [Idle EXCEPT !.pc = "truncate", !.rec = call[c].rec]
  <2>1. PICK r \in Records \cup {0} : r = call[c].rec
    BY <1>1 DEF Calls
  <2>2. [Idle EXCEPT !.pc = "truncate", !.rec = r] \in Calls
    BY IdleFields DEF Calls, Places
  <2>3. Fields([Idle EXCEPT !.pc = "truncate", !.rec = r], "truncate", r, <<>>, 1, 0, None, "flush")
    BY IdleFields DEF Calls, Fields
  <2>4. new \in Calls /\ Fields(new, "truncate", call[c].rec, <<>>, 1, 0, None, "flush")
    BY <2>1, <2>2, <2>3
  <2> QED
    BY <1>1, <1>2, <2>4, Replaced
<1>3. ASSUME RewriteFrom(c)
      PROVE  Moved(c, "open", call[c].rec, Rest(c), 1, 0, None, "flush")
  <2> DEFINE new == [Idle EXCEPT !.pc = "open", !.rec = call[c].rec, !.lines = Rest(c)]
  <2>1. PICK r \in Records \cup {0}, l \in Seq(Records) : r = call[c].rec /\ l = Rest(c)
    BY <1>1, RestTyped DEF Calls
  <2>2. [Idle EXCEPT !.pc = "open", !.rec = r, !.lines = l] \in Calls
    BY IdleFields DEF Calls, Places
  <2>3. Fields([Idle EXCEPT !.pc = "open", !.rec = r, !.lines = l], "open", r, l, 1, 0, None, "flush")
    BY IdleFields DEF Calls, Fields
  <2>4. new \in Calls /\ Fields(new, "open", call[c].rec, Rest(c), 1, 0, None, "flush")
    BY <2>1, <2>2, <2>3
  <2> QED
    BY <1>1, <1>3, <2>4, Replaced DEF RewriteFrom
<1>4. ASSUME call' = [call EXCEPT ![c].k = call[c].k + 1, ![c].sent = @ + 1],
             call[c].pc = "replay"
      PROVE  Moved(c, "replay", call[c].rec, call[c].lines, call[c].k + 1, call[c].sent + 1,
                   call[c].fd, call[c].for)
  <2> DEFINE new == [call[c] EXCEPT !.k = call[c].k + 1, !.sent = call[c].sent + 1]
  <2>1. call' = [call EXCEPT ![c] = new]
    BY <1>1, <1>4 DEF Calls
  <2>4. call[c].k + 1 \in Nat \ {0} /\ call[c].sent + 1 \in Nat
    BY <1>1 DEF Calls
  <2>5. PICK k \in Nat \ {0}, n \in Nat : k = call[c].k + 1 /\ n = call[c].sent + 1
    BY <2>4
  <2>2. new \in Calls
    <3>1. [call[c] EXCEPT !.k = k, !.sent = n] \in Calls
      BY <1>1 DEF Calls
    <3> QED
      BY <2>5, <3>1
  <2>3. Fields(new, "replay", call[c].rec, call[c].lines, call[c].k + 1, call[c].sent + 1,
               call[c].fd, call[c].for)
    BY <1>1, <1>4 DEF Calls, Fields
  <2> QED
    BY <1>1, <2>1, <2>2, <2>3, Replaced
<1> QED
  BY <1>2, <1>3, <1>4 DEF Replay, RewriteFrom, At

(* The inode fopen gives the temporary file. *)
NewTmp == IF tmp # None THEN tmp ELSE CHOOSE i \in Unused : TRUE

(* There is always an unused inode: one for the cache, one per thread. *)
LEMMA SomeUnused ==
  ASSUME Types, tmp = None
  PROVE  NewTmp \in Unused
<1> DEFINE fds == {call[d].fd : d \in Callers}
           used == fds \cup {cache}
<1>1. IsFiniteSet(Callers) /\ Cardinality(Callers) \in Nat
  BY CachedUploaderAssumption, ConstantsTyped
<1>2. IsFiniteSet(fds) /\ Cardinality(fds) <= Cardinality(Callers) /\ Cardinality(fds) \in Nat
  <2>1. [d \in Callers |-> call[d].fd] \in Surjection(Callers, fds)
    BY DEF Surjection
  <2> QED
    BY <1>1, <2>1, FS_Surjection, FS_CardinalityType
<1>3. IsFiniteSet(used) /\ Cardinality(used) <= Cardinality(Callers) + 1 /\ Cardinality(used) \in Nat
  <2>1. IsFiniteSet(used) /\ Cardinality(used) = IF cache \in fds THEN Cardinality(fds) ELSE Cardinality(fds) + 1
    BY <1>2, FS_AddElement
  <2> HIDE DEF fds, used
  <2> QED
    BY <1>1, <1>2, <2>1
<1>4. Cardinality(Inodes) = Cardinality(Callers) + 2
  BY <1>1, FS_Interval DEF Inodes
<1>5. ~(Inodes \subseteq used)
  BY <1>1, <1>3, <1>4, FS_Subset
<1>6. \E i : i \in Unused
  <2>1. PICK i \in Inodes : i \notin used
    BY <1>5
  <2>2. i \in Unused
    BY <2>1, ConstantsTyped DEF Unused
  <2> QED
    BY <2>2
<1> QED
  BY <1>6 DEF NewTmp

(* The temporary file is never the cache. *)
LEMMA NewTmpTyped ==
  ASSUME BaseInv
  PROVE  NewTmp \in Inodes /\ NewTmp # None /\ NewTmp # cache
<1>1. CASE tmp # None
  BY <1>1, ConstantsTyped DEF NewTmp, BaseInv, Types, FileInv
<1>2. CASE tmp = None
  BY <1>2, SomeUnused, ConstantsTyped DEF Unused, BaseInv
<1> QED
  BY <1>1, <1>2

LEMMA OpenMoves ==
  ASSUME BaseInv, NEW c \in Callers, OpenTmp(c)
  PROVE  /\ Moved(c, "write", call[c].rec, call[c].lines, call[c].k, call[c].sent, NewTmp, call[c].for)
         /\ tmp' = NewTmp
         /\ content' = [content EXCEPT ![NewTmp] = <<>>]
<1>1. call[c] \in Calls /\ call \in [Callers -> Calls]
  BY DEF BaseInv, Types
<1>2. call' = [call EXCEPT ![c] = [call[c] EXCEPT !.pc = "write", !.fd = NewTmp]]
  BY DEF OpenTmp, NewTmp
<1>3. Fields([call[c] EXCEPT !.pc = "write", !.fd = NewTmp],
           "write", call[c].rec, call[c].lines, call[c].k, call[c].sent, NewTmp, call[c].for)
  BY <1>1 DEF Calls, Fields
<1>4. [call[c] EXCEPT !.pc = "write", !.fd = NewTmp] \in Calls
  BY <1>1, NewTmpTyped DEF Calls, Places
<1> QED
  BY <1>1, <1>2, <1>3, <1>4, Replaced DEF OpenTmp, NewTmp

LEMMA WriteMoves ==
  ASSUME BaseInv, NEW c \in Callers, WriteTmp(c)
  PROVE  Moved(c, "rename", call[c].rec, <<>>, call[c].k, call[c].sent, None, call[c].for)
<1>1. call[c] \in Calls /\ call \in [Callers -> Calls]
  BY DEF BaseInv, Types
<1>2. call' = [call EXCEPT ![c] = [call[c] EXCEPT !.pc = "rename", !.lines = <<>>, !.fd = None]]
  BY DEF WriteTmp
<1>3. Fields([call[c] EXCEPT !.pc = "rename", !.lines = <<>>, !.fd = None],
           "rename", call[c].rec, <<>>, call[c].k, call[c].sent, None, call[c].for)
  BY <1>1 DEF Calls, Fields
<1>4. [call[c] EXCEPT !.pc = "rename", !.lines = <<>>, !.fd = None] \in Calls
  <2>1. PICK l \in Seq(Records), n \in Inodes \cup {None} : l = <<>> /\ n = None
    <3>1. <<>> \in Seq(Records)
      OBVIOUS
    <3> QED
      BY <3>1, Zenon
  <2>2. [call[c] EXCEPT !.pc = "rename", !.lines = l, !.fd = n] \in Calls
    BY <1>1 DEF Calls, Places
  <2> QED
    BY <2>1, <2>2
<1> QED
  BY <1>1, <1>2, <1>3, <1>4, Replaced

LEMMA OpenAppendMoves ==
  ASSUME BaseInv, NEW c \in Callers, OpenAppend(c)
  PROVE  Moved(c, "line", call[c].rec, call[c].lines, call[c].k, call[c].sent, cache, call[c].for)
<1>1. call[c] \in Calls /\ call \in [Callers -> Calls] /\ cache \in Inodes
  BY DEF BaseInv, Types
<1>2. call' = [call EXCEPT ![c] = [call[c] EXCEPT !.pc = "line", !.fd = cache]]
  BY DEF OpenAppend
<1>3. Fields([call[c] EXCEPT !.pc = "line", !.fd = cache],
           "line", call[c].rec, call[c].lines, call[c].k, call[c].sent, cache, call[c].for)
  BY <1>1 DEF Calls, Fields
<1>4. [call[c] EXCEPT !.pc = "line", !.fd = cache] \in Calls
  BY <1>1 DEF Calls, Places
<1> QED
  BY <1>1, <1>2, <1>3, <1>4, Replaced

LEMMA AppendMoves ==
  ASSUME BaseInv, NEW c \in Callers, AppendLine(c)
  PROVE  IF MaxLines > 0
         THEN Moved(c, "limit", call[c].rec, call[c].lines, call[c].k, call[c].sent, None, call[c].for)
         ELSE Returned(c)
<1>1. call[c] \in Calls /\ call \in [Callers -> Calls]
  BY DEF BaseInv, Types
<1>2. CASE MaxLines > 0
  <2>2. call' = [call EXCEPT ![c] = [call[c] EXCEPT !.pc = "limit", !.fd = None]]
    BY <1>2 DEF AppendLine
  <2>3. Fields([call[c] EXCEPT !.pc = "limit", !.fd = None],
           "limit", call[c].rec, call[c].lines, call[c].k, call[c].sent, None, call[c].for)
    BY <1>1 DEF Calls, Fields
  <2>4. [call[c] EXCEPT !.pc = "limit", !.fd = None] \in Calls
    BY <1>1 DEF Calls, Places
  <2> QED
    BY <1>1, <1>2, <2>2, <2>3, <2>4, Replaced
<1>3. CASE ~(MaxLines > 0)
  BY <1>3, ReturnMoves DEF AppendLine, BaseInv
<1> QED
  BY <1>2, <1>3

LEMMA LimitMoves ==
  ASSUME BaseInv, NEW c \in Callers, Limit(c)
  PROVE  Moved(c, "open", 0, Newest(Cached), 1, 0, None, "append")
<1> DEFINE new == [Idle EXCEPT !.pc = "open", !.lines = Newest(Cached), !.for = "append"]
<1>1. Newest(Cached) \in Seq(Records) /\ call \in [Callers -> Calls]
  BY NewestIsSuffix DEF BaseInv, Types, Cached
<1>2. PICK l \in Seq(Records) : l = Newest(Cached)
  BY <1>1
<1>3. [Idle EXCEPT !.pc = "open", !.lines = l, !.for = "append"] \in Calls
  BY IdleFields DEF Calls, Places
<1>4. Fields([Idle EXCEPT !.pc = "open", !.lines = l, !.for = "append"], "open", 0, l, 1, 0, None, "append")
  BY IdleFields DEF Calls, Fields
<1>5. new \in Calls /\ Fields(new, "open", 0, Newest(Cached), 1, 0, None, "append")
  BY <1>2, <1>3, <1>4
<1> QED
  BY <1>1, <1>5, Replaced DEF Limit

(***************************************************************************)
(* The ranges, the state of each thread, the temporary file                *)
(***************************************************************************)
(* The threads that do not step keep their place. *)
LEMMA OthersKeep ==
  ASSUME BaseInv, NEW c \in Callers,
         \A d \in Callers \ {c} : call'[d] = call[d],
         \A d \in Callers \ {c} : call[d].pc = "line" => call[d].fd # tmp',
         Thread(c)'
  PROVE  ThreadInv'
<1>1. ASSUME NEW d \in Callers \ {c} PROVE Thread(d)'
  <2>1. call'[d] = call[d] /\ Thread(d)
    BY <1>1 DEF BaseInv, ThreadInv
  <2>2. call[d].pc = "line" => call[d].fd # tmp'
    BY <1>1
  <2> QED
    BY <2>1, <2>2 DEF Thread, HasRecord, Rewriting
<1> QED
  BY <1>1 DEF ThreadInv

(* A thread that appends never has the temporary file open. *)
LEMMA LineNotTmp ==
  ASSUME BaseInv, NEW d \in Callers, call[d].pc = "line"
  PROVE  call[d].fd # tmp /\ call[d].fd \in Inodes
  BY DEF BaseInv, ThreadInv, Thread, Types, Calls

LEMMA CallBase ==
  ASSUME BaseInv, NEW c \in Callers, Call(c)
  PROVE  BaseInv'
<1>1. Moved(c, "pending", calls + 1, <<>>, 1, 0, None, "flush") /\ calls + 1 \in Records
  BY CallMoves DEF BaseInv
<1>2. UNCHANGED <<content, cache, tmp, crashes, delivered, kept, dropped>> /\ calls' = calls + 1 /\ calls < MaxCalls
  BY DEF Call, files
<1>3. overlap' \in BOOLEAN
  BY DEF Call
<1>4. Types'
  BY <1>1, <1>2, <1>3, ConstantsTyped DEF BaseInv, Types, Moved
<1>5. Thread(c)'
  BY <1>1, ConstantsTyped DEF Moved, Fields, Thread, HasRecord, Rewriting
<1>6. ThreadInv'
  BY <1>1, <1>2, <1>5, LineNotTmp, OthersKeep DEF Moved
<1> QED
  BY <1>2, <1>4, <1>6 DEF BaseInv, FileInv

(* A step within a call that leaves the files alone. *)
LEMMA QuietBase ==
  ASSUME BaseInv, NEW c \in Callers, call' \in [Callers -> Calls],
         \A d \in Callers \ {c} : call'[d] = call[d], Thread(c)',
         UNCHANGED <<content, cache, tmp, calls, crashes, kept, overlap>>,
         delivered' \in [Records -> 0..2], dropped' \subseteq Records
  PROVE  BaseInv'
<1>1. Types'
  BY DEF BaseInv, Types
<1>2. ThreadInv'
  BY LineNotTmp, OthersKeep
<1> QED
  BY <1>1, <1>2 DEF BaseInv, FileInv

LEMMA TakeTyped ==
  ASSUME Types, NEW r, Take(r)
  PROVE  delivered' \in [Records -> 0..2]
<1>1. CASE r \in Records
  <2>1. PICK n \in 0..2 : n = delivered[r]
    BY <1>1 DEF Types
  <2>2. PICK m \in 0..2 : m = IF n < 2 THEN n + 1 ELSE 2
    OBVIOUS
  <2>3. delivered' = [delivered EXCEPT ![r] = m]
    BY <2>1, <2>2 DEF Take
  <2> QED
    BY <2>3 DEF Types
<1>2. CASE r \notin Records
  BY <1>2 DEF Types, Take
<1> QED
  BY <1>1, <1>2

LEMMA HasPendingBase ==
  ASSUME BaseInv, NEW c \in Callers, HasPending(c)
  PROVE  BaseInv'
<1>1. PICK p \in {"send", "read"} : MovedTo(c, p)
  BY GotoMoves DEF HasPending, BaseInv, Places
<1>2. Thread(c) /\ call[c].pc = "pending"
  BY DEF HasPending, At, BaseInv, ThreadInv
<1>3. Thread(c)'
  BY <1>1, <1>2 DEF MovedTo, Moved, Fields, Thread, HasRecord, Rewriting
<1> QED
  BY <1>1, <1>3, QuietBase DEF HasPending, MovedTo, Moved, files, history, BaseInv, Types

LEMMA ReadBase ==
  ASSUME BaseInv, NEW c \in Callers, ReadPending(c)
  PROVE  BaseInv'
<1>1. Moved(c, "replay", call[c].rec, Cached, call[c].k, call[c].sent, call[c].fd, call[c].for)
  BY ReadMoves DEF BaseInv
<1>2. Thread(c) /\ call[c].pc = "read" /\ Cached \in Seq(Records)
  BY DEF ReadPending, At, BaseInv, ThreadInv, Types, Cached
<1>3. Thread(c)'
  BY <1>1, <1>2 DEF Moved, Fields, Thread, HasRecord, Rewriting
<1> QED
  BY <1>1, <1>3, QuietBase DEF ReadPending, Moved, files, history, BaseInv, Types

LEMMA ReplayBase ==
  ASSUME BaseInv, NEW c \in Callers, Replay(c)
  PROVE  BaseInv'
<1>1. Thread(c) /\ call[c].pc = "replay" /\ call[c] \in Calls
  BY DEF Replay, At, BaseInv, ThreadInv, Types
<1>2. UNCHANGED <<content, cache, tmp, calls, crashes, kept, overlap>>
  BY DEF Replay, files
<1>3. CASE /\ Moved(c, "truncate", call[c].rec, <<>>, 1, 0, None, "flush")
           /\ UNCHANGED <<delivered, dropped>>
  <2>1. Thread(c)'
    BY <1>1, <1>3, ConstantsTyped DEF Moved, Fields, Thread, HasRecord, Rewriting
  <2> QED
    BY <1>2, <1>3, <2>1, QuietBase DEF Moved, BaseInv, Types
<1>4. CASE /\ Moved(c, "open", call[c].rec, Rest(c), 1, 0, None, "flush")
           /\ dropped' = dropped \cup
                (Lines(SubSeq(call[c].lines, call[c].k, Len(call[c].lines))) \ Lines(Rest(c)))
           /\ UNCHANGED delivered
  <2>1. Thread(c)'
    BY <1>1, <1>4, RestTyped, ConstantsTyped DEF Moved, Fields, Thread, HasRecord, Rewriting
  <2>2. PICK s \in Seq(Records) : s = SubSeq(call[c].lines, call[c].k, Len(call[c].lines))
    BY RestTyped
  <2>3. Lines(s) \subseteq Records
    BY DEF Lines
  <2>4. dropped' \subseteq Records
    BY <1>4, <2>2, <2>3 DEF BaseInv, Types
  <2> QED
    BY <1>2, <1>4, <2>1, <2>4, QuietBase DEF Moved, BaseInv, Types
<1>5. CASE /\ call[c].k <= Len(call[c].lines)
           /\ ~BatchFull(c)
           /\ Take(call[c].lines[call[c].k])
           /\ Moved(c, "replay", call[c].rec, call[c].lines, call[c].k + 1, call[c].sent + 1,
                    call[c].fd, call[c].for)
           /\ UNCHANGED dropped
  <2>1. Batch > 0 => call[c].sent + 1 <= Batch
    BY <1>1, <1>5, ConstantsTyped DEF BatchFull, Calls
  <2>2. Thread(c)'
    BY <1>1, <1>5, <2>1 DEF Moved, Fields, Thread, HasRecord, Rewriting, Calls
  <2> QED
    BY <1>2, <1>5, <2>2, TakeTyped, QuietBase DEF Moved, BaseInv, Types
<1> QED
  BY <1>3, <1>4, <1>5, ReplayMoves

LEMMA TruncateBase ==
  ASSUME BaseInv, NEW c \in Callers, Truncate(c)
  PROVE  BaseInv'
<1>1. MovedTo(c, "send")
  BY GotoMoves DEF Truncate, BaseInv, Places
<1>2. Thread(c) /\ call[c].pc = "truncate"
  BY DEF Truncate, At, BaseInv, ThreadInv
<1>3. Thread(c)'
  BY <1>1, <1>2 DEF MovedTo, Moved, Fields, Thread, HasRecord, Rewriting
<1>4. UNCHANGED <<cache, tmp, calls, crashes, delivered, kept, dropped, overlap>>
  BY DEF Truncate, history
<1>5. content' = [content EXCEPT ![cache] = <<>>] /\ <<>> \in Seq(Records)
  BY DEF Truncate
<1>6. Types'
  BY <1>1, <1>4, <1>5 DEF BaseInv, Types, MovedTo, Moved
<1>7. ThreadInv'
  BY <1>1, <1>3, <1>4, LineNotTmp, OthersKeep DEF MovedTo, Moved
<1> QED
  BY <1>4, <1>5, <1>6, <1>7 DEF BaseInv, FileInv, Types

LEMMA OpenBase ==
  ASSUME BaseInv, NEW c \in Callers, OpenTmp(c)
  PROVE  BaseInv'
<1>1. /\ Moved(c, "write", call[c].rec, call[c].lines, call[c].k, call[c].sent, NewTmp, call[c].for)
      /\ tmp' = NewTmp
      /\ content' = [content EXCEPT ![NewTmp] = <<>>]
      /\ UNCHANGED <<cache, calls, crashes, delivered, kept, dropped, overlap>>
  BY OpenMoves DEF OpenTmp, history
<1>2. Thread(c) /\ call[c].pc = "open"
  BY DEF OpenTmp, At, BaseInv, ThreadInv
<1>3. NewTmp \in Inodes /\ NewTmp # None /\ NewTmp # cache
  BY NewTmpTyped
<1>4. Thread(c)'
  BY <1>1, <1>2, <1>3 DEF Moved, Fields, Thread, HasRecord, Rewriting
<1>5. <<>> \in Seq(Records) /\ Len(<<>>) = 0
  OBVIOUS
<1>6. Types'
  BY <1>1, <1>3, <1>5 DEF BaseInv, Types, Moved
<1>7. \A d \in Callers \ {c} : call[d].pc = "line" => call[d].fd # tmp'
  <2>1. CASE tmp # None
    BY <1>1, <2>1, LineNotTmp DEF NewTmp
  <2>2. CASE tmp = None
    BY <1>1, <2>2, SomeUnused DEF Unused, BaseInv
  <2> QED
    BY <2>1, <2>2
<1>8. ThreadInv'
  BY <1>1, <1>4, <1>7, OthersKeep DEF Moved
<1>9. FileInv'
  BY <1>1, <1>3, <1>5, ConstantsTyped DEF FileInv, BaseInv, Types
<1> QED
  BY <1>6, <1>8, <1>9 DEF BaseInv

LEMMA WriteBase ==
  ASSUME BaseInv, NEW c \in Callers, WriteTmp(c)
  PROVE  BaseInv'
<1> DEFINE n == call[c].fd
<1> DEFINE new == call[c].lines
<1> DEFINE written == new \o SubSeq(content[n], Len(new) + 1, Len(content[n]))
<1>1. Moved(c, "rename", call[c].rec, <<>>, call[c].k, call[c].sent, None, call[c].for)
  BY WriteMoves
<1>2. Thread(c) /\ call[c].pc = "write" /\ call[c] \in Calls
  BY DEF WriteTmp, At, BaseInv, ThreadInv, Types
<1>3. n \in Inodes /\ new \in Seq(Records) /\ content[n] \in Seq(Records)
  BY <1>2 DEF Thread, Calls, BaseInv, Types
<1>4. UNCHANGED <<cache, tmp, calls, crashes, delivered, kept, dropped, overlap>>
  BY DEF WriteTmp, history
<1>5. content' = [content EXCEPT ![n] = written]
  BY DEF WriteTmp
<1>6. /\ written \in Seq(Records)
      /\ Len(written) = IF Len(content[n]) > Len(new) THEN Len(content[n]) ELSE Len(new)
  BY <1>3, Overwritten
<1>7. Thread(c)'
  BY <1>1, <1>2, ConstantsTyped DEF Moved, Fields, Thread, HasRecord, Rewriting
<1>8. Types'
  BY <1>1, <1>3, <1>4, <1>5, <1>6 DEF BaseInv, Types, Moved
<1>9. ThreadInv'
  BY <1>1, <1>4, <1>7, LineNotTmp, OthersKeep DEF Moved
<1>10. FileInv'
  <2>1. CASE tmp = n
    <3>1. MaxLines > 0 => Len(content[n]) <= MaxLines /\ Len(new) <= MaxLines
      BY <1>2, <1>3, <2>1, ConstantsTyped DEF Thread, BaseInv, FileInv
    <3>2. MaxLines > 0 => Len(written) <= MaxLines
      BY <1>6, <3>1
    <3>3. content'[n] = written
      BY <1>3, <1>5 DEF BaseInv, Types
    <3> HIDE DEF written
    <3> QED
      BY <1>4, <2>1, <3>2, <3>3 DEF BaseInv, FileInv
  <2>2. CASE tmp # n
    <3>1. tmp # None => content'[tmp] = content[tmp]
      BY <1>3, <1>5, <2>2 DEF BaseInv, Types
    <3> QED
      BY <1>4, <3>1 DEF BaseInv, FileInv
  <2> QED
    BY <2>1, <2>2
<1> QED
  BY <1>8, <1>9, <1>10 DEF BaseInv

LEMMA RenameMoves ==
  ASSUME BaseInv, NEW c \in Callers, Rename(c)
  PROVE  \/ call[c].for = "flush" /\ MovedTo(c, IF tmp # None THEN "send" ELSE "append")
         \/ call[c].for = "append" /\ Returned(c)
  BY GotoMoves, ReturnMoves DEF Rename, BaseInv, Places, Types, Calls

LEMMA ReturnedThread ==
  ASSUME NEW c \in Callers, Returned(c)
  PROVE  Thread(c)'
  BY ConstantsTyped DEF Returned, Moved, Fields, Thread, HasRecord, Rewriting

LEMMA RenameBase ==
  ASSUME BaseInv, NEW c \in Callers, Rename(c)
  PROVE  BaseInv'
<1>1. Thread(c) /\ call[c].pc = "rename"
  BY DEF Rename, At, BaseInv, ThreadInv
<1>2. /\ UNCHANGED <<content, calls, crashes, delivered, kept, dropped, overlap>>
      /\ tmp' = None /\ cache' = IF tmp # None THEN tmp ELSE cache
  BY DEF Rename, history
<1>3. Thread(c)' /\ call' \in [Callers -> Calls] /\ \A d \in Callers \ {c} : call'[d] = call[d]
  <2>1. CASE call[c].for = "flush" /\ MovedTo(c, IF tmp # None THEN "send" ELSE "append")
    BY <1>1, <2>1 DEF MovedTo, Moved, Fields, Thread, HasRecord, Rewriting
  <2>2. CASE Returned(c)
    BY <2>2, ReturnedThread DEF Returned, Moved
  <2> QED
    BY <2>1, <2>2, RenameMoves
<1>4. Types'
  BY <1>2, <1>3 DEF BaseInv, Types
<1>5. ThreadInv'
  BY <1>2, <1>3, LineNotTmp, OthersKeep, ConstantsTyped
<1> QED
  BY <1>2, <1>4, <1>5, ConstantsTyped DEF BaseInv, FileInv, Types

LEMMA SendBase ==
  ASSUME BaseInv, NEW c \in Callers, Send(c)
  PROVE  BaseInv'
<1>1. Thread(c) /\ call[c].pc = "send"
  BY DEF Send, At, BaseInv, ThreadInv
<1>2. UNCHANGED <<content, cache, tmp, calls, crashes, kept, dropped, overlap>>
  BY DEF Send, files
<1>3. CASE Take(call[c].rec) /\ Return(c)
  <2>1. Returned(c) /\ delivered' \in [Records -> 0..2]
    BY <1>3, ReturnMoves, TakeTyped DEF BaseInv
  <2> QED
    BY <1>2, <2>1, ReturnedThread, QuietBase DEF Returned, Moved, BaseInv, Types
<1>4. CASE Goto(c, "append") /\ UNCHANGED delivered
  <2>1. MovedTo(c, "append")
    BY <1>4, GotoMoves DEF BaseInv, Places
  <2>2. Thread(c)'
    BY <1>1, <2>1 DEF MovedTo, Moved, Fields, Thread, HasRecord, Rewriting
  <2> QED
    BY <1>2, <1>4, <2>1, <2>2, QuietBase DEF MovedTo, Moved, BaseInv, Types
<1> QED
  BY <1>3, <1>4 DEF Send

LEMMA OpenAppendBase ==
  ASSUME BaseInv, NEW c \in Callers, OpenAppend(c)
  PROVE  BaseInv'
<1>1. Moved(c, "line", call[c].rec, call[c].lines, call[c].k, call[c].sent, cache, call[c].for)
  BY OpenAppendMoves
<1>2. Thread(c) /\ call[c].pc = "append" /\ cache # None /\ tmp # cache
  BY ConstantsTyped DEF OpenAppend, At, BaseInv, ThreadInv, Types, FileInv
<1>3. UNCHANGED <<content, cache, tmp, calls, crashes, delivered, kept, dropped, overlap>>
  BY DEF OpenAppend, files, history
<1>4. Thread(c)'
  BY <1>1, <1>2, <1>3 DEF Moved, Fields, Thread, HasRecord, Rewriting
<1> QED
  BY <1>1, <1>3, <1>4, QuietBase DEF Moved, BaseInv, Types

LEMMA AppendBase ==
  ASSUME BaseInv, NEW c \in Callers, AppendLine(c)
  PROVE  BaseInv'
<1>1. IF MaxLines > 0
      THEN Moved(c, "limit", call[c].rec, call[c].lines, call[c].k, call[c].sent, None, call[c].for)
      ELSE Returned(c)
  BY AppendMoves
<1>2. Thread(c) /\ call[c].pc = "line" /\ call[c].rec \in Records
  BY DEF AppendLine, At, BaseInv, ThreadInv, Thread, HasRecord
<1>3. call[c].fd \in Inodes /\ call[c].fd # tmp
  BY <1>2, LineNotTmp
<1>4. /\ UNCHANGED <<cache, tmp, calls, crashes, delivered, dropped, overlap>>
      /\ kept' = kept \cup {call[c].rec}
      /\ content' = [content EXCEPT ![call[c].fd] = Append(content[call[c].fd], call[c].rec)]
  BY DEF AppendLine
<1>5. Append(content[call[c].fd], call[c].rec) \in Seq(Records)
  BY <1>2, <1>3 DEF BaseInv, Types
<1>6. Thread(c)' /\ call' \in [Callers -> Calls] /\ \A d \in Callers \ {c} : call'[d] = call[d]
  <2>1. CASE MaxLines > 0
    BY <1>1, <1>2, <2>1 DEF Moved, Fields, Thread, HasRecord, Rewriting
  <2>2. CASE ~(MaxLines > 0)
    BY <1>1, <2>2, ReturnedThread DEF Returned, Moved
  <2> QED
    BY <2>1, <2>2
<1>7. Types'
  BY <1>2, <1>3, <1>4, <1>5, <1>6 DEF BaseInv, Types
<1>8. ThreadInv'
  BY <1>4, <1>6, LineNotTmp, OthersKeep
<1>9. tmp # None => content'[tmp] = content[tmp]
  BY <1>3, <1>4 DEF BaseInv, Types
<1> QED
  BY <1>4, <1>7, <1>8, <1>9 DEF BaseInv, FileInv

LEMMA LimitBase ==
  ASSUME BaseInv, NEW c \in Callers, Limit(c)
  PROVE  BaseInv'
<1>1. Moved(c, "open", 0, Newest(Cached), 1, 0, None, "append")
  BY LimitMoves
<1>2. /\ UNCHANGED <<content, cache, tmp, calls, crashes, delivered, kept, overlap>>
      /\ dropped' = dropped \cup (Lines(Cached) \ Lines(Newest(Cached)))
  BY DEF Limit, files
<1>3. Cached \in Seq(Records)
  BY DEF BaseInv, Types, Cached
<1>4. Newest(Cached) \in Seq(Records) /\ (MaxLines > 0 => Len(Newest(Cached)) <= MaxLines)
  BY <1>3, NewestIsSuffix
<1>5. Thread(c)'
  BY <1>1, <1>4, ConstantsTyped DEF Moved, Fields, Thread, HasRecord, Rewriting
<1>6. Lines(Cached) \subseteq Records
  BY <1>3 DEF Lines
<1>7. dropped' \subseteq Records
  BY <1>2, <1>6 DEF BaseInv, Types
<1> QED
  BY <1>1, <1>2, <1>5, <1>7, QuietBase DEF Moved, BaseInv, Types

LEMMA CrashBase ==
  ASSUME BaseInv, Crash
  PROVE  BaseInv'
<1>1. call' \in [Callers -> Calls] /\ \A c \in Callers : Fields(call'[c], "idle", 0, <<>>, 1, 0, None, "flush")
  BY IdleFields DEF Crash
<1>2. UNCHANGED <<content, cache, tmp, calls, delivered, kept, dropped, overlap>> /\ crashes' \in 0..MaxCrashes
  BY ConstantsTyped DEF Crash, files, history, BaseInv, Types
<1>3. ThreadInv'
  BY <1>1, ConstantsTyped DEF ThreadInv, Fields, Thread, HasRecord, Rewriting
<1> QED
  BY <1>1, <1>2, <1>3 DEF BaseInv, Types, FileInv

LEMMA InitBase ==
  ASSUME UInit
  PROVE  BaseInv
<1>1. \A c \in Callers : Fields(call[c], "idle", 0, <<>>, 1, 0, None, "flush")
  BY IdleFields DEF UInit
<1>2. ThreadInv
  BY <1>1, ConstantsTyped DEF ThreadInv, Fields, Thread, HasRecord, Rewriting
<1>3. Types
  <2>1. <<>> \in Seq(Records)
    OBVIOUS
  <2>2. content \in [Inodes -> Seq(Records)]
    BY <2>1 DEF UInit
  <2>3. call \in [Callers -> Calls]
    BY IdleFields DEF UInit
  <2> QED
    BY <2>2, <2>3, ConstantsTyped DEF UInit, Types
<1> QED
  BY <1>2, <1>3, ConstantsTyped DEF BaseInv, UInit, FileInv

LEMMA StepBase ==
  ASSUME BaseInv, [UNext]_uvars
  PROVE  BaseInv'
<1>1. CASE UNCHANGED uvars
  <2>1. Types' /\ FileInv'
    BY <1>1 DEF uvars, BaseInv, Types, FileInv
  <2>2. ThreadInv'
    BY <1>1 DEF uvars, BaseInv, ThreadInv, Thread, HasRecord, Rewriting
  <2> QED
    BY <2>1, <2>2 DEF BaseInv
<1>2. ASSUME NEW c \in Callers, Call(c) \/ Step(c)
      PROVE  BaseInv'
  BY <1>2, CallBase, HasPendingBase, ReadBase, ReplayBase, TruncateBase, OpenBase, WriteBase,
     RenameBase, SendBase, OpenAppendBase, AppendBase, LimitBase DEF Step
<1> QED
  BY <1>1, <1>2, CrashBase DEF UNext

(* Every step of a thread and every crash keeps the ranges, the places and *)
(* the temporary file as BaseInv says.                                     *)
THEOREM BaseInvariant == USpec => []BaseInv
<1> QED
  BY InitBase, StepBase, PTL DEF USpec

(* Every variable stays in its range: the replay loop never runs past the  *)
(* lines it read and hands on a batch at most.                             *)
THEOREM UTypes == USpec => []UTypeOK
<1>1. ASSUME BaseInv PROVE UTypeOK
  <2>1. ASSUME NEW c \in Callers
        PROVE  /\ call[c].pc \in Places /\ call[c].rec \in Records \cup {0}
               /\ call[c].lines \in Seq(Records) /\ call[c].k \in 1..(Len(call[c].lines) + 1)
               /\ Batch > 0 => call[c].sent <= Batch
               /\ call[c].fd \in Inodes \cup {None}
    BY <1>1, <2>1 DEF BaseInv, Types, ThreadInv, Thread, Calls
  <2> QED
    BY <1>1, <2>1 DEF BaseInv, Types, UTypeOK
<1> QED
  BY <1>1, BaseInvariant, PTL

(***************************************************************************)
(* The length of the cache                                                 *)
(***************************************************************************)

(* A thread between its append and the end of the rewrite that follows it, *)
(* unless another thread took the temporary file away.                     *)
AtLimit(c) ==
  \/ call[c].pc = "limit"
  \/ /\ call[c].for = "append"
     /\ \/ call[c].pc = "open"
        \/ call[c].pc = "write" /\ call[c].fd = tmp
        \/ call[c].pc = "rename" /\ tmp # None

Over == {c \in Callers : AtLimit(c)}

(* Each line above the limit belongs to a thread that has still to rewrite. *)
Limited == Len(Cached) <= MaxLines + Cardinality(Over)

(* After a crash: no thread has come past the point where its call resets  *)
(* the cache file.                                                         *)
Early(c) ==
  /\ call[c].for = "flush"
  /\ \/ call[c].pc \in {"idle", "pending", "read", "replay", "truncate", "open"}
     \/ call[c].pc = "write" /\ call[c].fd = tmp
     \/ call[c].pc = "rename" /\ tmp # None

Restarted ==
  /\ Len(Cached) <= MaxLines + Cardinality(Callers)
  /\ \A c \in Callers : Early(c)

CountInv == MaxLines > 0 => Limited \/ Restarted

LEMMA OverFinite ==
  /\ IsFiniteSet(Over) /\ Cardinality(Over) \in Nat
  /\ Cardinality(Over) <= Cardinality(Callers)
<1>1. Over \subseteq Callers
  BY DEF Over
<1> QED
  BY <1>1, CachedUploaderAssumption, FS_Subset, FS_CardinalityType

LEMMA OverFiniteNext ==
  /\ IsFiniteSet(Over') /\ Cardinality(Over') \in Nat
  /\ Cardinality(Over') <= Cardinality(Callers)
<1>1. Over' \subseteq Callers
  BY DEF Over
<1> QED
  BY <1>1, CachedUploaderAssumption, FS_Subset, FS_CardinalityType

LEMMA CachedLength ==
  ASSUME BaseInv
  PROVE  Cached \in Seq(Records) /\ Len(Cached) \in Nat
  BY DEF BaseInv, Types, Cached

(* In both cases of CountInv the cache is within the bound. *)
LEMMA WithinCallers ==
  ASSUME BaseInv, MaxLines > 0, CountInv
  PROVE  Len(Cached) <= MaxLines + Cardinality(Callers)
  BY OverFinite, CachedLength, ConstantsTyped DEF CountInv, Limited, Restarted

(* No thread leaves Over and the cache does not outgrow it. *)
LEMMA StaysLimited ==
  ASSUME BaseInv, BaseInv', Over \subseteq Over', Len(Cached') <= MaxLines + Cardinality(Over)
  PROVE  Limited'
<1>1. Cardinality(Over) <= Cardinality(Over')
  BY OverFiniteNext, FS_Subset
<1>2. Cached' \in Seq(Records) /\ Len(Cached') \in Nat
  BY DEF BaseInv, Types, Cached
<1> QED
  BY <1>1, <1>2, OverFinite, OverFiniteNext, ConstantsTyped DEF Limited

LEMMA ShortIsLimited ==
  ASSUME BaseInv, Len(Cached) <= MaxLines
  PROVE  Limited
  BY CachedLength, OverFinite, ConstantsTyped DEF Limited

(* A step of a flush that leaves the files alone. *)
LEMMA QuietCount ==
  ASSUME BaseInv, BaseInv', CountInv, NEW c \in Callers,
         \A d \in Callers \ {c} : call'[d] = call[d],
         UNCHANGED <<content, cache, tmp>>,
         ~AtLimit(c), Early(c) => Early(c)'
  PROVE  CountInv'
<1>1. Over \subseteq Over'
  BY DEF Over, AtLimit
<1>2. Cached' = Cached
  BY DEF Cached
<1>3. CASE MaxLines > 0 /\ Limited
  BY <1>1, <1>2, <1>3, StaysLimited DEF Limited, CountInv
<1>4. CASE MaxLines > 0 /\ Restarted
  <2>1. \A d \in Callers : Early(d)'
    BY <1>4 DEF Restarted, Early
  <2> QED
    BY <1>2, <1>4, <2>1 DEF Restarted, CountInv
<1> QED
  BY <1>3, <1>4 DEF CountInv

LEMMA CallCount ==
  ASSUME BaseInv, BaseInv', CountInv, NEW c \in Callers, Call(c)
  PROVE  CountInv'
<1>1. Moved(c, "pending", calls + 1, <<>>, 1, 0, None, "flush")
  BY CallMoves DEF BaseInv
<1>2. call[c].pc = "idle" /\ call[c].for = "flush"
  BY DEF Call, At, BaseInv, ThreadInv, Thread, Rewriting
<1> QED
  BY <1>1, <1>2, QuietCount DEF Call, Moved, Fields, files, AtLimit, Early

LEMMA HasPendingCount ==
  ASSUME BaseInv, BaseInv', CountInv, NEW c \in Callers, HasPending(c)
  PROVE  CountInv'
<1>1. UNCHANGED <<content, cache, tmp>>
  BY DEF HasPending, files
<1>2. call[c].pc = "pending" /\ call[c].for = "flush"
  BY DEF HasPending, At, BaseInv, ThreadInv, Thread, Rewriting
<1>3. CASE Cached = <<>>
  <2>1. Cached' = <<>>
    BY <1>1, <1>3 DEF Cached
  <2>2. Len(Cached') <= MaxLines
    BY <2>1, ConstantsTyped
  <2>3. Limited'
    <3>1. Cached' \in Seq(Records) /\ Len(Cached') \in Nat
      BY DEF BaseInv, Types, Cached
    <3> QED
      BY <2>2, <3>1, OverFiniteNext, ConstantsTyped DEF Limited
  <2> QED
    BY <2>3 DEF CountInv
<1>4. CASE Cached # <<>>
  <2>1. MovedTo(c, "read")
    BY <1>4, GotoMoves DEF HasPending, BaseInv, Places
  <2> QED
    BY <1>1, <1>2, <2>1, QuietCount DEF MovedTo, Moved, Fields, AtLimit, Early
<1> QED
  BY <1>3, <1>4

LEMMA ReadCount ==
  ASSUME BaseInv, BaseInv', CountInv, NEW c \in Callers, ReadPending(c)
  PROVE  CountInv'
<1>1. Moved(c, "replay", call[c].rec, Cached, call[c].k, call[c].sent, call[c].fd, call[c].for)
  BY ReadMoves DEF BaseInv
<1>2. call[c].pc = "read" /\ call[c].for = "flush"
  BY DEF ReadPending, At, BaseInv, ThreadInv, Thread, Rewriting
<1> QED
  BY <1>1, <1>2, QuietCount DEF ReadPending, Moved, Fields, files, AtLimit, Early

LEMMA ReplayCount ==
  ASSUME BaseInv, BaseInv', CountInv, NEW c \in Callers, Replay(c)
  PROVE  CountInv'
<1>1. /\ \A d \in Callers \ {c} : call'[d] = call[d]
      /\ call'[c].pc \in {"truncate", "open", "replay"} /\ call'[c].for = "flush"
  <2>1. call[c].for = "flush"
    BY DEF Replay, At, BaseInv, ThreadInv, Thread, Rewriting
  <2> QED
    BY <2>1, ReplayMoves DEF Moved, Fields
<1>2. call[c].pc = "replay" /\ call[c].for = "flush"
  BY DEF Replay, At, BaseInv, ThreadInv, Thread, Rewriting
<1> QED
  BY <1>1, <1>2, QuietCount DEF Replay, files, AtLimit, Early

LEMMA TruncateCount ==
  ASSUME BaseInv, BaseInv', CountInv, NEW c \in Callers, Truncate(c)
  PROVE  CountInv'
<1>1. Cached' = <<>>
  BY DEF Truncate, Cached, BaseInv, Types
<1>2. Limited'
  BY <1>1, OverFiniteNext, ConstantsTyped DEF Limited
<1> QED
  BY <1>2 DEF CountInv

LEMMA OpenCount ==
  ASSUME BaseInv, BaseInv', CountInv, NEW c \in Callers, OpenTmp(c)
  PROVE  CountInv'
<1>1. /\ Moved(c, "write", call[c].rec, call[c].lines, call[c].k, call[c].sent, NewTmp, call[c].for)
      /\ tmp' = NewTmp /\ cache' = cache
      /\ content' = [content EXCEPT ![NewTmp] = <<>>]
      /\ call[c].pc = "open"
  BY OpenMoves DEF OpenTmp, At
<1>2. NewTmp \in Inodes /\ NewTmp # None /\ NewTmp # cache
  BY NewTmpTyped
<1>3. Cached' = Cached
  BY <1>1, <1>2 DEF Cached, BaseInv, Types
<1>4. \A d \in Callers : call[d].pc = "write" /\ call[d].fd = tmp => tmp' = tmp
  BY <1>1 DEF NewTmp, BaseInv, ThreadInv, Thread
<1>5. Over \subseteq Over'
  <2>1. ASSUME NEW d \in Over PROVE AtLimit(d)'
    <3>1. CASE d = c
      BY <1>1, <2>1, <3>1 DEF Over, AtLimit, Moved, Fields
    <3>2. CASE d # c
      BY <1>1, <1>2, <1>4, <2>1, <3>2 DEF Over, AtLimit, Moved
    <3> QED
      BY <3>1, <3>2
  <2> QED
    BY <2>1 DEF Over
<1>6. CASE MaxLines > 0 /\ Limited
  BY <1>3, <1>5, <1>6, StaysLimited DEF Limited, CountInv
<1>7. CASE MaxLines > 0 /\ Restarted
  <2>1. ASSUME NEW d \in Callers PROVE Early(d)'
    <3>1. CASE d = c
      BY <1>1, <1>7, <3>1 DEF Restarted, Early, Moved, Fields
    <3>2. CASE d # c
      BY <1>1, <1>2, <1>4, <1>7, <3>2 DEF Restarted, Early, Moved
    <3> QED
      BY <3>1, <3>2
  <2> QED
    BY <1>3, <1>7, <2>1 DEF Restarted, CountInv
<1> QED
  BY <1>6, <1>7 DEF CountInv

LEMMA WriteCount ==
  ASSUME BaseInv, BaseInv', CountInv, NEW c \in Callers, WriteTmp(c)
  PROVE  CountInv'
<1> DEFINE n == call[c].fd
<1> DEFINE new == call[c].lines
<1> DEFINE written == new \o SubSeq(content[n], Len(new) + 1, Len(content[n]))
<1>1. Moved(c, "rename", call[c].rec, <<>>, call[c].k, call[c].sent, None, call[c].for)
  BY WriteMoves
<1>2. Thread(c) /\ call[c].pc = "write" /\ call[c] \in Calls
  BY DEF WriteTmp, At, BaseInv, ThreadInv, Types
<1>3. n \in Inodes /\ n # None /\ new \in Seq(Records) /\ content[n] \in Seq(Records)
  BY <1>2 DEF Thread, Calls, BaseInv, Types
<1>4. UNCHANGED <<cache, tmp>> /\ content' = [content EXCEPT ![n] = written]
  BY DEF WriteTmp
<1>5. /\ written \in Seq(Records)
      /\ Len(written) = IF Len(content[n]) > Len(new) THEN Len(content[n]) ELSE Len(new)
  BY <1>3, Overwritten
<1>6. Over \subseteq Over'
  <2>1. ASSUME NEW d \in Over PROVE AtLimit(d)'
    <3>1. CASE d = c
      BY <1>1, <1>2, <1>3, <1>4, <2>1, <3>1 DEF Over, AtLimit, Moved, Fields
    <3>2. CASE d # c
      BY <1>1, <1>4, <2>1, <3>2 DEF Over, AtLimit, Moved
    <3> QED
      BY <3>1, <3>2
  <2> QED
    BY <2>1 DEF Over
<1>7. CASE MaxLines > 0 /\ Limited
  <2>1. Len(Cached') <= MaxLines + Cardinality(Over)
    <3>1. CASE n = cache
      <4>1. Cached' = written
        BY <1>3, <1>4, <3>1 DEF Cached, BaseInv, Types
      <4>2. Len(content[n]) <= MaxLines + Cardinality(Over)
        BY <1>7, <3>1 DEF Limited, Cached
      <4>3. Len(new) <= MaxLines
        BY <1>2, <1>7 DEF Thread
      <4>4. Len(written) <= MaxLines + Cardinality(Over)
        <5> HIDE DEF new, n, written
        <5> QED
          BY <1>3, <1>5, <4>2, <4>3, OverFinite, ConstantsTyped
      <4> QED
        BY <4>1, <4>4
    <3>2. CASE n # cache
      <4>1. Cached' = Cached
        BY <1>4, <3>2 DEF Cached, BaseInv, Types
      <4> QED
        BY <1>7, <4>1 DEF Limited
    <3> QED
      BY <3>1, <3>2
  <2> QED
    BY <1>6, <2>1, StaysLimited DEF CountInv
<1>8. CASE MaxLines > 0 /\ Restarted
  <2>1. n = tmp
    BY <1>2, <1>8 DEF Restarted, Early
  <2>2. Cached' = Cached
    BY <1>4, <2>1 DEF Cached, BaseInv, Types, FileInv
  <2>3. ASSUME NEW d \in Callers PROVE Early(d)'
    <3>1. CASE d = c
      BY <1>1, <1>3, <1>4, <1>8, <2>1, <3>1 DEF Restarted, Early, Moved, Fields
    <3>2. CASE d # c
      BY <1>1, <1>4, <1>8, <3>2 DEF Restarted, Early, Moved
    <3> QED
      BY <3>1, <3>2
  <2> QED
    BY <1>8, <2>2, <2>3 DEF Restarted, CountInv
<1> QED
  BY <1>7, <1>8 DEF CountInv

LEMMA RenameCount ==
  ASSUME BaseInv, BaseInv', CountInv, NEW c \in Callers, Rename(c)
  PROVE  CountInv'
<1>1. call[c].pc = "rename" /\ UNCHANGED content /\ tmp' = None
  BY DEF Rename, At
<1>2. CASE tmp # None
  <2>1. Cached' = content[tmp]
    BY <1>1, <1>2 DEF Rename, Cached
  <2>2. MaxLines > 0 => Len(Cached') <= MaxLines
    BY <1>2, <2>1 DEF BaseInv, FileInv
  <2>3. Cached' \in Seq(Records) /\ Len(Cached') \in Nat
    BY DEF BaseInv, Types, Cached
  <2>4. MaxLines > 0 => Limited'
    BY <2>2, <2>3, OverFiniteNext, ConstantsTyped DEF Limited
  <2> QED
    BY <2>4 DEF CountInv
<1>3. CASE tmp = None
  <2>1. UNCHANGED <<content, cache, tmp>>
    BY <1>1, <1>3 DEF Rename
  <2>2. \A d \in Callers \ {c} : call'[d] = call[d]
    BY RenameMoves DEF MovedTo, Returned, Moved
  <2> QED
    BY <1>1, <1>3, <2>1, <2>2, QuietCount DEF AtLimit, Early
<1> QED
  BY <1>2, <1>3

LEMMA SendCount ==
  ASSUME BaseInv, BaseInv', CountInv, NEW c \in Callers, Send(c)
  PROVE  CountInv'
<1>1. call[c].pc = "send" /\ UNCHANGED <<content, cache, tmp>>
  BY DEF Send, At, files
<1>2. \A d \in Callers \ {c} : call'[d] = call[d]
  BY GotoMoves, ReturnMoves DEF Send, BaseInv, Places, MovedTo, Returned, Moved
<1>3. ~AtLimit(c) /\ ~Early(c)
  BY <1>1 DEF AtLimit, Early, BaseInv
<1> QED
  BY <1>1, <1>2, <1>3, QuietCount

LEMMA OpenAppendCount ==
  ASSUME BaseInv, BaseInv', CountInv, NEW c \in Callers, OpenAppend(c)
  PROVE  CountInv'
<1>1. call[c].pc = "append" /\ UNCHANGED <<content, cache, tmp>>
  BY DEF OpenAppend, At, files
<1>2. \A d \in Callers \ {c} : call'[d] = call[d]
  BY OpenAppendMoves DEF Moved
<1>3. ~AtLimit(c) /\ ~Early(c)
  BY <1>1 DEF AtLimit, Early
<1> QED
  BY <1>1, <1>2, <1>3, QuietCount

LEMMA AppendCount ==
  ASSUME BaseInv, BaseInv', CountInv, NEW c \in Callers, AppendLine(c)
  PROVE  CountInv'
<1>0. SUFFICES ASSUME MaxLines > 0
               PROVE  Limited'
  BY DEF CountInv
<1>1. Moved(c, "limit", call[c].rec, call[c].lines, call[c].k, call[c].sent, None, call[c].for)
  BY <1>0, AppendMoves
<1>2. Thread(c) /\ call[c].pc = "line" /\ call[c].rec \in Records /\ call[c].fd \in Inodes
  BY LineNotTmp DEF AppendLine, At, BaseInv, ThreadInv, Thread, HasRecord
<1>3. /\ UNCHANGED <<cache, tmp>>
      /\ content' = [content EXCEPT ![call[c].fd] = Append(content[call[c].fd], call[c].rec)]
  BY DEF AppendLine
<1>4. ~AtLimit(c) /\ ~Early(c)
  BY <1>2 DEF AtLimit, Early
<1>5. Limited
  BY <1>0, <1>4 DEF CountInv, Restarted
<1>6. Over' = Over \cup {c} /\ c \notin Over
  BY <1>1, <1>3, <1>4 DEF Over, AtLimit, Moved, Fields
<1>7. Cardinality(Over') = Cardinality(Over) + 1
  BY <1>6, OverFinite, FS_AddElement
<1>8. Len(Cached') <= Len(Cached) + 1
  <2>1. CASE call[c].fd = cache
    <3>1. Cached' = Append(Cached, call[c].rec)
      BY <1>2, <1>3, <2>1 DEF Cached, BaseInv, Types
    <3> QED
      BY <1>2, <3>1, CachedLength
  <2>2. CASE call[c].fd # cache
    <3>1. Cached' = Cached
      BY <1>2, <1>3, <2>2 DEF Cached, BaseInv, Types
    <3> QED
      BY <3>1, CachedLength
  <2> QED
    BY <2>1, <2>2
<1>9. Len(Cached') \in Nat
  BY DEF BaseInv, Types, Cached
<1> QED
  BY <1>5, <1>7, <1>8, <1>9, CachedLength, OverFinite, ConstantsTyped DEF Limited

LEMMA LimitCount ==
  ASSUME BaseInv, BaseInv', CountInv, NEW c \in Callers, Limit(c)
  PROVE  CountInv'
<1>1. Moved(c, "open", 0, Newest(Cached), 1, 0, None, "append")
  BY LimitMoves
<1>2. call[c].pc = "limit" /\ UNCHANGED <<content, cache, tmp>>
  BY DEF Limit, At, files
<1>3. Over \subseteq Over' /\ ~Early(c)
  BY <1>1, <1>2 DEF Over, AtLimit, Early, Moved, Fields
<1>4. Cached' = Cached
  BY <1>2 DEF Cached
<1> QED
  BY <1>3, <1>4, StaysLimited DEF CountInv, Limited, Restarted

LEMMA CrashCount ==
  ASSUME BaseInv, BaseInv', CountInv, Crash
  PROVE  CountInv'
<1>1. \A c \in Callers : Early(c)'
  BY IdleFields DEF Crash, Fields, Early
<1>2. Cached' = Cached
  BY DEF Crash, files, Cached
<1> QED
  BY <1>1, <1>2, WithinCallers DEF CountInv, Restarted

LEMMA StepCount ==
  ASSUME BaseInv, BaseInv', CountInv, [UNext]_uvars
  PROVE  CountInv'
<1>1. CASE UNCHANGED uvars
  BY <1>1 DEF uvars, CountInv, Limited, Over, AtLimit, Restarted, Early, Cached
<1>2. ASSUME NEW c \in Callers, Call(c) \/ Step(c)
      PROVE  CountInv'
  BY <1>2, CallCount, HasPendingCount, ReadCount, ReplayCount, TruncateCount, OpenCount, WriteCount,
     RenameCount, SendCount, OpenAppendCount, AppendCount, LimitCount DEF Step
<1> QED
  BY <1>1, <1>2, CrashCount DEF UNext

(* disk_cache_max_lines: however many threads append, replay and rewrite   *)
(* at once, the cache outgrows its limit by at most a line per thread.     *)
THEOREM CacheIsBounded == USpec => []CacheBounded
<1>1. ASSUME UInit, BaseInv PROVE CountInv
  <2>1. Len(Cached) <= MaxLines
    BY <1>1, ConstantsTyped DEF UInit, Cached
  <2> QED
    BY <1>1, <2>1, ShortIsLimited DEF CountInv
<1>2. USpec => [](BaseInv /\ CountInv)
  BY InitBase, StepBase, StepCount, <1>1, PTL DEF USpec
<1>3. ASSUME BaseInv, CountInv PROVE CacheBounded
  BY <1>3, WithinCallers DEF CacheBounded
<1> QED
  BY <1>2, <1>3, PTL

(***************************************************************************)
(* Calls that do not overlap                                               *)
(***************************************************************************)
Increasing(s) == \A j, k \in DOMAIN s : j < k => s[j] < s[k]

(* The lines s are what is to be kept: in order, written, younger than     *)
(* what was dropped, and nothing written is missing.                       *)
Queue(s, written, gone, taken) ==
  /\ Increasing(s)
  /\ Lines(s) \subseteq written
  /\ \A r \in gone \ Lines(s), x \in Lines(s) : r < x
  /\ \A r \in written : taken[r] > 0 \/ r \in Lines(s) \/ r \in gone

(* What a rewrite of thread c is to put in place of the cache. *)
Out(c) == IF call[c].pc = "rename" THEN content[tmp] ELSE call[c].lines

Alone(c) ==
  /\ HasRecord(c) => call[c].rec = calls /\ calls \notin kept
  /\ call[c].pc = "replay" =>
        /\ call[c].lines = Cached
        /\ \A j \in 1..(call[c].k - 1) : delivered[call[c].lines[j]] > 0
  /\ call[c].pc = "truncate" => \A r \in Lines(Cached) : delivered[r] > 0
  /\ call[c].pc = "write" => call[c].fd = tmp /\ content[tmp] = <<>>
  /\ call[c].pc = "rename" => tmp # None
  /\ call[c].pc = "line" => call[c].fd = cache
  /\ Rewriting(c) => Queue(Out(c), kept, dropped, delivered)

OneAtATime == \A c, d \in Callers : call[c].pc # "idle" /\ call[d].pc # "idle" => c = d

KeptInv ==
  /\ dropped \subseteq kept /\ kept \subseteq 1..calls
  /\ Queue(Cached, kept, dropped, delivered)

AloneInv == ~overlap => OneAtATime /\ KeptInv /\ \A c \in Callers : Alone(c)

(* The lines of a sequence of records. *)
LEMMA LinesOf ==
  ASSUME NEW s \in Seq(Records)
  PROVE  /\ DOMAIN s = 1..Len(s)
         /\ \A i \in 1..Len(s) : s[i] \in Lines(s)
         /\ \A x \in Lines(s) : \E i \in 1..Len(s) : x = s[i]
         /\ Lines(s) \subseteq Records
  BY DEF Lines

(* A record younger than all that were written goes to the end. *)
LEMMA QueueAppend ==
  ASSUME NEW s \in Seq(Records), NEW r \in Records, NEW written, NEW gone, NEW taken,
         Queue(s, written, gone, taken), gone \subseteq written, \A x \in written : x < r
  PROVE  Queue(Append(s, r), written \cup {r}, gone, taken)
<1> DEFINE t == Append(s, r)
<1>1. /\ t \in Seq(Records) /\ Len(t) = Len(s) + 1
      /\ \A i \in 1..Len(s) : t[i] = s[i]
      /\ t[Len(s) + 1] = r
  OBVIOUS
<1> HIDE DEF t
<1>2. Lines(t) = Lines(s) \cup {r}
  <2>1. ASSUME NEW x \in Lines(t) PROVE x \in Lines(s) \cup {r}
    <3>1. PICK i \in 1..Len(t) : x = t[i]
      BY <1>1, LinesOf
    <3>2. CASE i = Len(s) + 1
      BY <1>1, <3>1, <3>2
    <3>3. CASE i # Len(s) + 1
      BY <1>1, <3>1, <3>3, LinesOf
    <3> QED
      BY <3>2, <3>3
  <2>2. ASSUME NEW x \in Lines(s) \cup {r} PROVE x \in Lines(t)
    <3>1. CASE x = r
      BY <1>1, <3>1, LinesOf
    <3>2. CASE x \in Lines(s)
      <4>1. PICK i \in 1..Len(s) : x = s[i]
        BY <3>2, LinesOf
      <4>2. i \in 1..Len(t) /\ x = t[i]
        BY <1>1, <4>1
      <4> QED
        BY <1>1, <4>2, LinesOf
    <3> QED
      BY <2>2, <3>1, <3>2
  <2> QED
    BY <2>1, <2>2
<1>3. Increasing(t)
  <2> SUFFICES ASSUME NEW j \in 1..Len(t), NEW k \in 1..Len(t), j < k
               PROVE  t[j] < t[k]
    BY <1>1, LinesOf DEF Increasing
  <2>1. j \in 1..Len(s) /\ t[j] = s[j] /\ s[j] \in written
    BY <1>1, LinesOf DEF Queue
  <2>2. CASE k = Len(s) + 1
    BY <1>1, <2>1, <2>2
  <2>3. CASE k # Len(s) + 1
    <3>1. k \in 1..Len(s) /\ t[k] = s[k]
      BY <1>1, <2>3
    <3> QED
      BY <2>1, <3>1, LinesOf DEF Queue, Increasing
  <2> QED
    BY <2>2, <2>3
<1>4. \A d \in gone \ Lines(t), x \in Lines(t) : d < x
  BY <1>2 DEF Queue
<1> QED
  BY <1>2, <1>3, <1>4 DEF Queue, t

(* Lines go from the front once they were taken or are dropped. *)
LEMMA QueueSuffix ==
  ASSUME NEW s \in Seq(Records), NEW m \in 1..(Len(s) + 1), NEW written, NEW gone, NEW taken, NEW more,
         Queue(s, written, gone, taken),
         more \subseteq Lines(s) \ Lines(SubSeq(s, m, Len(s))),
         \A i \in 1..(m - 1) : taken[s[i]] > 0 \/ s[i] \in more
  PROVE  Queue(SubSeq(s, m, Len(s)), written, gone \cup more, taken)
<1> DEFINE t == SubSeq(s, m, Len(s))
<1>1. /\ t \in Seq(Records) /\ Len(t) = Len(s) - m + 1
      /\ \A i \in 1..(Len(s) - m + 1) : t[i] = s[i + m - 1]
  BY Suffix
<1>2. more \subseteq Lines(s) \ Lines(t)
  OBVIOUS
<1> HIDE DEF t
<1>3. \A i \in m..Len(s) : s[i] \in Lines(t)
  <2> SUFFICES ASSUME NEW i \in m..Len(s) PROVE s[i] \in Lines(t)
    OBVIOUS
  <2>1. PICK j : j = i - m + 1
    OBVIOUS
  <2>2. j \in 1..Len(t) /\ t[j] = s[i]
    BY <1>1, <2>1
  <2> QED
    BY <1>1, <2>2, LinesOf
<1>4. \A x \in Lines(t) : \E i \in m..Len(s) : x = s[i]
  <2> SUFFICES ASSUME NEW x \in Lines(t) PROVE \E i \in m..Len(s) : x = s[i]
    OBVIOUS
  <2>1. PICK j \in 1..Len(t) : x = t[j]
    BY <1>1, LinesOf
  <2>2. PICK i : i = j + m - 1
    OBVIOUS
  <2>3. i \in m..Len(s) /\ x = s[i]
    BY <1>1, <2>1, <2>2
  <2> QED
    BY <2>3
<1>5. Lines(t) \subseteq Lines(s)
  <2> SUFFICES ASSUME NEW x \in Lines(t) PROVE x \in Lines(s)
    OBVIOUS
  <2>1. PICK i \in m..Len(s) : x = s[i]
    BY <1>4
  <2> QED
    BY <2>1, LinesOf
<1>6. Increasing(t)
  <2> SUFFICES ASSUME NEW j \in 1..Len(t), NEW k \in 1..Len(t), j < k
               PROVE  t[j] < t[k]
    BY <1>1, LinesOf DEF Increasing
  <2>1. PICK jj, kk : jj = j + m - 1 /\ kk = k + m - 1
    OBVIOUS
  <2>2. jj \in 1..Len(s) /\ kk \in 1..Len(s) /\ jj < kk /\ t[j] = s[jj] /\ t[k] = s[kk]
    BY <1>1, <2>1
  <2> QED
    BY <2>2, LinesOf DEF Queue, Increasing
<1>7. ASSUME NEW r \in Lines(s), r \notin Lines(t)
      PROVE  \E i \in 1..(m - 1) : r = s[i]
  <2>1. PICK i \in 1..Len(s) : r = s[i]
    BY <1>7, LinesOf
  <2>2. ~(i \in m..Len(s))
    BY <1>3, <1>7, <2>1
  <2> QED
    BY <2>1, <2>2
<1>8. ASSUME NEW r \in (gone \cup more) \ Lines(t), NEW x \in Lines(t)
      PROVE  r < x
  <2>1. CASE r \in Lines(s)
    <3>1. PICK i \in 1..(m - 1) : r = s[i]
      BY <1>7, <1>8, <2>1
    <3>2. PICK j \in m..Len(s) : x = s[j]
      BY <1>4, <1>8
    <3>3. i \in 1..Len(s) /\ j \in 1..Len(s) /\ i < j
      OBVIOUS
    <3> QED
      BY <3>1, <3>2, <3>3, LinesOf DEF Queue, Increasing
  <2>2. CASE r \notin Lines(s)
    BY <1>2, <1>5, <1>8, <2>2 DEF Queue
  <2> QED
    BY <2>1, <2>2
<1>9. ASSUME NEW r \in written
      PROVE  taken[r] > 0 \/ r \in Lines(t) \/ r \in gone \cup more
  <2>1. CASE r \in Lines(s) /\ r \notin Lines(t)
    BY <1>7, <2>1
  <2>2. CASE ~(r \in Lines(s) /\ r \notin Lines(t))
    BY <1>9, <2>2 DEF Queue
  <2> QED
    BY <2>1, <2>2
<1>10. Lines(t) \subseteq written
  BY <1>5 DEF Queue
<1> QED
  BY <1>6, <1>8, <1>9, <1>10 DEF Queue, t

(* Dropping what is still in the file leaves the file a queue. *)
LEMMA QueueDrops ==
  ASSUME NEW s, NEW written, NEW gone, NEW taken, NEW more,
         Queue(s, written, gone, taken), more \subseteq Lines(s)
  PROVE  Queue(s, written, gone \cup more, taken)
  BY DEF Queue

(* More is taken. *)
LEMMA QueueTaken ==
  ASSUME NEW s, NEW written, NEW gone, NEW taken, NEW later,
         Queue(s, written, gone, taken), \A r \in written : taken[r] > 0 => later[r] > 0
  PROVE  Queue(s, written, gone, later)
  BY DEF Queue

(* A suffix of a suffix. *)
LEMMA SuffixOfSuffix ==
  ASSUME NEW s \in Seq(Records), NEW k \in 1..(Len(s) + 1), NEW t, t = SubSeq(s, k, Len(s)),
         NEW j \in 1..(Len(t) + 1)
  PROVE  /\ j + k - 1 \in 1..(Len(s) + 1)
         /\ SubSeq(t, j, Len(t)) = SubSeq(s, j + k - 1, Len(s))
<1>1. /\ t \in Seq(Records) /\ Len(t) = Len(s) - k + 1
      /\ \A i \in 1..(Len(s) - k + 1) : t[i] = s[i + k - 1]
  BY Suffix
<1>2. PICK m : m = j + k - 1
  OBVIOUS
<1>3. m \in 1..(Len(s) + 1)
  BY <1>1, <1>2
<1>4. PICK u, v : u = SubSeq(t, j, Len(t)) /\ v = SubSeq(s, m, Len(s))
  OBVIOUS
<1>5. /\ u \in Seq(Records) /\ Len(u) = Len(t) - j + 1
      /\ \A i \in 1..(Len(t) - j + 1) : u[i] = t[i + j - 1]
  BY <1>1, <1>4, Suffix
<1>6. /\ v \in Seq(Records) /\ Len(v) = Len(s) - m + 1
      /\ \A i \in 1..(Len(s) - m + 1) : v[i] = s[i + m - 1]
  BY <1>3, <1>4, Suffix
<1>7. Len(u) = Len(v)
  BY <1>1, <1>2, <1>5, <1>6
<1>8. ASSUME NEW i \in 1..Len(u) PROVE u[i] = v[i]
  <2>1. PICK a, b : a = i + j - 1 /\ b = i + m - 1
    OBVIOUS
  <2>2. a \in 1..(Len(s) - k + 1) /\ a + k - 1 = b
    BY <1>1, <1>2, <1>5, <1>8, <2>1
  <2>3. u[i] = t[a] /\ t[a] = s[b]
    BY <1>1, <1>5, <1>8, <2>1, <2>2
  <2>4. v[i] = s[b]
    BY <1>6, <1>7, <1>8, <2>1
  <2> QED
    BY <2>3, <2>4
<1>9. u = v
  BY <1>5, <1>6, <1>7, <1>8, SeqEqual
<1> QED
  BY <1>2, <1>3, <1>4, <1>9

(* Without overlap, the thread that steps is the only one in a call. *)
LEMMA OnlyOne ==
  ASSUME AloneInv, ~overlap, NEW c \in Callers, call[c].pc # "idle"
  PROVE  /\ \A d \in Callers \ {c} : call[d].pc = "idle"
         /\ KeptInv /\ Alone(c)
  BY DEF AloneInv, OneAtATime

(* Thread c steps, the others have no call under way. *)
LEMMA AloneStep ==
  ASSUME NEW c \in Callers,
         \A d \in Callers \ {c} : call'[d] = call[d] /\ call[d].pc = "idle",
         KeptInv', Alone(c)'
  PROVE  AloneInv'
<1>1. OneAtATime'
  BY DEF OneAtATime
<1>2. \A d \in Callers \ {c} : Alone(d)'
  BY DEF Alone, HasRecord, Rewriting
<1> QED
  BY <1>1, <1>2 DEF AloneInv

LEMMA RecordsNumbers ==
  /\ Records \subseteq Nat
  /\ \A n \in 0..MaxCalls : \A r \in Records : r \in 1..n <=> r <= n
  BY ConstantsTyped DEF Records

LEMMA CallAlone ==
  ASSUME BaseInv, AloneInv, NEW c \in Callers, Call(c)
  PROVE  AloneInv'
<1>0. SUFFICES ASSUME ~overlap' PROVE AloneInv'
  BY DEF AloneInv
<1>1. Moved(c, "pending", calls + 1, <<>>, 1, 0, None, "flush")
  BY CallMoves DEF BaseInv
<1>2. /\ ~overlap /\ \A d \in Callers : call[d].pc = "idle"
      /\ calls' = calls + 1
      /\ UNCHANGED <<content, cache, tmp, crashes, delivered, kept, dropped>>
  BY <1>0 DEF Call, At, files
<1>3. KeptInv /\ calls \in Nat
  BY <1>2, ConstantsTyped DEF AloneInv, BaseInv, Types
<1>4. KeptInv'
  BY <1>2, <1>3 DEF KeptInv, Cached
<1>5. calls' \notin kept'
  BY <1>2, <1>3 DEF KeptInv
<1>6. Alone(c)'
  BY <1>1, <1>2, <1>5 DEF Moved, Fields, Alone, HasRecord, Rewriting
<1> QED
  BY <1>1, <1>2, <1>4, <1>6, AloneStep DEF Moved

LEMMA HasPendingAlone ==
  ASSUME BaseInv, AloneInv, NEW c \in Callers, HasPending(c)
  PROVE  AloneInv'
<1>0. SUFFICES ASSUME ~overlap' PROVE AloneInv'
  BY DEF AloneInv
<1>1. PICK p \in {"send", "read"} : MovedTo(c, p)
  BY GotoMoves DEF HasPending, BaseInv, Places
<1>2. call[c].pc = "pending" /\ UNCHANGED <<content, cache, tmp, calls, crashes, delivered, kept, dropped, overlap>>
  BY DEF HasPending, At, files, history
<1>3. (\A d \in Callers \ {c} : call[d].pc = "idle") /\ KeptInv /\ Alone(c)
  BY <1>0, <1>2, OnlyOne
<1>4. KeptInv'
  BY <1>2, <1>3 DEF KeptInv, Cached
<1>5. Alone(c)'
  BY <1>1, <1>2, <1>3 DEF MovedTo, Moved, Fields, Alone, HasRecord, Rewriting
<1> QED
  BY <1>1, <1>3, <1>4, <1>5, AloneStep DEF MovedTo, Moved

LEMMA ReadAlone ==
  ASSUME BaseInv, AloneInv, NEW c \in Callers, ReadPending(c)
  PROVE  AloneInv'
<1>0. SUFFICES ASSUME ~overlap' PROVE AloneInv'
  BY DEF AloneInv
<1>1. Moved(c, "replay", call[c].rec, Cached, call[c].k, call[c].sent, call[c].fd, call[c].for)
  BY ReadMoves DEF BaseInv
<1>2. call[c].pc = "read" /\ UNCHANGED <<content, cache, tmp, calls, crashes, delivered, kept, dropped, overlap>>
  BY DEF ReadPending, At, files, history
<1>3. (\A d \in Callers \ {c} : call[d].pc = "idle") /\ KeptInv /\ Alone(c)
  BY <1>0, <1>2, OnlyOne
<1>4. KeptInv' /\ Cached' = Cached
  BY <1>2, <1>3 DEF KeptInv, Cached
<1>5. call[c].k = 1
  BY <1>2 DEF BaseInv, ThreadInv, Thread
<1>6. call'[c].k = 1 /\ call'[c].lines = Cached' /\ call'[c].pc = "replay" /\ call'[c].rec = call[c].rec
  BY <1>1, <1>4, <1>5 DEF Moved, Fields
<1>7. \A j \in 1..(call'[c].k - 1) : delivered'[call'[c].lines[j]] > 0
  BY <1>6
<1>8. Alone(c)'
  BY <1>2, <1>3, <1>6, <1>7 DEF Alone, HasRecord, Rewriting
<1> QED
  BY <1>1, <1>3, <1>4, <1>8, AloneStep DEF Moved

(* What the inner uploader took stays taken. *)
LEMMA TakenMore ==
  ASSUME Types, NEW r \in Records, Take(r)
  PROVE  /\ \A x \in Records : delivered[x] > 0 => delivered'[x] > 0
         /\ delivered'[r] > 0
  BY DEF Types, Take

LEMMA ReplayAlone ==
  ASSUME BaseInv, AloneInv, NEW c \in Callers, Replay(c)
  PROVE  AloneInv'
<1>0. SUFFICES ASSUME ~overlap' PROVE AloneInv'
  BY DEF AloneInv
<1> DEFINE L == call[c].lines
<1> DEFINE k == call[c].k
<1>1. call[c].pc = "replay" /\ UNCHANGED <<content, cache, tmp, calls, crashes, kept, overlap>>
  BY DEF Replay, At, files
<1>2. (\A d \in Callers \ {c} : call[d].pc = "idle") /\ KeptInv /\ Alone(c)
  BY <1>0, <1>1, OnlyOne
<1>3. /\ L = Cached /\ L \in Seq(Records) /\ k \in 1..(Len(L) + 1)
      /\ \A j \in 1..(k - 1) : delivered[L[j]] > 0
      /\ call[c].rec = calls /\ calls \notin kept
  BY <1>1, <1>2 DEF Alone, HasRecord, BaseInv, Types, ThreadInv, Thread, Calls
<1>4. Queue(L, kept, dropped, delivered) /\ dropped \subseteq kept /\ kept \subseteq 1..calls
  BY <1>2, <1>3 DEF KeptInv
<1>5. Cached' = L
  BY <1>1, <1>3 DEF Cached
<1>6. Lines(L) \subseteq kept
  BY <1>4 DEF Queue
<1> HIDE DEF L, k
<1>7. CASE /\ call[c].k > Len(call[c].lines)
           /\ Moved(c, "truncate", call[c].rec, <<>>, 1, 0, None, "flush")
           /\ UNCHANGED <<delivered, dropped>>
  <2>1. \A r \in Lines(L) : delivered[r] > 0
    <3> SUFFICES ASSUME NEW r \in Lines(L) PROVE delivered[r] > 0
      OBVIOUS
    <3>1. PICK i \in 1..Len(L) : r = L[i]
      BY <1>3, LinesOf
    <3>2. i \in 1..(k - 1)
      BY <1>3, <1>7 DEF L, k
    <3> QED
      BY <1>3, <3>1, <3>2
  <2>2. KeptInv'
    BY <1>1, <1>2, <1>7 DEF KeptInv, Cached
  <2>3. Alone(c)'
    BY <1>1, <1>3, <1>5, <1>7, <2>1 DEF Moved, Fields, Alone, HasRecord, Rewriting
  <2> QED
    BY <1>2, <1>7, <2>2, <2>3, AloneStep DEF Moved
<1>8. CASE /\ call[c].k <= Len(call[c].lines)
           /\ Moved(c, "open", call[c].rec, Rest(c), 1, 0, None, "flush")
           /\ dropped' = dropped \cup
                (Lines(SubSeq(call[c].lines, call[c].k, Len(call[c].lines))) \ Lines(Rest(c)))
           /\ UNCHANGED delivered
  <2>1. PICK rest : rest = SubSeq(L, k, Len(L))
    OBVIOUS
  <2>2. /\ rest \in Seq(Records) /\ Len(rest) = Len(L) - k + 1
        /\ \A i \in 1..(Len(L) - k + 1) : rest[i] = L[i + k - 1]
    BY <1>3, <2>1, Suffix
  <2>3. Rest(c) = Newest(rest)
    BY <2>1 DEF Rest, L, k
  <2>4. PICK j \in 1..(Len(rest) + 1) : Rest(c) = SubSeq(rest, j, Len(rest))
    BY <2>2, <2>3, NewestIsSuffix
  <2>5. PICK m : m = j + k - 1
    OBVIOUS
  <2>6. m \in 1..(Len(L) + 1) /\ Rest(c) = SubSeq(L, m, Len(L))
    BY <1>3, <2>1, <2>4, <2>5, SuffixOfSuffix
  <2>7. PICK more : more = Lines(rest) \ Lines(Rest(c))
    OBVIOUS
  <2>8. dropped' = dropped \cup more
    BY <1>8, <2>1, <2>7 DEF L, k
  <2>9. Lines(rest) \subseteq Lines(L)
    <3> SUFFICES ASSUME NEW r \in Lines(rest) PROVE r \in Lines(L)
      OBVIOUS
    <3>1. PICK i \in 1..Len(rest) : r = rest[i]
      BY <2>2, LinesOf
    <3>2. PICK b : b = i + k - 1
      OBVIOUS
    <3>3. b \in 1..Len(L) /\ r = L[b]
      BY <1>3, <2>2, <3>1, <3>2
    <3> QED
      BY <1>3, <3>3, LinesOf
  <2>10. \A i \in 1..(m - 1) : delivered[L[i]] > 0 \/ L[i] \in more
    <3> SUFFICES ASSUME NEW i \in 1..(m - 1), ~(delivered[L[i]] > 0) PROVE L[i] \in more
      OBVIOUS
    <3>1. ~(i \in 1..(k - 1))
      BY <1>3
    <3>2. PICK a : a = i - k + 1
      OBVIOUS
    <3>3. a \in 1..Len(rest) /\ a < j /\ a + k - 1 = i /\ i \in 1..Len(L)
      BY <1>3, <2>2, <2>4, <2>5, <2>6, <3>1, <3>2
    <3>4. rest[a] = L[i]
      BY <2>2, <3>3
    <3>5. L[i] \in Lines(rest)
      BY <2>2, <3>3, <3>4, LinesOf
    <3>6. L[i] \notin Lines(Rest(c))
      <4> SUFFICES ASSUME L[i] \in Lines(Rest(c)) PROVE FALSE
        OBVIOUS
      <4>1. PICK t : t = Rest(c)
        OBVIOUS
      <4>2. /\ t \in Seq(Records) /\ Len(t) = Len(L) - m + 1
            /\ \A x \in 1..(Len(L) - m + 1) : t[x] = L[x + m - 1]
        BY <1>3, <2>6, <4>1, Suffix
      <4>3. PICK x \in 1..Len(t) : L[i] = t[x]
        BY <4>1, <4>2, LinesOf
      <4>4. PICK y : y = x + m - 1
        OBVIOUS
      <4>5. y \in 1..Len(L) /\ i < y /\ L[i] = L[y]
        BY <1>3, <2>6, <4>2, <4>3, <4>4
      <4>6. L[i] < L[y]
        BY <1>3, <1>4, <3>3, <4>5, LinesOf DEF Queue, Increasing
      <4>7. L[i] \in Nat
        BY <1>3, <3>3, LinesOf, RecordsNumbers
      <4> QED
        BY <4>5, <4>6, <4>7
    <3> QED
      BY <2>7, <3>5, <3>6
  <2>11. Queue(Rest(c), kept, dropped', delivered)
    <3>1. more \subseteq Lines(L) \ Lines(SubSeq(L, m, Len(L)))
      BY <2>6, <2>7, <2>9
    <3>2. Queue(SubSeq(L, m, Len(L)), kept, dropped \cup more, delivered)
      BY <1>3, <1>4, <2>6, <2>10, <3>1, QueueSuffix
    <3> QED
      BY <2>6, <2>8, <3>2
  <2>12. Queue(L, kept, dropped', delivered)
    <3>1. more \subseteq Lines(L)
      BY <2>7, <2>9
    <3> QED
      BY <1>4, <2>8, <3>1, QueueDrops
  <2>13. dropped' \subseteq kept
    BY <1>4, <1>6, <2>7, <2>8, <2>9
  <2>14. KeptInv'
    BY <1>1, <1>4, <1>5, <1>8, <2>12, <2>13 DEF KeptInv
  <2>15. Alone(c)'
    BY <1>1, <1>3, <1>8, <2>11 DEF Moved, Fields, Alone, HasRecord, Rewriting, Out
  <2> QED
    BY <1>2, <1>8, <2>14, <2>15, AloneStep DEF Moved
<1>9. CASE /\ call[c].k <= Len(call[c].lines)
           /\ Take(call[c].lines[call[c].k])
           /\ Moved(c, "replay", call[c].rec, call[c].lines, call[c].k + 1, call[c].sent + 1,
                    call[c].fd, call[c].for)
           /\ UNCHANGED dropped
  <2>1. k \in 1..Len(L) /\ L[k] \in Records
    BY <1>3, <1>9 DEF L, k
  <2>2. /\ \A x \in Records : delivered[x] > 0 => delivered'[x] > 0
        /\ delivered'[L[k]] > 0
    BY <1>9, <2>1, TakenMore DEF BaseInv, L, k
  <2>3. Queue(L, kept, dropped, delivered')
    BY <1>4, <2>2, QueueTaken DEF BaseInv, Types
  <2>4. KeptInv'
    BY <1>1, <1>4, <1>5, <1>9, <2>3 DEF KeptInv
  <2>5. \A j \in 1..k : delivered'[L[j]] > 0
    <3> SUFFICES ASSUME NEW j \in 1..k PROVE delivered'[L[j]] > 0
      OBVIOUS
    <3>1. CASE j = k
      BY <2>2, <3>1
    <3>2. CASE j # k
      <4>1. j \in 1..(k - 1) /\ L[j] \in Records
        BY <1>3, <2>1, <3>2
      <4> QED
        BY <1>3, <2>2, <4>1
    <3> QED
      BY <3>1, <3>2
  <2>6. /\ call'[c].pc = "replay" /\ call'[c].lines = L /\ call'[c].k - 1 = k
        /\ call'[c].rec = call[c].rec
    BY <1>3, <1>9 DEF Moved, Fields, L, k
  <2>7. Alone(c)'
    BY <1>1, <1>3, <1>5, <2>5, <2>6 DEF Alone, HasRecord, Rewriting
  <2> QED
    BY <1>2, <1>9, <2>4, <2>7, AloneStep DEF Moved
<1> QED
  BY <1>7, <1>8, <1>9, ReplayMoves

LEMMA TruncateAlone ==
  ASSUME BaseInv, AloneInv, NEW c \in Callers, Truncate(c)
  PROVE  AloneInv'
<1>0. SUFFICES ASSUME ~overlap' PROVE AloneInv'
  BY DEF AloneInv
<1>1. MovedTo(c, "send")
  BY GotoMoves DEF Truncate, BaseInv, Places
<1>2. /\ call[c].pc = "truncate" /\ UNCHANGED <<cache, tmp, calls, crashes, delivered, kept, dropped, overlap>>
      /\ content' = [content EXCEPT ![cache] = <<>>]
  BY DEF Truncate, At, history
<1>3. (\A d \in Callers \ {c} : call[d].pc = "idle") /\ KeptInv /\ Alone(c)
  BY <1>0, <1>2, OnlyOne
<1>4. Cached' = <<>>
  BY <1>2 DEF Cached, BaseInv, Types
<1>5. Lines(<<>>) = {} /\ Increasing(<<>>)
  BY DEF Lines, Increasing
<1>6. Queue(<<>>, kept, dropped, delivered)
  BY <1>2, <1>3, <1>5 DEF Queue, KeptInv, Alone
<1>7. KeptInv'
  BY <1>2, <1>3, <1>4, <1>6 DEF KeptInv
<1>8. Alone(c)'
  BY <1>1, <1>2, <1>3 DEF MovedTo, Moved, Fields, Alone, HasRecord, Rewriting
<1> QED
  BY <1>1, <1>3, <1>7, <1>8, AloneStep DEF MovedTo, Moved

LEMMA OpenAlone ==
  ASSUME BaseInv, AloneInv, NEW c \in Callers, OpenTmp(c)
  PROVE  AloneInv'
<1>0. SUFFICES ASSUME ~overlap' PROVE AloneInv'
  BY DEF AloneInv
<1>1. /\ Moved(c, "write", call[c].rec, call[c].lines, call[c].k, call[c].sent, NewTmp, call[c].for)
      /\ tmp' = NewTmp /\ content' = [content EXCEPT ![NewTmp] = <<>>]
      /\ call[c].pc = "open" /\ UNCHANGED <<cache, calls, crashes, delivered, kept, dropped, overlap>>
  BY OpenMoves DEF OpenTmp, At, history
<1>2. NewTmp \in Inodes /\ NewTmp # None /\ NewTmp # cache
  BY NewTmpTyped
<1>3. (\A d \in Callers \ {c} : call[d].pc = "idle") /\ KeptInv /\ Alone(c)
  BY <1>0, <1>1, OnlyOne
<1>4. Cached' = Cached /\ content'[tmp'] = <<>>
  BY <1>1, <1>2 DEF Cached, BaseInv, Types
<1>5. KeptInv'
  BY <1>1, <1>3, <1>4 DEF KeptInv
<1>6. Queue(call[c].lines, kept, dropped, delivered)
  BY <1>1, <1>3 DEF Alone, Rewriting, Out
<1>7. Alone(c)'
  BY <1>1, <1>3, <1>4, <1>6 DEF Moved, Fields, Alone, HasRecord, Rewriting, Out
<1> QED
  BY <1>1, <1>3, <1>5, <1>7, AloneStep DEF Moved

(* The file the thread writes is the temporary one, and empty. *)
LEMMA WritesOut ==
  ASSUME BaseInv, AloneInv, ~overlap, NEW c \in Callers, WriteTmp(c)
  PROVE  /\ tmp \in Inodes /\ tmp # cache /\ tmp # None
         /\ content' = [content EXCEPT ![tmp] = call[c].lines]
         /\ content'[tmp] = call[c].lines /\ Cached' = Cached /\ UNCHANGED <<cache, tmp>>
<1>1. call[c].pc = "write" /\ call[c] \in Calls /\ Thread(c)
  BY DEF WriteTmp, At, BaseInv, ThreadInv, Types
<1>2. call[c].fd = tmp /\ content[tmp] = <<>> /\ call[c].fd # None
  BY <1>1, OnlyOne DEF Alone, Thread
<1>3. tmp \in Inodes /\ tmp # cache /\ tmp # None
  BY <1>2 DEF BaseInv, Types, FileInv
<1>4. PICK new \in Seq(Records), old \in Seq(Records) : new = call[c].lines /\ old = content[tmp]
  BY <1>1, <1>3 DEF Calls, BaseInv, Types
<1>5. new \o SubSeq(old, Len(new) + 1, Len(old)) = new
  BY <1>2, <1>4, Overwritten
<1>6. content' = [content EXCEPT ![tmp] = new]
  BY <1>2, <1>4, <1>5 DEF WriteTmp
<1>7. UNCHANGED <<cache, tmp>>
  BY DEF WriteTmp
<1> QED
  BY <1>3, <1>4, <1>6, <1>7 DEF Cached, BaseInv, Types

LEMMA WriteAlone ==
  ASSUME BaseInv, AloneInv, NEW c \in Callers, WriteTmp(c)
  PROVE  AloneInv'
<1>0. SUFFICES ASSUME ~overlap' PROVE AloneInv'
  BY DEF AloneInv
<1>1. Moved(c, "rename", call[c].rec, <<>>, call[c].k, call[c].sent, None, call[c].for)
  BY WriteMoves
<1>2. call[c].pc = "write" /\ UNCHANGED <<calls, crashes, delivered, kept, dropped, overlap>>
  BY DEF WriteTmp, At, history
<1>3. (\A d \in Callers \ {c} : call[d].pc = "idle") /\ KeptInv /\ Alone(c)
  BY <1>0, <1>2, OnlyOne
<1>4. /\ tmp \in Inodes /\ tmp # cache /\ tmp # None
      /\ content'[tmp] = call[c].lines /\ Cached' = Cached /\ UNCHANGED <<cache, tmp>>
  BY <1>0, <1>2, WritesOut
<1>5. KeptInv'
  BY <1>2, <1>3, <1>4 DEF KeptInv
<1>6. Queue(call[c].lines, kept, dropped, delivered)
  BY <1>2, <1>3 DEF Alone, Rewriting, Out
<1>7. Alone(c)'
  BY <1>1, <1>2, <1>3, <1>4, <1>6 DEF Moved, Fields, Alone, HasRecord, Rewriting, Out
<1> QED
  BY <1>1, <1>3, <1>5, <1>7, AloneStep DEF Moved

LEMMA ReturnedAlone ==
  ASSUME NEW c \in Callers, Returned(c)
  PROVE  Alone(c)'
  BY DEF Returned, Moved, Fields, Alone, HasRecord, Rewriting

LEMMA RenameAlone ==
  ASSUME BaseInv, AloneInv, NEW c \in Callers, Rename(c)
  PROVE  AloneInv'
<1>0. SUFFICES ASSUME ~overlap' PROVE AloneInv'
  BY DEF AloneInv
<1>1. /\ call[c].pc = "rename" /\ UNCHANGED <<content, calls, crashes, delivered, kept, dropped, overlap>>
      /\ cache' = IF tmp # None THEN tmp ELSE cache
  BY DEF Rename, At, history
<1>2. (\A d \in Callers \ {c} : call[d].pc = "idle") /\ KeptInv /\ Alone(c)
  BY <1>0, <1>1, OnlyOne
<1>3. tmp # None
  BY <1>1, <1>2 DEF Alone
<1>4. Cached' = content[tmp] /\ Queue(content[tmp], kept, dropped, delivered)
  BY <1>1, <1>2, <1>3 DEF Cached, Alone, Rewriting, Out
<1>5. KeptInv'
  BY <1>1, <1>2, <1>4 DEF KeptInv
<1>6. Alone(c)' /\ \A d \in Callers \ {c} : call'[d] = call[d]
  <2>1. CASE call[c].for = "flush" /\ MovedTo(c, IF tmp # None THEN "send" ELSE "append")
    BY <1>1, <1>2, <1>3, <2>1 DEF MovedTo, Moved, Fields, Alone, HasRecord, Rewriting
  <2>2. CASE Returned(c)
    BY <2>2, ReturnedAlone DEF Returned, Moved
  <2> QED
    BY <2>1, <2>2, RenameMoves
<1> QED
  BY <1>2, <1>5, <1>6, AloneStep

LEMMA SendAlone ==
  ASSUME BaseInv, AloneInv, NEW c \in Callers, Send(c)
  PROVE  AloneInv'
<1>0. SUFFICES ASSUME ~overlap' PROVE AloneInv'
  BY DEF AloneInv
<1>1. call[c].pc = "send" /\ UNCHANGED <<content, cache, tmp, calls, crashes, kept, dropped, overlap>>
  BY DEF Send, At, files
<1>2. (\A d \in Callers \ {c} : call[d].pc = "idle") /\ KeptInv /\ Alone(c)
  BY <1>0, <1>1, OnlyOne
<1>3. call[c].rec \in Records
  BY <1>1 DEF BaseInv, ThreadInv, Thread, HasRecord
<1>4. CASE Take(call[c].rec) /\ Return(c)
  <2>1. Returned(c)
    BY <1>4, ReturnMoves DEF BaseInv
  <2>2. \A x \in kept : delivered[x] > 0 => delivered'[x] > 0
    BY <1>3, <1>4, TakenMore DEF BaseInv, Types
  <2>3. Queue(Cached, kept, dropped, delivered')
    BY <1>2, <2>2, QueueTaken DEF KeptInv
  <2>4. KeptInv'
    BY <1>1, <1>2, <2>3 DEF KeptInv, Cached
  <2> QED
    BY <1>2, <2>1, <2>4, ReturnedAlone, AloneStep DEF Returned, Moved
<1>5. CASE Goto(c, "append") /\ UNCHANGED delivered
  <2>1. MovedTo(c, "append")
    BY <1>5, GotoMoves DEF BaseInv, Places
  <2>2. KeptInv'
    BY <1>1, <1>2, <1>5 DEF KeptInv, Cached
  <2>3. Alone(c)'
    BY <1>1, <1>2, <2>1 DEF MovedTo, Moved, Fields, Alone, HasRecord, Rewriting
  <2> QED
    BY <1>2, <2>1, <2>2, <2>3, AloneStep DEF MovedTo, Moved
<1> QED
  BY <1>4, <1>5 DEF Send

LEMMA OpenAppendAlone ==
  ASSUME BaseInv, AloneInv, NEW c \in Callers, OpenAppend(c)
  PROVE  AloneInv'
<1>0. SUFFICES ASSUME ~overlap' PROVE AloneInv'
  BY DEF AloneInv
<1>1. call[c].pc = "append" /\ UNCHANGED <<content, cache, tmp, calls, crashes, delivered, kept, dropped, overlap>>
  BY DEF OpenAppend, At, files, history
<1>2. (\A d \in Callers \ {c} : call[d].pc = "idle") /\ KeptInv /\ Alone(c)
  BY <1>0, <1>1, OnlyOne
<1>3. Moved(c, "line", call[c].rec, call[c].lines, call[c].k, call[c].sent, cache, call[c].for)
  BY OpenAppendMoves
<1>4. KeptInv'
  BY <1>1, <1>2 DEF KeptInv, Cached
<1>5. Alone(c)'
  BY <1>1, <1>2, <1>3 DEF Moved, Fields, Alone, HasRecord, Rewriting
<1> QED
  BY <1>2, <1>3, <1>4, <1>5, AloneStep DEF Moved

LEMMA AppendAlone ==
  ASSUME BaseInv, AloneInv, NEW c \in Callers, AppendLine(c)
  PROVE  AloneInv'
<1>0. SUFFICES ASSUME ~overlap' PROVE AloneInv'
  BY DEF AloneInv
<1>1. /\ call[c].pc = "line" /\ UNCHANGED <<cache, tmp, calls, crashes, delivered, dropped, overlap>>
      /\ kept' = kept \cup {call[c].rec}
      /\ content' = [content EXCEPT ![call[c].fd] = Append(content[call[c].fd], call[c].rec)]
  BY DEF AppendLine, At
<1>2. (\A d \in Callers \ {c} : call[d].pc = "idle") /\ KeptInv /\ Alone(c)
  BY <1>0, <1>1, OnlyOne
<1>3. call[c].rec = calls /\ calls \notin kept /\ call[c].fd = cache /\ calls \in Records
  BY <1>1, <1>2 DEF Alone, HasRecord, BaseInv, ThreadInv, Thread
<1>4. Cached' = Append(Cached, calls) /\ kept' = kept \cup {calls}
  BY <1>1, <1>3 DEF Cached, BaseInv, Types
<1>5. \A x \in kept : x < calls
  BY <1>2, <1>3, RecordsNumbers DEF KeptInv
<1>6. Queue(Append(Cached, calls), kept \cup {calls}, dropped, delivered)
  BY <1>2, <1>3, <1>5, CachedLength, QueueAppend DEF KeptInv
<1>7. calls \in 1..calls
  BY <1>3, ConstantsTyped DEF Records
<1>8. KeptInv'
  BY <1>1, <1>2, <1>4, <1>6, <1>7 DEF KeptInv
<1>9. Alone(c)' /\ \A d \in Callers \ {c} : call'[d] = call[d]
  <2>1. CASE Moved(c, "limit", call[c].rec, call[c].lines, call[c].k, call[c].sent, None, call[c].for)
    BY <2>1 DEF Moved, Fields, Alone, HasRecord, Rewriting
  <2>2. CASE Returned(c)
    BY <2>2, ReturnedAlone DEF Returned, Moved
  <2> QED
    BY <2>1, <2>2, AppendMoves
<1> QED
  BY <1>2, <1>8, <1>9, AloneStep

LEMMA LimitAlone ==
  ASSUME BaseInv, AloneInv, NEW c \in Callers, Limit(c)
  PROVE  AloneInv'
<1>0. SUFFICES ASSUME ~overlap' PROVE AloneInv'
  BY DEF AloneInv
<1>1. /\ call[c].pc = "limit" /\ UNCHANGED <<content, cache, tmp, calls, crashes, delivered, kept, overlap>>
      /\ dropped' = dropped \cup (Lines(Cached) \ Lines(Newest(Cached)))
  BY DEF Limit, At, files
<1>2. (\A d \in Callers \ {c} : call[d].pc = "idle") /\ KeptInv /\ Alone(c)
  BY <1>0, <1>1, OnlyOne
<1>3. Moved(c, "open", 0, Newest(Cached), 1, 0, None, "append")
  BY LimitMoves
<1>4. PICK s \in Seq(Records) : s = Cached
  BY CachedLength
<1>5. PICK m \in 1..(Len(s) + 1) : Newest(s) = SubSeq(s, m, Len(s))
  BY NewestIsSuffix
<1>6. PICK more : more = Lines(s) \ Lines(Newest(s))
  OBVIOUS
<1>7. Queue(s, kept, dropped, delivered) /\ dropped \subseteq kept /\ kept \subseteq 1..calls /\ Lines(s) \subseteq kept
  BY <1>2, <1>4 DEF KeptInv, Queue
<1>8. \A i \in 1..(m - 1) : s[i] \in more
  <2> SUFFICES ASSUME NEW i \in 1..(m - 1), s[i] \in Lines(Newest(s)) PROVE FALSE
    BY <1>5, <1>6, LinesOf
  <2>1. PICK t : t = Newest(s)
    OBVIOUS
  <2>2. /\ t \in Seq(Records) /\ Len(t) = Len(s) - m + 1
        /\ \A x \in 1..(Len(s) - m + 1) : t[x] = s[x + m - 1]
    BY <1>5, <2>1, Suffix
  <2>3. PICK x \in 1..Len(t) : s[i] = t[x]
    BY <2>1, <2>2, LinesOf
  <2>4. PICK y : y = x + m - 1
    OBVIOUS
  <2>5. i \in 1..Len(s) /\ y \in 1..Len(s) /\ i < y /\ s[i] = s[y]
    BY <1>5, <2>2, <2>3, <2>4
  <2>6. s[i] < s[y]
    BY <1>7, <2>5, LinesOf DEF Queue, Increasing
  <2>7. s[i] \in Nat
    BY <2>5, LinesOf, RecordsNumbers
  <2> QED
    BY <2>5, <2>6, <2>7
<1>9. Queue(Newest(s), kept, dropped \cup more, delivered)
  <2>1. more \subseteq Lines(s) \ Lines(SubSeq(s, m, Len(s)))
    BY <1>5, <1>6
  <2>2. Queue(SubSeq(s, m, Len(s)), kept, dropped \cup more, delivered)
    BY <1>7, <1>8, <2>1, QueueSuffix
  <2> QED
    BY <1>5, <2>2
<1>10. Queue(s, kept, dropped \cup more, delivered)
  BY <1>6, <1>7, QueueDrops
<1>11. dropped' = dropped \cup more /\ dropped' \subseteq kept /\ Cached' = s
  BY <1>1, <1>4, <1>6, <1>7 DEF Cached
<1>12. KeptInv'
  BY <1>1, <1>7, <1>10, <1>11 DEF KeptInv
<1>13. Alone(c)'
  BY <1>1, <1>3, <1>4, <1>9, <1>11 DEF Moved, Fields, Alone, HasRecord, Rewriting, Out
<1> QED
  BY <1>2, <1>3, <1>12, <1>13, AloneStep DEF Moved

LEMMA CrashAlone ==
  ASSUME BaseInv, AloneInv, Crash
  PROVE  AloneInv'
<1>1. \A c \in Callers : call'[c].pc = "idle"
  BY IdleFields DEF Crash, Fields
<1>2. UNCHANGED <<content, cache, tmp, calls, delivered, kept, dropped, overlap>>
  BY DEF Crash, files, history
<1>3. ~overlap => KeptInv'
  BY <1>2 DEF AloneInv, KeptInv, Cached
<1>4. \A c \in Callers : Alone(c)'
  BY <1>1 DEF Alone, HasRecord, Rewriting
<1> QED
  BY <1>1, <1>2, <1>3, <1>4 DEF AloneInv, OneAtATime

LEMMA StutterAlone ==
  ASSUME AloneInv, UNCHANGED uvars
  PROVE  AloneInv'
<1>1. KeptInv => KeptInv'
  BY DEF uvars, KeptInv, Cached
<1>2. ASSUME NEW c \in Callers, Alone(c) PROVE Alone(c)'
  BY <1>2 DEF uvars, Alone, HasRecord, Rewriting, Out, Cached
<1> QED
  BY <1>1, <1>2 DEF uvars, AloneInv, OneAtATime

LEMMA StepAlone ==
  ASSUME BaseInv, AloneInv, [UNext]_uvars
  PROVE  AloneInv'
<1>1. ASSUME NEW c \in Callers, Call(c) \/ Step(c)
      PROVE  AloneInv'
  BY <1>1, CallAlone, HasPendingAlone, ReadAlone, ReplayAlone, TruncateAlone, OpenAlone, WriteAlone,
     RenameAlone, SendAlone, OpenAppendAlone, AppendAlone, LimitAlone DEF Step
<1> QED
  BY <1>1, StutterAlone, CrashAlone DEF UNext

LEMMA InitAlone ==
  ASSUME UInit
  PROVE  AloneInv
<1>1. \A c \in Callers : call[c].pc = "idle"
  BY IdleFields DEF UInit, Fields
<1>2. Cached = <<>> /\ kept = {} /\ dropped = {}
  BY ConstantsTyped DEF UInit, Cached
<1>3. Lines(<<>>) = {} /\ Increasing(<<>>)
  BY DEF Lines, Increasing
<1>4. KeptInv
  BY <1>2, <1>3 DEF KeptInv, Queue
<1>5. \A c \in Callers : Alone(c)
  BY <1>1 DEF Alone, HasRecord, Rewriting
<1> QED
  BY <1>1, <1>4, <1>5 DEF AloneInv, OneAtATime

(* As long as no two calls overlapped, the cache is the queue of what was  *)
(* written and neither taken nor dropped, at every step of every call and  *)
(* across crashes.                                                         *)
THEOREM AloneInvariant == USpec => [](BaseInv /\ AloneInv)
<1> QED
  BY InitBase, StepBase, InitAlone, StepAlone, PTL DEF USpec

(* What was written to the cache is there, or was taken, or the limit      *)
(* dropped it, across crashes, as long as no two calls overlapped.         *)
THEOREM NothingIsLostAlone == USpec => []NothingLostAlone
<1>1. ASSUME AloneInv PROVE NothingLostAlone
  BY <1>1 DEF AloneInv, KeptInv, Queue, NothingLostAlone, Accounted
<1> QED
  BY <1>1, AloneInvariant, PTL

(* The replay hands records on in the order of their calls, and the limit  *)
(* drops the oldest, as long as no two calls overlapped.                   *)
THEOREM OrderIsKept == USpec => []CacheInOrder
<1>1. ASSUME AloneInv PROVE CacheInOrder
  BY <1>1 DEF AloneInv, KeptInv, Queue, Increasing, CacheInOrder
<1> QED
  BY <1>1, AloneInvariant, PTL

(***************************************************************************)
(* Nothing is taken twice                                                  *)
(***************************************************************************)
Fresh(s, taken) == \A j \in DOMAIN s : taken[s[j]] = 0

(* The cache file is still to be cut by what the replay handed on. *)
Replaying(c) ==
  \/ call[c].pc \in {"replay", "truncate"}
  \/ Rewriting(c) /\ call[c].for = "flush"

Once(c) ==
  /\ HasRecord(c) => delivered[calls] = 0
  /\ call[c].pc = "replay" =>
       \A j \in call[c].k..Len(call[c].lines) : delivered[call[c].lines[j]] = 0
  /\ Rewriting(c) => Fresh(Out(c), delivered)

TakenOnce == \A r \in Records : delivered[r] <= 1 /\ (r > calls => delivered[r] = 0)

OnceInv ==
  ~overlap /\ crashes = 0 =>
    /\ TakenOnce
    /\ \A c \in Callers : Once(c)
    /\ (\A c \in Callers : ~Replaying(c)) => Fresh(Cached, delivered)

(* The same, with what OnceInv says. *)
LEMMA OnceOnly ==
  ASSUME BaseInv, AloneInv, OnceInv, ~overlap, crashes = 0, NEW c \in Callers, call[c].pc # "idle"
  PROVE  /\ \A d \in Callers \ {c} : call[d].pc = "idle"
         /\ TakenOnce /\ Once(c) /\ KeptInv /\ Alone(c)
         /\ ~Replaying(c) => Fresh(Cached, delivered)
<1>1. /\ \A d \in Callers \ {c} : call[d].pc = "idle"
      /\ KeptInv /\ Alone(c)
  BY OnlyOne
<1>2. \A d \in Callers \ {c} : ~Replaying(d)
  BY <1>1 DEF Replaying, Rewriting
<1> QED
  BY <1>1, <1>2 DEF OnceInv

LEMMA OnceStep ==
  ASSUME NEW c \in Callers,
         \A d \in Callers \ {c} : call'[d] = call[d] /\ call[d].pc = "idle",
         TakenOnce', Once(c)', ~Replaying(c)' => Fresh(Cached, delivered)'
  PROVE  OnceInv'
<1>1. \A d \in Callers \ {c} : Once(d)'
  BY DEF Once, HasRecord, Rewriting
<1> QED
  BY <1>1 DEF OnceInv

(* A step that hands nothing on and neither adds nor removes lines. *)
LEMMA QuietOnce ==
  ASSUME BaseInv, AloneInv, OnceInv, NEW c \in Callers, call[c].pc # "idle",
         \A d \in Callers \ {c} : call'[d] = call[d],
         UNCHANGED <<calls, crashes, delivered, overlap>>,
         HasRecord(c)' => HasRecord(c),
         ~Replaying(c)' => ~Replaying(c) /\ Cached' = Cached,
         call'[c].pc = "replay" => /\ call[c].pc = "replay" /\ call'[c].k = call[c].k 
                                   /\ call'[c].lines = call[c].lines,
         Rewriting(c)' => Rewriting(c) /\ Out(c)' = Out(c)
  PROVE  OnceInv'
<1>0. SUFFICES ASSUME ~overlap, crashes = 0 PROVE OnceInv'
  BY DEF OnceInv
<1>1. /\ \A d \in Callers \ {c} : call[d].pc = "idle"
      /\ TakenOnce /\ Once(c)
      /\ ~Replaying(c) => Fresh(Cached, delivered)
  BY <1>0, OnceOnly
<1>2. TakenOnce'
  BY <1>1 DEF TakenOnce
<1>3. Rewriting(c)' => Fresh(Out(c)', delivered')
  BY <1>1 DEF Once
<1>4. Once(c)'
  BY <1>1, <1>3 DEF Once
<1>5. ~Replaying(c)' => Fresh(Cached', delivered')
  BY <1>1
<1> QED
  BY <1>1, <1>2, <1>4, <1>5, OnceStep

LEMMA CallOnce ==
  ASSUME BaseInv, AloneInv, OnceInv, NEW c \in Callers, Call(c)
  PROVE  OnceInv'
<1>0. SUFFICES ASSUME ~overlap', crashes' = 0 PROVE OnceInv'
  BY DEF OnceInv
<1>1. Moved(c, "pending", calls + 1, <<>>, 1, 0, None, "flush") /\ calls + 1 \in Records
  BY CallMoves DEF BaseInv
<1>2. /\ ~overlap /\ crashes = 0 /\ \A d \in Callers : call[d].pc = "idle"
      /\ calls' = calls + 1
      /\ UNCHANGED <<content, cache, tmp, crashes, delivered, kept, dropped>>
  BY <1>0 DEF Call, At, files
<1>3. TakenOnce /\ calls \in Nat
  BY <1>2, ConstantsTyped DEF OnceInv, BaseInv, Types
<1>4. delivered[calls + 1] = 0
  BY <1>1, <1>3 DEF TakenOnce
<1>5. TakenOnce'
  <2> SUFFICES ASSUME NEW r \in Records PROVE delivered'[r] <= 1 /\ (r > calls' => delivered'[r] = 0)
    BY DEF TakenOnce
  <2>1. r \in Nat
    BY ConstantsTyped
  <2>2. r > calls' => r > calls
    BY <1>2, <1>3, <2>1
  <2> QED
    BY <1>2, <1>3, <2>2 DEF TakenOnce
<1>6. \A d \in Callers : ~Replaying(d)
  BY <1>2 DEF Replaying, Rewriting
<1>7. Fresh(Cached', delivered')
  BY <1>2, <1>6 DEF OnceInv, Cached
<1>8. Once(c)'
  BY <1>1, <1>2, <1>4 DEF Moved, Fields, Once, Rewriting
<1> QED
  BY <1>1, <1>2, <1>5, <1>7, <1>8, OnceStep DEF Moved

LEMMA HasPendingOnce ==
  ASSUME BaseInv, AloneInv, OnceInv, NEW c \in Callers, HasPending(c)
  PROVE  OnceInv'
<1>1. PICK p \in {"send", "read"} : MovedTo(c, p)
  BY GotoMoves DEF HasPending, BaseInv, Places
<1>2. call[c].pc = "pending" /\ UNCHANGED <<content, cache, tmp, calls, crashes, delivered, kept, dropped, overlap>>
  BY DEF HasPending, At, files, history
<1>3. call'[c].pc = p /\ \A d \in Callers \ {c} : call'[d] = call[d]
  BY <1>1 DEF MovedTo, Moved, Fields
<1>4. Cached' = Cached
  BY <1>2 DEF Cached
<1> QED
  BY <1>2, <1>3, <1>4, QuietOnce DEF HasRecord, Replaying, Rewriting

LEMMA ReadOnce ==
  ASSUME BaseInv, AloneInv, OnceInv, NEW c \in Callers, ReadPending(c)
  PROVE  OnceInv'
<1>0. SUFFICES ASSUME ~overlap', crashes' = 0 PROVE OnceInv'
  BY DEF OnceInv
<1>1. Moved(c, "replay", call[c].rec, Cached, call[c].k, call[c].sent, call[c].fd, call[c].for)
  BY ReadMoves DEF BaseInv
<1>2. call[c].pc = "read" /\ UNCHANGED <<content, cache, tmp, calls, crashes, delivered, kept, dropped, overlap>>
  BY DEF ReadPending, At, files, history
<1>3. /\ \A d \in Callers \ {c} : call[d].pc = "idle"
      /\ TakenOnce /\ Once(c) /\ Fresh(Cached, delivered)
  BY <1>0, <1>2, OnceOnly DEF Replaying, Rewriting
<1>4. call[c].k = 1 /\ DOMAIN Cached = 1..Len(Cached)
  BY <1>2, CachedLength, LinesOf DEF BaseInv, ThreadInv, Thread
<1>5. TakenOnce'
  BY <1>2, <1>3 DEF TakenOnce
<1>6. delivered[calls] = 0
  BY <1>2, <1>3 DEF Once, HasRecord
<1>7. Once(c)'
  BY <1>1, <1>2, <1>3, <1>4, <1>6 DEF Moved, Fields, Once, Rewriting, Fresh
<1>8. Replaying(c)'
  BY <1>1 DEF Moved, Fields, Replaying
<1> QED
  BY <1>1, <1>3, <1>5, <1>7, <1>8, OnceStep DEF Moved

(* A suffix of a fresh sequence is fresh. *)
LEMMA FreshSuffix ==
  ASSUME NEW s \in Seq(Records), NEW m \in 1..(Len(s) + 1), NEW taken,
         \A j \in m..Len(s) : taken[s[j]] = 0
  PROVE  Fresh(SubSeq(s, m, Len(s)), taken)
<1> DEFINE t == SubSeq(s, m, Len(s))
<1>1. /\ t \in Seq(Records) /\ Len(t) = Len(s) - m + 1
      /\ \A i \in 1..(Len(s) - m + 1) : t[i] = s[i + m - 1]
  BY Suffix
<1> HIDE DEF t
<1>2. ASSUME NEW i \in 1..Len(t) PROVE taken[t[i]] = 0
  <2>1. PICK j : j = i + m - 1
    OBVIOUS
  <2>2. j \in m..Len(s) /\ t[i] = s[j]
    BY <1>1, <2>1
  <2> QED
    BY <2>2
<1>3. DOMAIN t = 1..Len(t)
  BY <1>1, LinesOf
<1> QED
  BY <1>2, <1>3 DEF Fresh, t

LEMMA ReplayOnce ==
  ASSUME BaseInv, AloneInv, OnceInv, NEW c \in Callers, Replay(c)
  PROVE  OnceInv'
<1>0. SUFFICES ASSUME ~overlap', crashes' = 0 PROVE OnceInv'
  BY DEF OnceInv
<1> DEFINE L == call[c].lines
<1> DEFINE k == call[c].k
<1>1. call[c].pc = "replay" /\ UNCHANGED <<content, cache, tmp, calls, crashes, kept, overlap>>
  BY DEF Replay, At, files
<1>2. /\ \A d \in Callers \ {c} : call[d].pc = "idle"
      /\ TakenOnce /\ Once(c) /\ KeptInv /\ Alone(c)
  BY <1>0, <1>1, OnceOnly
<1>3. /\ L = Cached /\ L \in Seq(Records) /\ k \in 1..(Len(L) + 1)
      /\ calls \notin kept /\ Queue(L, kept, dropped, delivered) /\ kept \subseteq 1..calls
      /\ \A j \in k..Len(L) : delivered[L[j]] = 0
      /\ delivered[calls] = 0 /\ calls \in Nat
  BY <1>1, <1>2, ConstantsTyped
     DEF Alone, Once, KeptInv, HasRecord, BaseInv, Types, ThreadInv, Thread, Calls
<1> HIDE DEF L, k
<1>4. CASE /\ Moved(c, "truncate", call[c].rec, <<>>, 1, 0, None, "flush")
           /\ UNCHANGED delivered
  <2>1. TakenOnce'
    BY <1>1, <1>2, <1>4 DEF TakenOnce
  <2>2. Once(c)' /\ Replaying(c)'
    BY <1>1, <1>3, <1>4 DEF Moved, Fields, Once, Rewriting, Replaying
  <2> QED
    BY <1>2, <1>4, <2>1, <2>2, OnceStep DEF Moved
<1>5. CASE /\ Moved(c, "open", call[c].rec, Rest(c), 1, 0, None, "flush")
           /\ UNCHANGED delivered
  <2>1. TakenOnce'
    BY <1>1, <1>2, <1>5 DEF TakenOnce
  <2>2. PICK rest : rest = SubSeq(L, k, Len(L))
    OBVIOUS
  <2>3. /\ rest \in Seq(Records) /\ Len(rest) = Len(L) - k + 1
    BY <1>3, <2>2, Suffix
  <2>4. PICK j \in 1..(Len(rest) + 1) : Rest(c) = SubSeq(rest, j, Len(rest))
    BY <2>2, <2>3, NewestIsSuffix DEF Rest, L, k
  <2>5. PICK m : m = j + k - 1
    OBVIOUS
  <2>6. m \in 1..(Len(L) + 1) /\ Rest(c) = SubSeq(L, m, Len(L))
    BY <1>3, <2>2, <2>4, <2>5, SuffixOfSuffix
  <2>7. \A i \in m..Len(L) : delivered[L[i]] = 0
    BY <1>3, <2>4, <2>5, <2>6
  <2>8. Fresh(Rest(c), delivered)
    BY <1>3, <2>6, <2>7, FreshSuffix
  <2>9. Once(c)' /\ Replaying(c)'
    BY <1>1, <1>3, <1>5, <2>8 DEF Moved, Fields, Once, Rewriting, Replaying, Out
  <2> QED
    BY <1>2, <1>5, <2>1, <2>9, OnceStep DEF Moved
<1>6. CASE /\ call[c].k <= Len(call[c].lines)
           /\ Take(call[c].lines[call[c].k])
           /\ Moved(c, "replay", call[c].rec, call[c].lines, call[c].k + 1, call[c].sent + 1,
                    call[c].fd, call[c].for)
  <2>1. k \in 1..Len(L) /\ L[k] \in Lines(L) /\ L[k] \in Records
    BY <1>3, <1>6, LinesOf DEF L, k
  <2>2. PICK r \in Records : r = L[k]
    BY <2>1
  <2>3. r \in kept /\ r # calls /\ ~(r > calls) /\ delivered[r] = 0
    <3>1. r \in kept
      BY <1>3, <2>1, <2>2 DEF Queue
    <3>2. r \in 1..calls /\ r # calls
      BY <1>3, <3>1
    <3>3. k \in k..Len(L)
      BY <2>1
    <3>4. delivered[r] = 0
      BY <1>3, <2>2, <3>3
    <3> QED
      BY <1>3, <3>1, <3>2, <3>4
  <2>4. delivered' = [delivered EXCEPT ![r] = 1]
    BY <1>6, <2>2, <2>3 DEF Take, L, k
  <2>5. delivered'[r] = 1 /\ \A x \in Records : x # r => delivered'[x] = delivered[x]
    BY <2>4 DEF BaseInv, Types
  <2>6. TakenOnce'
    BY <1>1, <1>2, <2>3, <2>5 DEF TakenOnce
  <2>7. delivered'[calls] = 0
    BY <1>3, <2>3, <2>4 DEF BaseInv, Types
  <2>8. \A j \in (k + 1)..Len(L) : delivered'[L[j]] = 0
    <3> SUFFICES ASSUME NEW j \in (k + 1)..Len(L) PROVE delivered'[L[j]] = 0
      OBVIOUS
    <3>1. j \in 1..Len(L) /\ j \in k..Len(L) /\ k < j /\ L[j] \in Records
      BY <1>3, <2>1
    <3>2. L[k] < L[j]
      BY <1>3, <2>1, <3>1, LinesOf DEF Queue, Increasing
    <3>3. L[j] # r
      BY <2>2, <3>1, <3>2, ConstantsTyped
    <3> QED
      BY <1>3, <2>5, <3>1, <3>3
  <2>9. Once(c)' /\ Replaying(c)'
    <3>1. call'[c].pc = "replay" /\ call'[c].lines = L /\ call'[c].k = k + 1
      BY <1>6 DEF Moved, Fields, L, k
    <3> QED
      BY <1>1, <2>7, <2>8, <3>1 DEF Once, Rewriting, Replaying
  <2> QED
    BY <1>2, <1>6, <2>6, <2>9, OnceStep DEF Moved
<1> QED
  BY <1>4, <1>5, <1>6, ReplayMoves

LEMMA TruncateOnce ==
  ASSUME BaseInv, AloneInv, OnceInv, NEW c \in Callers, Truncate(c)
  PROVE  OnceInv'
<1>0. SUFFICES ASSUME ~overlap', crashes' = 0 PROVE OnceInv'
  BY DEF OnceInv
<1>1. MovedTo(c, "send")
  BY GotoMoves DEF Truncate, BaseInv, Places
<1>2. /\ call[c].pc = "truncate" /\ UNCHANGED <<cache, tmp, calls, crashes, delivered, kept, dropped, overlap>>
      /\ content' = [content EXCEPT ![cache] = <<>>]
  BY DEF Truncate, At, history
<1>3. /\ \A d \in Callers \ {c} : call[d].pc = "idle"
      /\ TakenOnce /\ Once(c)
  BY <1>0, <1>2, OnceOnly
<1>4. Cached' = <<>>
  BY <1>2 DEF Cached, BaseInv, Types
<1>5. Fresh(Cached', delivered')
  BY <1>4 DEF Fresh
<1>6. TakenOnce'
  BY <1>2, <1>3 DEF TakenOnce
<1>7. Once(c)'
  BY <1>1, <1>2, <1>3 DEF MovedTo, Moved, Fields, Once, HasRecord, Rewriting
<1> QED
  BY <1>1, <1>3, <1>5, <1>6, <1>7, OnceStep DEF MovedTo, Moved

LEMMA OpenOnce ==
  ASSUME BaseInv, AloneInv, OnceInv, NEW c \in Callers, OpenTmp(c)
  PROVE  OnceInv'
<1>1. /\ Moved(c, "write", call[c].rec, call[c].lines, call[c].k, call[c].sent, NewTmp, call[c].for)
      /\ tmp' = NewTmp /\ content' = [content EXCEPT ![NewTmp] = <<>>]
      /\ call[c].pc = "open" /\ UNCHANGED <<cache, calls, crashes, delivered, kept, dropped, overlap>>
  BY OpenMoves DEF OpenTmp, At, history
<1>2. Cached' = Cached
  BY <1>1, NewTmpTyped DEF Cached, BaseInv, Types
<1>3. /\ call'[c].pc = "write" /\ call'[c].lines = call[c].lines /\ call'[c].for = call[c].for
      /\ \A d \in Callers \ {c} : call'[d] = call[d]
  BY <1>1 DEF Moved, Fields
<1>4. Out(c)' = Out(c)
  BY <1>1, <1>3 DEF Out
<1> QED
  BY <1>1, <1>2, <1>3, <1>4, QuietOnce DEF HasRecord, Replaying, Rewriting

LEMMA WriteOnce ==
  ASSUME BaseInv, AloneInv, OnceInv, NEW c \in Callers, WriteTmp(c)
  PROVE  OnceInv'
<1>0. SUFFICES ASSUME ~overlap', crashes' = 0 PROVE OnceInv'
  BY DEF OnceInv
<1>1. call[c].pc = "write" /\ UNCHANGED <<calls, crashes, delivered, kept, dropped, overlap>>
  BY DEF WriteTmp, At, history
<1>2. content'[tmp] = call[c].lines /\ Cached' = Cached /\ UNCHANGED <<cache, tmp>>
  BY <1>0, <1>1, WritesOut
<1>3. /\ call'[c].pc = "rename" /\ call'[c].for = call[c].for
      /\ \A d \in Callers \ {c} : call'[d] = call[d]
  BY WriteMoves DEF Moved, Fields
<1>4. Out(c)' = Out(c)
  BY <1>1, <1>2, <1>3 DEF Out
<1> QED
  BY <1>1, <1>2, <1>3, <1>4, QuietOnce DEF HasRecord, Replaying, Rewriting

LEMMA ReturnedOnce ==
  ASSUME NEW c \in Callers, Returned(c)
  PROVE  Once(c)'
  BY DEF Returned, Moved, Fields, Once, HasRecord, Rewriting

LEMMA RenameOnce ==
  ASSUME BaseInv, AloneInv, OnceInv, NEW c \in Callers, Rename(c)
  PROVE  OnceInv'
<1>0. SUFFICES ASSUME ~overlap', crashes' = 0 PROVE OnceInv'
  BY DEF OnceInv
<1>1. /\ call[c].pc = "rename" /\ UNCHANGED <<content, calls, crashes, delivered, kept, dropped, overlap>>
      /\ cache' = IF tmp # None THEN tmp ELSE cache
  BY DEF Rename, At, history
<1>2. /\ \A d \in Callers \ {c} : call[d].pc = "idle"
      /\ TakenOnce /\ Once(c) /\ Alone(c)
  BY <1>0, <1>1, OnceOnly
<1>3. tmp # None
  BY <1>1, <1>2 DEF Alone
<1>4. Cached' = content[tmp] /\ Fresh(content[tmp], delivered)
  BY <1>1, <1>2, <1>3 DEF Cached, Once, Rewriting, Out
<1>5. TakenOnce'
  BY <1>1, <1>2 DEF TakenOnce
<1>6. Once(c)' /\ \A d \in Callers \ {c} : call'[d] = call[d]
  <2>1. CASE call[c].for = "flush" /\ MovedTo(c, IF tmp # None THEN "send" ELSE "append")
    BY <1>1, <1>2, <1>3, <2>1 DEF MovedTo, Moved, Fields, Once, HasRecord, Rewriting
  <2>2. CASE Returned(c)
    BY <2>2, ReturnedOnce DEF Returned, Moved
  <2> QED
    BY <2>1, <2>2, RenameMoves
<1> QED
  BY <1>1, <1>2, <1>4, <1>5, <1>6, OnceStep

LEMMA SendOnce ==
  ASSUME BaseInv, AloneInv, OnceInv, NEW c \in Callers, Send(c)
  PROVE  OnceInv'
<1>0. SUFFICES ASSUME ~overlap', crashes' = 0 PROVE OnceInv'
  BY DEF OnceInv
<1>1. call[c].pc = "send" /\ UNCHANGED <<content, cache, tmp, calls, crashes, kept, dropped, overlap>>
  BY DEF Send, At, files
<1>2. /\ \A d \in Callers \ {c} : call[d].pc = "idle"
      /\ TakenOnce /\ Once(c) /\ KeptInv /\ Alone(c) /\ Fresh(Cached, delivered)
  BY <1>0, <1>1, OnceOnly DEF Replaying, Rewriting
<1>3. /\ call[c].rec = calls /\ calls \in Records /\ calls \notin kept /\ delivered[calls] = 0
      /\ Cached' = Cached
  BY <1>1, <1>2 DEF BaseInv, ThreadInv, Thread, HasRecord, Alone, Once, Cached
<1>4. CASE Take(call[c].rec) /\ Return(c)
  <2>1. Returned(c)
    BY <1>4, ReturnMoves DEF BaseInv
  <2>2. delivered' = [delivered EXCEPT ![calls] = 1]
    <3>1. delivered' = [delivered EXCEPT ![calls] = IF delivered[calls] < 2 THEN delivered[calls] + 1 ELSE 2]
      BY <1>3, <1>4 DEF Take
    <3>2. (IF delivered[calls] < 2 THEN delivered[calls] + 1 ELSE 2) = 1
      BY <1>3
    <3> QED
      BY <3>1, <3>2
  <2>3. delivered'[calls] = 1 /\ \A x \in Records : x # calls => delivered'[x] = delivered[x]
    BY <1>3, <2>2 DEF BaseInv, Types
  <2>4. TakenOnce'
    BY <1>1, <1>2, <1>3, <2>3, ConstantsTyped DEF TakenOnce
  <2>5. Fresh(Cached', delivered')
    <3> SUFFICES ASSUME NEW j \in DOMAIN Cached PROVE delivered'[Cached[j]] = 0
      BY <1>3 DEF Fresh
    <3>1. Cached[j] \in Lines(Cached) /\ Cached[j] \in Records /\ delivered[Cached[j]] = 0
      BY <1>2, CachedLength, LinesOf DEF Fresh
    <3>2. Cached[j] # calls
      BY <1>2, <1>3, <3>1 DEF KeptInv, Queue
    <3> QED
      BY <2>3, <3>1, <3>2
  <2> QED
    BY <1>2, <2>1, <2>4, <2>5, ReturnedOnce, OnceStep DEF Returned, Moved
<1>5. CASE Goto(c, "append") /\ UNCHANGED delivered
  <2>1. call'[c].pc = "append" /\ \A d \in Callers \ {c} : call'[d] = call[d]
    BY <1>5, GotoMoves DEF BaseInv, Places, MovedTo, Moved, Fields
  <2> QED
    BY <1>1, <1>3, <1>5, <2>1, QuietOnce DEF HasRecord, Replaying, Rewriting
<1> QED
  BY <1>4, <1>5 DEF Send

LEMMA OpenAppendOnce ==
  ASSUME BaseInv, AloneInv, OnceInv, NEW c \in Callers, OpenAppend(c)
  PROVE  OnceInv'
<1>1. call[c].pc = "append" /\ UNCHANGED <<content, cache, tmp, calls, crashes, delivered, kept, dropped, overlap>>
  BY DEF OpenAppend, At, files, history
<1>2. call'[c].pc = "line" /\ \A d \in Callers \ {c} : call'[d] = call[d]
  BY OpenAppendMoves DEF Moved, Fields
<1>3. Cached' = Cached
  BY <1>1 DEF Cached
<1> QED
  BY <1>1, <1>2, <1>3, QuietOnce DEF HasRecord, Replaying, Rewriting

LEMMA AppendOnce ==
  ASSUME BaseInv, AloneInv, OnceInv, NEW c \in Callers, AppendLine(c)
  PROVE  OnceInv'
<1>0. SUFFICES ASSUME ~overlap', crashes' = 0 PROVE OnceInv'
  BY DEF OnceInv
<1>1. /\ call[c].pc = "line" /\ UNCHANGED <<cache, tmp, calls, crashes, delivered, dropped, overlap>>
      /\ content' = [content EXCEPT ![call[c].fd] = Append(content[call[c].fd], call[c].rec)]
  BY DEF AppendLine, At
<1>2. /\ \A d \in Callers \ {c} : call[d].pc = "idle"
      /\ TakenOnce /\ Once(c) /\ KeptInv /\ Alone(c) /\ Fresh(Cached, delivered)
  BY <1>0, <1>1, OnceOnly DEF Replaying, Rewriting
<1>3. call[c].rec = calls /\ call[c].fd = cache /\ calls \in Records /\ delivered[calls] = 0
  BY <1>1, <1>2 DEF Alone, Once, HasRecord, BaseInv, ThreadInv, Thread
<1>4. Cached' = Append(Cached, calls)
  BY <1>1, <1>3 DEF Cached, BaseInv, Types
<1>5. Fresh(Append(Cached, calls), delivered)
  <2>1. PICK s \in Seq(Records) : s = Cached
    BY CachedLength
  <2>2. PICK t : t = Append(s, calls)
    OBVIOUS
  <2>3. /\ t \in Seq(Records) /\ Len(t) = Len(s) + 1
        /\ \A i \in 1..Len(s) : t[i] = s[i]
        /\ t[Len(s) + 1] = calls
    BY <1>3, <2>2
  <2>4. ASSUME NEW i \in DOMAIN t PROVE delivered[t[i]] = 0
    <3>1. CASE i = Len(s) + 1
      BY <1>3, <2>3, <3>1
    <3>2. CASE i # Len(s) + 1
      BY <1>2, <2>1, <2>3, <3>2, LinesOf DEF Fresh
    <3> QED
      BY <3>1, <3>2
  <2> QED
    BY <2>1, <2>2, <2>4 DEF Fresh
<1>6. TakenOnce'
  BY <1>1, <1>2 DEF TakenOnce
<1>7. Once(c)' /\ \A d \in Callers \ {c} : call'[d] = call[d]
  <2>1. CASE Moved(c, "limit", call[c].rec, call[c].lines, call[c].k, call[c].sent, None, call[c].for)
    BY <2>1 DEF Moved, Fields, Once, HasRecord, Rewriting
  <2>2. CASE Returned(c)
    BY <2>2, ReturnedOnce DEF Returned, Moved
  <2> QED
    BY <2>1, <2>2, AppendMoves
<1> QED
  BY <1>1, <1>2, <1>4, <1>5, <1>6, <1>7, OnceStep

LEMMA LimitOnce ==
  ASSUME BaseInv, AloneInv, OnceInv, NEW c \in Callers, Limit(c)
  PROVE  OnceInv'
<1>0. SUFFICES ASSUME ~overlap', crashes' = 0 PROVE OnceInv'
  BY DEF OnceInv
<1>1. call[c].pc = "limit" /\ UNCHANGED <<content, cache, tmp, calls, crashes, delivered, kept, overlap>>
  BY DEF Limit, At, files
<1>2. /\ \A d \in Callers \ {c} : call[d].pc = "idle"
      /\ TakenOnce /\ Once(c) /\ Fresh(Cached, delivered)
  BY <1>0, <1>1, OnceOnly DEF Replaying, Rewriting
<1>3. Moved(c, "open", 0, Newest(Cached), 1, 0, None, "append")
  BY LimitMoves
<1>4. PICK s \in Seq(Records) : s = Cached
  BY CachedLength
<1>5. PICK m \in 1..(Len(s) + 1) : Newest(s) = SubSeq(s, m, Len(s))
  BY NewestIsSuffix
<1>6. \A j \in m..Len(s) : delivered[s[j]] = 0
  BY <1>2, <1>4, LinesOf DEF Fresh
<1>7. Fresh(Newest(Cached), delivered)
  BY <1>4, <1>5, <1>6, FreshSuffix
<1>8. TakenOnce' /\ Fresh(Cached', delivered')
  BY <1>1, <1>2 DEF TakenOnce, Cached
<1>9. Once(c)'
  BY <1>1, <1>3, <1>7 DEF Moved, Fields, Once, HasRecord, Rewriting, Out
<1> QED
  BY <1>2, <1>3, <1>8, <1>9, OnceStep DEF Moved

LEMMA CrashOnce ==
  ASSUME BaseInv, Crash
  PROVE  OnceInv'
  BY DEF BaseInv, Types, Crash, OnceInv

LEMMA StutterOnce ==
  ASSUME OnceInv, UNCHANGED uvars
  PROVE  OnceInv'
<1>1. ASSUME NEW c \in Callers PROVE (Once(c) => Once(c)') /\ (Replaying(c)' <=> Replaying(c))
  BY <1>1 DEF uvars, Once, HasRecord, Rewriting, Replaying, Out
<1>2. (TakenOnce => TakenOnce') /\ Cached' = Cached
  BY DEF uvars, TakenOnce, Cached
<1> QED
  BY <1>1, <1>2 DEF uvars, OnceInv

LEMMA StepOnce ==
  ASSUME BaseInv, AloneInv, OnceInv, [UNext]_uvars
  PROVE  OnceInv'
<1>1. ASSUME NEW c \in Callers, Call(c) \/ Step(c)
      PROVE  OnceInv'
  BY <1>1, CallOnce, HasPendingOnce, ReadOnce, ReplayOnce, TruncateOnce, OpenOnce, WriteOnce,
     RenameOnce, SendOnce, OpenAppendOnce, AppendOnce, LimitOnce DEF Step
<1> QED
  BY <1>1, StutterOnce, CrashOnce DEF UNext

LEMMA InitOnce ==
  ASSUME UInit
  PROVE  OnceInv
<1>1. \A c \in Callers : Once(c)
  BY IdleFields DEF UInit, Fields, Once, HasRecord, Rewriting
<1>2. Cached = <<>>
  BY ConstantsTyped DEF UInit, Cached
<1>3. Fresh(<<>>, delivered)
  BY DEF Fresh
<1>4. TakenOnce
  BY DEF UInit, TakenOnce
<1> QED
  BY <1>1, <1>2, <1>3, <1>4 DEF OnceInv

(* The inner uploader takes a record twice only if two calls overlapped or *)
(* a crash came between its replay and the rewrite of the file.            *)
THEOREM TakenTwiceOnlyAfterCrash == USpec => []TwiceOnlyAfterCrash
<1>1. USpec => [](BaseInv /\ AloneInv /\ OnceInv)
  BY InitBase, StepBase, InitAlone, StepAlone, InitOnce, StepOnce, PTL DEF USpec
<1>2. ASSUME BaseInv, OnceInv PROVE TwiceOnlyAfterCrash
  <2> SUFFICES ASSUME NEW r \in Records, delivered[r] > 1, ~overlap, ~(crashes > 0) PROVE FALSE
    BY <1>2 DEF TwiceOnlyAfterCrash, BaseInv, Types
  <2>1. crashes = 0
    BY <1>2, ConstantsTyped DEF BaseInv, Types
  <2>2. delivered[r] <= 1 /\ delivered[r] \in 0..2
    BY <1>2, <2>1 DEF OnceInv, TakenOnce, BaseInv, Types
  <2> QED
    BY <2>2
<1> QED
  BY <1>1, <1>2, PTL
=============================================================================
