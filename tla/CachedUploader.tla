---------------------------- MODULE CachedUploader ---------------------------
(***************************************************************************)
(* The disk queue in front of the gateway's TCP or MQTT uploader           *)
(* (cached_uploader.cpp).  A record that cannot be handed on is appended   *)
(* to a cache file; every later call replays the file first.               *)
(*                                                                         *)
(* The uploader thread, the statistics thread, the heartbeat thread and    *)
(* the executors of OTA tasks call one CachedUploader, and it has no lock. *)
(* The file is shared through the file system: opening a file for writing, *)
(* reading or writing it as a whole and renaming it are atomic, and what   *)
(* was opened before a rename is still the renamed file.  A call that      *)
(* finds the disk full, and lines that do not decode, are left out.        *)
(***************************************************************************)
EXTENDS Naturals, Sequences, FiniteSets

CONSTANTS
  Callers,     \* threads that upload
  MaxLines,    \* disk_cache_max_lines, 0: no limit
  Batch,       \* replay_batch_size, 0: no limit
  MaxCalls,    \* bound: calls, each with a record of its own
  MaxCrashes   \* bound: crashes of the gateway

ASSUME CachedUploaderAssumption ==
  /\ IsFiniteSet(Callers)
  /\ MaxLines \in Nat /\ Batch \in Nat /\ MaxCalls \in Nat /\ MaxCrashes \in Nat

Records == 1..MaxCalls                \* numbered in the order of the calls
Inodes == 0..(Cardinality(Callers) + 1)
None == Cardinality(Callers) + 2      \* no inode

VARIABLES
  content,     \* content[n]: the lines of the file with inode n
  cache,       \* the inode cache_file_ names
  tmp,         \* the inode cache_file_ + ".tmp" names, or None
  call,        \* call[c]: the call of thread c
  calls,       \* calls made: the number of the last record
  crashes,     \* bound: crashes
  delivered,   \* history: how often the inner uploader took a record, up to 2
  kept,        \* history: records whose line was written
  dropped,     \* history: records the limit removed
  overlap      \* history: two calls were under way at once

uvars == <<content, cache, tmp, call, calls, crashes, delivered, kept, dropped, overlap>>
files == <<content, cache, tmp>>
history == <<delivered, kept, dropped, overlap>>

Idle == [pc |-> "idle", rec |-> 0, lines |-> <<>>, k |-> 1, sent |-> 0, fd |-> None, for |-> "flush"]
Places == {"idle", "pending", "read", "replay", "truncate", "open", "write", "rename", "send",
           "append", "line", "limit"}

Lines(s) == {s[k] : k \in DOMAIN s}
Cached == content[cache]

UInit ==
  /\ content = [n \in Inodes |-> <<>>]
  /\ cache = 0 /\ tmp = None
  /\ call = [c \in Callers |-> Idle]
  /\ calls = 0 /\ crashes = 0
  /\ delivered = [r \in Records |-> 0]
  /\ kept = {} /\ dropped = {}
  /\ overlap = FALSE

At(c, pc) == call[c].pc = pc
Goto(c, pc) == call' = [call EXCEPT ![c].pc = pc]
Return(c) == call' = [call EXCEPT ![c] = Idle]

(* upload, uploadHeartbeat, uploadEvent, ...: only the inner uploader's    *)
(* method differs.                                                         *)
Call(c) ==
  /\ At(c, "idle")
  /\ calls < MaxCalls
  /\ calls' = calls + 1
  /\ call' = [call EXCEPT ![c] = [Idle EXCEPT !.pc = "pending", !.rec = calls + 1]]
  /\ overlap' = (overlap \/ \E d \in Callers : ~At(d, "idle"))
  /\ UNCHANGED <<files, crashes, delivered, kept, dropped>>

(* The inner uploader takes record r, or cannot: the network decides. *)
Take(r) == delivered' = [delivered EXCEPT ![r] = IF @ < 2 THEN @ + 1 ELSE 2]

(***************************************************************************)
(* flushPending                                                            *)
(***************************************************************************)

(* hasPending *)
HasPending(c) ==
  /\ At(c, "pending")
  /\ Goto(c, IF Cached = <<>> THEN "send" ELSE "read")
  /\ UNCHANGED <<files, calls, crashes, history>>

ReadPending(c) ==
  /\ At(c, "read")
  /\ call' = [call EXCEPT ![c] = [@ EXCEPT !.pc = "replay", !.lines = Cached]]
  /\ UNCHANGED <<files, calls, crashes, history>>

(* Mutant: the oldest lines stay. *)
Oldest(s) ==
  IF MaxLines = 0 \/ Len(s) <= MaxLines THEN s ELSE SubSeq(s, 1, MaxLines)

(* Mutant: one line too many stays. *)
NewestAndOne(s) ==
  IF MaxLines = 0 \/ Len(s) <= MaxLines + 2 THEN s ELSE SubSeq(s, Len(s) - MaxLines - 1, Len(s))

(* enforceCacheLimit: the oldest lines go. *)
Newest(s) ==
  IF MaxLines = 0 \/ Len(s) <= MaxLines THEN s ELSE SubSeq(s, Len(s) - MaxLines + 1, Len(s))

(* Mutant: the line that failed is not written back. *)
RewriteAfter(c) ==
  LET rest == SubSeq(call[c].lines, call[c].k + 1, Len(call[c].lines)) IN
  /\ call' = [call EXCEPT ![c] = [Idle EXCEPT !.pc = "open", !.rec = call[c].rec, !.lines = Newest(rest)]]
  /\ dropped' = dropped \cup (Lines(rest) \ Lines(Newest(rest)))

(* rewriteFrom(lines, k), up to its rewriteAll. *)
Rest(c) == Newest(SubSeq(call[c].lines, call[c].k, Len(call[c].lines)))
RewriteFrom(c) ==
  /\ call' = [call EXCEPT ![c] = [Idle EXCEPT !.pc = "open", !.rec = call[c].rec, !.lines = Rest(c)]]
  /\ dropped' = dropped \cup
       (Lines(SubSeq(call[c].lines, call[c].k, Len(call[c].lines))) \ Lines(Rest(c)))

BatchFull(c) == Batch > 0 /\ call[c].sent >= Batch

(* One iteration of the replay loop, or its end. *)
Replay(c) ==
  LET k == call[c].k IN
  /\ At(c, "replay")
  /\ \/ /\ k > Len(call[c].lines)
        /\ call' = [call EXCEPT ![c] = [Idle EXCEPT !.pc = "truncate", !.rec = call[c].rec]]
        /\ UNCHANGED <<delivered, dropped>>
     \/ /\ k <= Len(call[c].lines)
        /\ BatchFull(c)
        /\ RewriteFrom(c)
        /\ UNCHANGED delivered
     \/ /\ k <= Len(call[c].lines)
        /\ ~BatchFull(c)
        /\ \/ /\ Take(call[c].lines[k])
              /\ call' = [call EXCEPT ![c].k = k + 1, ![c].sent = @ + 1]
              /\ UNCHANGED dropped
           \/ /\ RewriteFrom(c)
              /\ UNCHANGED delivered
  /\ UNCHANGED <<files, calls, crashes, kept, overlap>>

(* truncateFile *)
Truncate(c) ==
  /\ At(c, "truncate")
  /\ content' = [content EXCEPT ![cache] = <<>>]
  /\ Goto(c, "send")
  /\ UNCHANGED <<cache, tmp, calls, crashes, history>>

(***************************************************************************)
(* rewriteAll                                                              *)
(***************************************************************************)
Unused == {n \in Inodes : n # cache /\ n # tmp /\ \A c \in Callers : call[c].fd # n}

OpenTmp(c) ==
  LET n == IF tmp # None THEN tmp ELSE CHOOSE i \in Unused : TRUE IN
  /\ At(c, "open")
  /\ tmp' = n
  /\ content' = [content EXCEPT ![n] = <<>>]
  /\ call' = [call EXCEPT ![c] = [@ EXCEPT !.pc = "write", !.fd = n]]
  /\ UNCHANGED <<cache, calls, crashes, history>>

(* Written from the start of the file, whatever another writer of the same *)
(* file put there.                                                         *)
WriteTmp(c) ==
  LET new == call[c].lines
      old == content[call[c].fd] IN
  /\ At(c, "write")
  /\ content' = [content EXCEPT ![call[c].fd] = new \o SubSeq(old, Len(new) + 1, Len(old))]
  /\ call' = [call EXCEPT ![c] = [@ EXCEPT !.pc = "rename", !.lines = <<>>, !.fd = None]]
  /\ UNCHANGED <<cache, tmp, calls, crashes, history>>

(* Mutant: the old cache file stays. *)
RenameLost(c) ==
  /\ At(c, "rename")
  /\ tmp' = None
  /\ IF call[c].for = "flush" THEN Goto(c, "send") ELSE Return(c)
  /\ UNCHANGED <<content, cache, calls, crashes, history>>

(* The rename fails if another thread has already renamed the file. *)
Rename(c) ==
  /\ At(c, "rename")
  /\ tmp' = None
  /\ cache' = IF tmp # None THEN tmp ELSE cache
  /\ IF call[c].for = "flush" THEN Goto(c, IF tmp # None THEN "send" ELSE "append") ELSE Return(c)
  /\ UNCHANGED <<content, calls, crashes, history>>

(***************************************************************************)
(* uploadSensorLike, uploadPayloadLike                                     *)
(***************************************************************************)
Send(c) ==
  /\ At(c, "send")
  /\ \/ Take(call[c].rec) /\ Return(c)
     \/ Goto(c, "append") /\ UNCHANGED delivered
  /\ UNCHANGED <<files, calls, crashes, kept, dropped, overlap>>

(* appendPendingSensor, appendPendingPayload: open, write the line. *)
OpenAppend(c) ==
  /\ At(c, "append")
  /\ call' = [call EXCEPT ![c] = [@ EXCEPT !.pc = "line", !.fd = cache]]
  /\ UNCHANGED <<files, calls, crashes, history>>

AppendLine(c) ==
  /\ At(c, "line")
  /\ content' = [content EXCEPT ![call[c].fd] = Append(@, call[c].rec)]
  /\ kept' = kept \cup {call[c].rec}
  /\ IF MaxLines > 0
     THEN call' = [call EXCEPT ![c] = [@ EXCEPT !.pc = "limit", !.fd = None]]
     ELSE Return(c)
  /\ UNCHANGED <<cache, tmp, calls, crashes, delivered, dropped, overlap>>

(* Read the file back, to write it again within the limit. *)
Limit(c) ==
  /\ At(c, "limit")
  /\ call' = [call EXCEPT ![c] =
                [Idle EXCEPT !.pc = "open", !.lines = Newest(Cached), !.for = "append"]]
  /\ dropped' = dropped \cup (Lines(Cached) \ Lines(Newest(Cached)))
  /\ UNCHANGED <<files, calls, crashes, delivered, kept, overlap>>

(* The process dies; the files stay, the temporary one too. *)
Crash ==
  /\ crashes < MaxCrashes
  /\ crashes' = crashes + 1
  /\ call' = [c \in Callers |-> Idle]
  /\ UNCHANGED <<files, calls, history>>

Step(c) ==
  \/ HasPending(c) \/ ReadPending(c) \/ Replay(c) \/ Truncate(c) \/ OpenTmp(c) \/ WriteTmp(c)
  \/ Rename(c) \/ Send(c) \/ OpenAppend(c) \/ AppendLine(c) \/ Limit(c)

UNext == (\E c \in Callers : Call(c) \/ Step(c)) \/ Crash
USpec == UInit /\ [][UNext]_uvars

(***************************************************************************)
(* Properties                                                              *)
(***************************************************************************)

(* Every variable stays in its range; a call replays a batch at most. *)
UTypeOK ==
  /\ content \in [Inodes -> Seq(Records)]
  /\ cache \in Inodes /\ tmp \in Inodes \cup {None}
  /\ \A c \in Callers :
       /\ call[c].pc \in Places /\ call[c].rec \in Records \cup {0}
       /\ call[c].lines \in Seq(Records) /\ call[c].k \in 1..(Len(call[c].lines) + 1)
       /\ Batch > 0 => call[c].sent <= Batch
       /\ call[c].fd \in Inodes \cup {None}
  /\ calls \in 0..MaxCalls /\ crashes \in 0..MaxCrashes
  /\ delivered \in [Records -> 0..2]
  /\ kept \subseteq Records /\ dropped \subseteq Records

(* A record that was written to the cache is there, or the inner uploader  *)
(* took it, or the limit dropped it.                                       *)
Accounted == \A r \in kept : delivered[r] > 0 \/ r \in Lines(Cached) \/ r \in dropped

(* serial-gateway/README.md:10, "失败落盘缓存、重连后自动补发": what failed  *)
(* is cached and sent again later.                                         *)
NothingLost == Accounted

(* What holds: nothing is lost, crashes included, as long as no two calls  *)
(* were under way at once.                                                 *)
NothingLostAlone == ~overlap => Accounted

(* The cache stays in the order of the calls and the limit drops only      *)
(* records older than those it leaves, as long as calls did not overlap.   *)
CacheInOrder ==
  ~overlap =>
    /\ \A j, k \in DOMAIN Cached : j < k => Cached[j] < Cached[k]
    /\ \A r \in dropped \ Lines(Cached), s \in Lines(Cached) : r < s

(* Without overlapping calls a record is handed on twice only because a    *)
(* crash came between its replay and the rewrite of the file.              *)
TwiceOnlyAfterCrash ==
  \A r \in Records : delivered[r] > 1 => overlap \/ crashes > 0

(* However many threads append, replay and rewrite at once, and although   *)
(* they overwrite each other's temporary file, the cache never outgrows    *)
(* its limit by more than a line per thread.                               *)
CacheBounded ==
  MaxLines > 0 => Len(Cached) <= MaxLines + Cardinality(Callers)
==============================================================================
