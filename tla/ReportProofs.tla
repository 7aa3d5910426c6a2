----------------------------- MODULE ReportProofs ----------------------------
(***************************************************************************)
(* Four properties of the STM32's report path for a table, a cache and     *)
(* numbers of any size.  Two hold whatever happens to the cache: a cached  *)
(* record is in flight at most once, and an acknowledgement takes out a    *)
(* record only when a report of its number was received.  They need not    *)
(* know where head and tail of the cache are, or what a rescan finds:      *)
(* every way a record gets into the table or out of the cache looks at the *)
(* table first.  The other two hold while nothing disturbs the cache: it   *)
(* is a log then, and head, tail and counter are places in it.             *)
(***************************************************************************)
EXTENDS ReportPath, FiniteSetTheorems, WellFoundedInduction, TLAPS

(* The table has its places, and acknowledgements are for what was         *)
(* received.                                                               *)
Plain == DOMAIN pending = Slots /\ pending = [i \in Slots |-> pending[i]] /\ acks \subseteq received

RInv == Plain /\ OneInFlight

(* A table has a first place: gw_pending_enqueue and the search for an     *)
(* acknowledged number find it.                                            *)
LEMMA LowestIn ==
  ASSUME NEW S \in SUBSET Nat, S # {}
  PROVE  Lowest(S) \in S /\ \A i \in S : Lowest(S) <= i
<1>1. \E i \in S : \A j \in S : ~(j < i)
  <2> DEFINE R == OpToRel(<, Nat)
  <2>1. IsWellFoundedOn(R, Nat)
    BY NatLessThanWellFounded
  <2>2. IsWellFoundedOn(R, S)
    BY <2>1, IsWellFoundedOnSubset
  <2>3. PICK i \in S : \A j \in S : <<j, i>> \notin R
    <3> HIDE DEF R
    <3> QED
      BY <2>2, WFMin
  <2>4. \A j \in S : j < i => <<j, i>> \in R
    BY DEF OpToRel
  <2> QED
    BY <2>3, <2>4
<1>2. \E i \in S : \A j \in S : i <= j
  BY <1>1, SMT
<1> QED
  BY <1>2 DEF Lowest

(***************************************************************************)
(* What an operation may do to the table                                   *)
(***************************************************************************)

(* Entries that leave the table, or are no replays, disturb nobody. *)
LEMMA FewerReplays ==
  ASSUME OneInFlight,
         \A i \in Slots : pending'[i] # Free /\ pending'[i].replay => pending'[i] = pending[i]
  PROVE  OneInFlight'
  BY DEF OneInFlight, Active

(* A record that is not in flight may be sent. *)
LEMMA OneMore ==
  ASSUME Plain, OneInFlight, NEW r, ~InFlight(r), NEW k,
         pending' = [pending EXCEPT ![k] = [report |-> r, replay |-> TRUE, abnormal |-> TRUE]]
  PROVE  OneInFlight'
<1> SUFFICES ASSUME NEW i \in Slots, NEW j \in Slots, i # j,
                    pending'[i] # Free, pending'[i].replay, pending'[j] # Free, pending'[j].replay
             PROVE  pending'[i].report # pending'[j].report
  BY DEF OneInFlight, Active
<1>1. ASSUME NEW s \in Slots, s # k PROVE pending'[s] = pending[s]
  BY <1>1 DEF Plain
<1>2. ASSUME k \in Slots PROVE pending'[k].report = r
  BY <1>2 DEF Plain
<1>3. CASE i # k /\ j # k
  BY <1>1, <1>3 DEF OneInFlight, Active
<1>4. CASE i = k
  BY <1>1, <1>2, <1>4 DEF InFlight, Active
<1>5. CASE j = k
  BY <1>1, <1>2, <1>5 DEF InFlight, Active
<1> QED
  BY <1>3, <1>4, <1>5

LEMMA InitInv == RInit => RInv
  BY DEF RInit, RInv, Plain, OneInFlight, Active

LEMMA ReportKeeps == ASSUME RInv, NEW a \in BOOLEAN, Report(a) PROVE RInv'
<1>1. PICK late, r, k, e :
        /\ e.replay = FALSE
        /\ pending' \in {Expired(late), [Expired(late) EXCEPT ![k] = e]}
        /\ Line(r) \/ UNCHANGED <<received, acks>>
  <2> DEFINE r == <<boot, seq + 1>>
  <2>1. PICK late \in SUBSET Active :
          /\ pending' \in {Expired(late),
                           Enqueued(Expired(late), [report |-> r, replay |-> FALSE, abnormal |-> a])}
          /\ Line(r) \/ UNCHANGED <<received, acks>>
    BY DEF Report
  <2> QED
    BY <2>1 DEF Enqueued
<1>2. Plain'
  BY <1>1 DEF RInv, Plain, Expired, Line
<1>3. \A i \in Slots : pending'[i] # Free /\ pending'[i].replay => pending'[i] = pending[i]
  BY <1>1 DEF Expired, Free
<1> QED
  BY <1>2, <1>3, FewerReplays DEF RInv

LEMMA QuietKeeps == ASSUME RInv, NEW late \in SUBSET Active, QuietReport(late) PROVE RInv'
<1>1. Plain'
  BY DEF RInv, Plain, QuietReport, Expired
<1>2. \A i \in Slots : pending'[i] # Free => pending'[i] = pending[i]
  BY DEF QuietReport, Expired
<1> QED
  BY <1>1, <1>2, FewerReplays DEF RInv

LEMMA AckKeeps == ASSUME RInv, NEW q, NEW how, HandleAck(q, how) PROVE RInv'
<1>1. PICK k : pending' \in {pending, [pending EXCEPT ![k] = Free]}
  BY DEF HandleAck
<1>2. acks' \subseteq acks /\ received' = received
  BY DEF HandleAck
<1>3. Plain'
  BY <1>1, <1>2 DEF RInv, Plain
<1>4. \A i \in Slots : pending'[i] # Free => pending'[i] = pending[i]
  BY <1>1 DEF RInv, Plain
<1> QED
  BY <1>3, <1>4, FewerReplays DEF RInv

LEMMA ReplayKeeps == ASSUME RInv, NEW how, Replay(how) PROVE RInv'
<1>1. CASE UNCHANGED <<pending, received, acks>>
  BY <1>1 DEF RInv, Plain, OneInFlight, Active
<1>2. ASSUME NEW r, NEW p, ~InFlight(r), ReplaySend(r, p) PROVE RInv'
  <2>1. PICK k : pending' \in {pending,
                   [pending EXCEPT ![k] = [report |-> r, replay |-> TRUE, abnormal |-> TRUE]]}
    BY <1>2 DEF ReplaySend, Enqueued
  <2>2. Plain'
    BY <1>2, <2>1 DEF ReplaySend, Line, RInv, Plain
  <2>3. CASE pending' = pending
    BY <2>2, <2>3 DEF RInv, OneInFlight, Active
  <2>4. CASE pending' # pending
    BY <1>2, <2>1, <2>2, <2>4, OneMore DEF RInv
  <2> QED
    BY <2>3, <2>4
<1>3. \/ UNCHANGED <<pending, received, acks>>
      \/ \E r, p : ~InFlight(r) /\ ReplaySend(r, p)
  BY DEF Replay, Rescan
<1> QED
  BY <1>1, <1>2, <1>3

LEMMA StepKeeps == ASSUME RInv, [RNext]_rvars PROVE RInv'
<1>1. CASE UNCHANGED <<pending, received, acks>>
  BY <1>1 DEF RInv, Plain, OneInFlight, Active
<1>2. CASE Restart
  BY <1>2, FewerReplays DEF Restart, RInv, Plain
<1>3. ASSUME NEW q \in 1..MaxSeq, LoseAck(q) PROVE RInv'
  BY <1>3 DEF LoseAck, RInv, Plain, OneInFlight, Active
<1>4. CASE Storage \/ OtherTaskLogs \/ UNCHANGED rvars
  BY <1>1, <1>4 DEF Storage, OtherTaskLogs, gwVars, rvars
<1> QED
  BY <1>2, <1>3, <1>4, ReportKeeps, QuietKeeps, AckKeeps, ReplayKeeps DEF RNext

(* Table, acknowledgements and flights stay as described, whatever the two *)
(* tasks and the line do.                                                  *)
THEOREM RAlways == RSpec => []RInv
  BY InitInv, StepKeeps, PTL DEF RSpec

(***************************************************************************)
(* Results                                                                 *)
(***************************************************************************)

(* gw_pending_find_replay_cache_seq before every send: a cached record is  *)
(* in flight once, for any size of the table and whatever rescans, resets  *)
(* and late acknowledgements do to the head of the cache.                  *)
THEOREM InFlightOnce == RSpec => []OneInFlight
<1>1. RInv => OneInFlight
  BY DEF RInv
<1> QED
  BY <1>1, RAlways, PTL

LEMMA AckTakesOne ==
  ASSUME RInv, NEW q, NEW how, HandleAck(q, how), NEW r \in owed \ owed'
  PROVE  r[2] \in received
<1> DEFINE found == {i \in Active : pending[i].report[2] = q}
           e == pending[Lowest(found)]
<1>1. q \in acks /\ found # {} /\ e.report = HeaderAt(rd) /\ r = HeaderAt(rd)
  BY DEF HandleAck, MarksAck
<1>2. found \in SUBSET Nat
  <2>1. Cardinality(Slots) \in Nat /\ Slots = 1..Cardinality(Slots)
    BY ReportAssumption, FS_CardinalityType
  <2>2. Slots \subseteq Nat
    BY <2>1, SMT
  <2> QED
    BY <2>2 DEF Active
<1>3. Lowest(found) \in found
  BY <1>1, <1>2, LowestIn
<1>4. e.report[2] = q
  BY <1>3
<1> QED
  BY <1>1, <1>4 DEF RInv, Plain

(* gw_process_report_ack: records leave the cache as acknowledged only     *)
(* when a report of their number was received.                             *)
THEOREM TakenWasReceived == RSpec => AckedWasReceived
<1>1. RInv /\ [RNext]_rvars => [\A r \in owed \ owed' : r[2] \in received]_rvars
  <2> SUFFICES ASSUME RInv, RNext, NEW r \in owed \ owed' PROVE r[2] \in received
    OBVIOUS
  <2>1. ASSUME owed \subseteq owed' PROVE FALSE
    BY <2>1
  <2>2. \E q \in 1..MaxSeq, how \in Ways : HandleAck(q, how)
    BY <2>1 DEF RNext, Storage, StorageStep, ScanRead, ScanCounted, EventWritten, Receive, Wrapped,
       Check, Erase, Program, Verify, Count, Report, QuietReport, LoseAck, cacheVars, Replay,
       OtherTaskLogs, WriteEvent, Restart, CReset
  <2> QED
    BY <2>2, AckTakesOne
<1> QED
  BY <1>1, RAlways, PTL DEF RSpec, AckedWasReceived

(***************************************************************************)
(* The cache while nothing disturbed it                                    *)
(***************************************************************************)

(* From the start of the region n whole records, then nothing. *)
Log(n) ==
  /\ n * RecUnits <= Units
  /\ \A k \in Nat : k < n => ValidAt(k * RecUnits)
  /\ \A u \in Addrs : u >= n * RecUnits => flash[u] = Blank

(* The head is record j, and the counter counts from there to record c. *)
Counted(j, c) ==
  /\ j <= c /\ backlog = c - j
  /\ rd = IF j * RecUnits = Units THEN 0 ELSE j * RecUnits

(* What is owed is among the records from j to m. *)
OwedIn(j, m) ==
  \A r \in owed : \E k \in Nat : j <= k /\ k < m /\ HeaderAt(k * RecUnits) = r

(* What the storage task is in the middle of, with n records in the region *)
(* of which c are counted or passed over.                                  *)
Doing(n, c) ==
  /\ ~st.spoiled
  /\ \/ st.pc = "scan" /\ st.addr = c * RecUnits /\ c <= n
     \/ st.pc = "scancount" /\ st.addr = c * RecUnits /\ c < n /\ st.tmp = backlog
     \/ st.pc \in {"event", "idle"} /\ wr = n * RecUnits /\ c = n
     \/ /\ st.pc \in {"check", "program"}
        /\ wr = n * RecUnits /\ c = n
        /\ st.addr = wr /\ Fits(wr) /\ st.msg # None
     \/ /\ st.pc = "verify"
        /\ wr = c * RecUnits /\ n = c + 1
        /\ st.addr = wr /\ HeaderAt(c * RecUnits) = st.msg
     \/ /\ st.pc = "count"
        /\ wr = n * RecUnits /\ n = c + 1
        /\ st.tmp = backlog /\ HeaderAt(c * RecUnits) = st.msg

Shape ==
  /\ st = [pc |-> st.pc, msg |-> st.msg, addr |-> st.addr, tmp |-> st.tmp,
           spoiled |-> st.spoiled]
  /\ flash = [u \in Addrs |-> flash[u]]
  /\ disturbed \in BOOLEAN

Scanning == st.pc \in {"scan", "scancount"}

Undisturbed(n, c, j) ==
  /\ Log(n) /\ Counted(j, c) /\ Doing(n, c)
  /\ OwedIn(j, IF Scanning THEN n ELSE c)

KInv == Shape /\ (~disturbed => \E n, c, j \in Nat : Undisturbed(n, c, j))

(* Records one after another in the region. *)
LEMMA RecordsApart ==
  ASSUME NEW a \in Nat, NEW b \in Nat, NEW r \in Nat \ {0}
  PROVE  /\ a * r \in Nat /\ (a + 1) * r = a * r + r
         /\ a < b => a * r + r <= b * r
         /\ a <= b => a * r <= b * r
         /\ a * r < b * r => a < b
         /\ a * r = b * r => a = b
<1>1. a * r \in Nat /\ b * r \in Nat /\ (a + 1) * r = a * r + r
  BY SMT
<1>2. ASSUME NEW x \in Nat, NEW y \in Nat, x < y PROVE x * r + r <= y * r
  <2>1. PICK d \in Nat : y = x + 1 + d
    <3>1. y - (x + 1) \in Nat /\ y = x + 1 + (y - (x + 1))
      BY <1>2, SMT
    <3> QED
      BY <3>1
  <2>2. (x + 1 + d) * r = x * r + r + d * r
    BY SMT
  <2>3. d * r >= 0
    BY SMT
  <2>4. x * r \in Nat /\ d * r \in Nat
    BY SMT
  <2> QED
    BY <2>1, <2>2, <2>3, <2>4, SMT
<1>3. a < b => a * r + r <= b * r
  BY <1>2
<1>4. b < a => b * r + r <= a * r
  BY <1>2
<1>5. a <= b => a * r <= b * r
  <2>1. CASE a = b
    BY <1>1, <2>1, SMT
  <2>2. CASE a < b
    BY <1>1, <1>3, <2>2, SMT
  <2> QED
    BY <2>1, <2>2, SMT
<1>6. a < b \/ a = b \/ b < a
  BY SMT
<1> QED
  BY <1>1, <1>3, <1>4, <1>5, <1>6, SMT

LEMMA Sizes ==
  /\ RecUnits \in Nat \ {0} /\ RecUnits >= 2
  /\ Units \in Nat \ {0} /\ RecUnits <= Units
  BY CacheAssumption, SMT

(* Whether a record is valid, and of which report, is told by its units. *)
LEMMA SameRecord ==
  ASSUME NEW a \in Nat, \A u \in Span(a) : flash'[u] = flash[u]
  PROVE  HeaderAt(a)' = HeaderAt(a) /\ (ValidAt(a) => ValidAt(a)')
<1>1. a \in Span(a)
  BY Sizes, SMT DEF Span
<1>2. HeaderAt(a)' = HeaderAt(a)
  BY <1>1 DEF HeaderAt
<1>3. ASSUME Readable(a) PROVE Readable(a)'
  BY <1>2, <1>3 DEF Readable
<1> QED
  BY <1>2, <1>3 DEF ValidAt

(* The records of a log end before its end. *)
LEMMA WithinLog ==
  ASSUME NEW n \in Nat, n * RecUnits <= Units, NEW k \in Nat, k < n
  PROVE  /\ k * RecUnits \in Nat /\ k * RecUnits + RecUnits <= n * RecUnits
         /\ Fits(k * RecUnits)
         /\ \A u \in Span(k * RecUnits) : u \in Addrs /\ u < n * RecUnits
<1>1. k * RecUnits \in Nat /\ n * RecUnits \in Nat /\ k * RecUnits + RecUnits <= n * RecUnits
  BY Sizes, RecordsApart
<1> DEFINE a == k * RecUnits
           e == n * RecUnits
<1> HIDE DEF a, e
<1>2. a \in Nat /\ e \in Nat /\ a + RecUnits <= e /\ e <= Units
  BY <1>1 DEF a, e
<1>3. Fits(a) /\ \A u \in Span(a) : u \in Addrs /\ u < e
  BY <1>2, Sizes, SMT DEF Fits, Span, Addrs
<1> QED
  BY <1>1, <1>3 DEF a, e

(* Behind the last record there is none. *)
LEMMA NoMore ==
  ASSUME NEW n \in Nat, Log(n)
  PROVE  ~ValidAt(n * RecUnits)
<1> SUFFICES ASSUME Fits(n * RecUnits) PROVE HeaderAt(n * RecUnits) = None
  BY DEF ValidAt
<1>1. n * RecUnits \in Nat
  BY Sizes, RecordsApart
<1>2. n * RecUnits \in Addrs
  BY <1>1, Sizes, SMT DEF Fits, Addrs
<1>3. flash[n * RecUnits] = Blank
  BY <1>1, <1>2, SMT DEF Log
<1> QED
  BY <1>3, SMT DEF HeaderAt, Blank

(* The log keeps its records when only blank units are written. *)
LEMMA LogKept ==
  ASSUME NEW n \in Nat, Log(n), \A u \in Addrs : u < n * RecUnits => flash'[u] = flash[u]
  PROVE  \A k \in Nat : k < n =>
           ValidAt(k * RecUnits)' /\ HeaderAt(k * RecUnits)' = HeaderAt(k * RecUnits)
<1> SUFFICES ASSUME NEW k \in Nat, k < n
    PROVE ValidAt(k * RecUnits)' /\ HeaderAt(k * RecUnits)' = HeaderAt(k * RecUnits)
  OBVIOUS
<1>1. k * RecUnits \in Nat /\ \A u \in Span(k * RecUnits) : u \in Addrs /\ u < n * RecUnits
  BY WithinLog DEF Log
<1>2. ValidAt(k * RecUnits)
  BY DEF Log
<1>3. ASSUME NEW a \in Nat, a = k * RecUnits PROVE ValidAt(a)' /\ HeaderAt(a)' = HeaderAt(a)
  BY <1>1, <1>2, <1>3, SameRecord
<1> QED
  BY <1>1, <1>3

(* What the gateway task finds at the head. *)
LEMMA AtHead ==
  ASSUME NEW n \in Nat, NEW c \in Nat, NEW j \in Nat, Log(n), c <= n, Counted(j, c), backlog # 0
  PROVE  j < c /\ j < n /\ rd = j * RecUnits /\ ValidAt(rd) /\ rd \in Nat
<1>1. j < c /\ j < n
  BY SMT DEF Counted
<1>2. j * RecUnits \in Nat /\ j * RecUnits + RecUnits <= n * RecUnits
  BY <1>1, WithinLog DEF Log
<1>3. n * RecUnits <= Units /\ n * RecUnits \in Nat
  BY Sizes, RecordsApart DEF Log
<1> DEFINE a == j * RecUnits
           e == n * RecUnits
<1> HIDE DEF a, e
<1>4. a # Units
  <2>1. a \in Nat /\ a + RecUnits <= e /\ e <= Units /\ e \in Nat
    BY <1>2, <1>3 DEF a, e
  <2> QED
    BY <2>1, Sizes, SMT
<1>5. rd = j * RecUnits
  BY <1>4 DEF a, Counted
<1> QED
  BY <1>1, <1>2, <1>5 DEF Log

(* gw_try_replay_cache passes over nothing when the head can be read. *)
LEMMA SkipsNothing ==
  ASSUME ~Skips([rd |-> rd, backlog |-> backlog]), NEW m \in Nat
  PROVE  AfterSkips[m] = [rd |-> rd, backlog |-> backlog]
<1> DEFINE here == [rd |-> rd, backlog |-> backlog]
           Next(f, n) == IF n = 0 THEN here
                         ELSE LET p == f[n - 1] IN IF Skips(p) THEN Popped(p) ELSE p
           const == [n \in Nat |-> here]
<1>1. const = [n \in Nat |-> Next(const, n)]
  <2>1. ASSUME NEW n \in Nat PROVE Next(const, n) = here
    <3>1. CASE n = 0
      BY <3>1
    <3>2. CASE n # 0
      <4>1. n - 1 \in Nat
        BY <3>2, SMT
      <4>2. const[n - 1] = here
        BY <4>1
      <4> QED
        BY <3>2, <4>2
    <3> QED
      BY <3>1, <3>2
  <2> QED
    BY <2>1, Zenon
<1>2. AfterSkips = CHOOSE f : f = [n \in Nat |-> Next(f, n)]
  BY Zenon DEF AfterSkips
<1>3. AfterSkips = [n \in Nat |-> Next(AfterSkips, n)]
  <2> HIDE DEF Next, const
  <2> QED
    BY <1>1, <1>2, Zenon
<1>4. \A n \in Nat : AfterSkips[n] = Next(AfterSkips, n)
  <2> HIDE DEF Next
  <2> QED
    BY <1>3, Zenon
<1> DEFINE Wrong == {n \in Nat : AfterSkips[n] # here}
<1>5. SUFFICES ASSUME Wrong # {} PROVE FALSE
  BY DEF Wrong
<1>6. Lowest(Wrong) \in Wrong /\ \A i \in Wrong : Lowest(Wrong) <= i
  BY <1>5, LowestIn
<1>7. PICK l \in Wrong : \A i \in Wrong : l <= i
  BY <1>6
<1>8. l # 0
  BY <1>4, <1>7
<1>9. l - 1 \in Nat /\ l - 1 \notin Wrong
  BY <1>7, <1>8, SMT
<1>10. AfterSkips[l - 1] = here
  BY <1>9
<1>11. AfterSkips[l] = here
  BY <1>4, <1>7, <1>8, <1>10
<1> QED
  BY <1>7, <1>11

LEMMA KInit == RInit => KInv
<1> SUFFICES ASSUME RInit PROVE KInv
  OBVIOUS
<1>1. Shape
  BY DEF RInit, CInit, Shape, Starting, Idle
<1>2. 0 * RecUnits = 0
  BY Sizes, SMT
<1>3. Log(0)
  BY <1>2, Sizes, SMT DEF Log, RInit, CInit, Blank
<1>4. Counted(0, 0)
  BY <1>2, Sizes, SMT DEF Counted, RInit, CInit
<1>5. Doing(0, 0) /\ Scanning /\ OwedIn(0, 0)
  BY <1>2, Sizes, SMT DEF Doing, Scanning, OwedIn, RInit, CInit, Starting, Idle
<1>6. Undisturbed(0, 0, 0)
  BY <1>3, <1>4, <1>5 DEF Undisturbed
<1> QED
  BY <1>1, <1>6, SMT DEF KInv

(***************************************************************************)
(* The storage task                                                        *)
(***************************************************************************)

LEMMA ScanReadKeeps ==
  ASSUME Shape, NEW n \in Nat, NEW c \in Nat, NEW j \in Nat, Undisturbed(n, c, j), ScanRead
  PROVE  Undisturbed(n, c, j)'
<1>1. ~st.spoiled /\ st.pc = "scan" /\ st.addr = c * RecUnits /\ c <= n
  BY DEF ScanRead, Undisturbed, Doing
<1>2. Log(n)' /\ Counted(j, c)'
  BY DEF ScanRead, Undisturbed, Log, Counted, ValidAt, Fits, HeaderAt, Readable
<1>3. OwedIn(j, n)'
  BY <1>1 DEF ScanRead, Undisturbed, OwedIn, HeaderAt, Scanning
<1>4. CASE ValidAt(st.addr)
  <2>1. /\ st'.pc = "scancount" /\ st'.addr = st.addr /\ st'.tmp = backlog /\ ~st'.spoiled
        /\ backlog' = backlog
    BY <1>1, <1>4 DEF ScanRead, At, Shape
  <2>2. c # n
    BY <1>1, <1>4, NoMore DEF Undisturbed
  <2>3. c < n
    BY <1>1, <2>2, SMT
  <2>4. Doing(n, c)'
    BY <1>1, <2>1, <2>3 DEF Doing
  <2> QED
    BY <1>2, <1>3, <2>1, <2>4 DEF Undisturbed, Scanning
<1>5. CASE ~ValidAt(st.addr)
  <2>1. st'.pc = "event" /\ wr' = st.addr /\ ~st'.spoiled
    BY <1>1, <1>5 DEF ScanRead, Idle
  <2>2. ~(c < n)
    BY <1>1, <1>5 DEF Undisturbed, Log
  <2>3. c = n
    BY <1>1, <2>2, SMT
  <2>4. Doing(n, c)'
    BY <1>1, <2>1, <2>3 DEF Doing
  <2> QED
    BY <1>2, <1>3, <2>1, <2>3, <2>4 DEF Undisturbed, Scanning
<1> QED
  BY <1>4, <1>5

LEMMA ScanCountedKeeps ==
  ASSUME Shape, NEW n \in Nat, NEW c \in Nat, NEW j \in Nat, Undisturbed(n, c, j), ScanCounted
  PROVE  Undisturbed(n, c + 1, j)'
<1>1. /\ ~st.spoiled /\ st.pc = "scancount" /\ st.addr = c * RecUnits /\ c < n
      /\ st.tmp = backlog
  BY DEF ScanCounted, Undisturbed, Doing
<1>2. Log(n)'
  BY DEF ScanCounted, Undisturbed, Log, ValidAt, Fits, HeaderAt, Readable
<1>3. OwedIn(j, n)'
  BY <1>1 DEF ScanCounted, Undisturbed, OwedIn, HeaderAt, Scanning
<1>4. /\ st'.pc = "scan" /\ st'.addr = st.addr + RecUnits /\ ~st'.spoiled
      /\ backlog' = st.tmp + 1 /\ rd' = rd
  BY <1>1 DEF ScanCounted, At, Shape
<1>5. Counted(j, c + 1)'
  BY <1>1, <1>4, SMT DEF Undisturbed, Counted
<1>6. st'.addr = (c + 1) * RecUnits
  BY <1>1, <1>4, Sizes, RecordsApart
<1>7. c + 1 <= n
  BY <1>1, SMT
<1>8. Doing(n, c + 1)'
  BY <1>4, <1>6, <1>7 DEF Doing
<1> QED
  BY <1>2, <1>3, <1>4, <1>5, <1>8 DEF Undisturbed, Scanning

LEMMA EventKeeps ==
  ASSUME Shape, NEW n \in Nat, NEW c \in Nat, NEW j \in Nat, Undisturbed(n, c, j), EventWritten
  PROVE  Undisturbed(n, c, j)'
<1>1. st.pc = "event" /\ wr = n * RecUnits /\ c = n
  BY DEF EventWritten, Undisturbed, Doing
<1>2. Log(n)' /\ Counted(j, c)'
  BY DEF EventWritten, Undisturbed, Log, Counted, ValidAt, Fits, HeaderAt, Readable, ctxVars
<1>3. OwedIn(j, c)'
  BY <1>1 DEF EventWritten, Undisturbed, OwedIn, HeaderAt, Scanning, ctxVars
<1>4. st'.pc = "idle" /\ ~st'.spoiled /\ wr' = wr
  BY DEF EventWritten, Idle, ctxVars
<1>5. Doing(n, c)'
  BY <1>1, <1>4 DEF Doing
<1> QED
  BY <1>2, <1>3, <1>4, <1>5 DEF Undisturbed, Scanning

LEMMA ReceiveKeeps ==
  ASSUME Shape, NEW n \in Nat, NEW c \in Nat, NEW j \in Nat, Undisturbed(n, c, j), Receive,
         ~disturbed'
  PROVE  Undisturbed(n, c, j)'
<1>1. st.pc = "idle" /\ wr = n * RecUnits /\ c = n
  BY DEF Receive, Undisturbed, Doing
<1>2. /\ UNCHANGED <<flash, rd, wr, backlog, owed>> /\ ~st'.spoiled
      /\ \/ st'.pc = "event"
         \/ st'.pc = "check" /\ st'.msg # None /\ st'.addr = wr /\ wr + RecUnits <= Units
  BY DEF Receive, ctxVars, At, Shape, Event, None
<1>3. Log(n)' /\ Counted(j, c)'
  BY <1>2 DEF Undisturbed, Log, Counted, ValidAt, Fits, HeaderAt, Readable
<1>4. OwedIn(j, c)'
  BY <1>1, <1>2 DEF Undisturbed, OwedIn, HeaderAt, Scanning
<1>5. Doing(n, c)'
  BY <1>1, <1>2 DEF Doing, Fits
<1> QED
  BY <1>2, <1>3, <1>4, <1>5 DEF Undisturbed, Scanning

LEMMA CheckKeeps ==
  ASSUME Shape, NEW n \in Nat, NEW c \in Nat, NEW j \in Nat, Undisturbed(n, c, j), Check
  PROVE  Undisturbed(n, c, j)'
<1>1. /\ st.pc = "check" /\ wr = n * RecUnits /\ c = n /\ ~st.spoiled
      /\ st.addr = wr /\ Fits(wr) /\ st.msg # None
  BY DEF Check, Undisturbed, Doing
<1>2. \A u \in Span(st.addr) : flash[u] = Blank
  <2>1. n * RecUnits \in Nat
    BY Sizes, RecordsApart
  <2>2. \A u \in Span(st.addr) : u \in Addrs /\ u >= st.addr
    BY <1>1, <2>1, Sizes, SMT DEF Span, Fits, Addrs
  <2> QED
    BY <1>1, <2>2 DEF Undisturbed, Log
<1>3. /\ UNCHANGED <<flash, rd, wr, backlog, owed>> /\ ~st'.spoiled
      /\ st'.pc = "program" /\ st'.msg = st.msg /\ st'.addr = st.addr
  BY <1>1, <1>2 DEF Check, ctxVars, At, Shape
<1>4. Log(n)' /\ Counted(j, c)'
  BY <1>3 DEF Undisturbed, Log, Counted, ValidAt, Fits, HeaderAt, Readable
<1>5. OwedIn(j, c)'
  BY <1>1, <1>3 DEF Undisturbed, OwedIn, HeaderAt, Scanning
<1>6. Doing(n, c)'
  BY <1>1, <1>3 DEF Doing, Fits
<1> QED
  BY <1>3, <1>4, <1>5, <1>6 DEF Undisturbed, Scanning

LEMMA UnitFields ==
  ASSUME NEW x, NEW y, NEW v, v = [rec |-> x, part |-> y]
  PROVE  v.rec = x /\ v.part = y
  OBVIOUS

(* storage_cache_append programs a whole record behind the last one. *)
LEMMA ProgramKeeps ==
  ASSUME Shape, NEW n \in Nat, NEW c \in Nat, NEW j \in Nat, Undisturbed(n, c, j), Program
  PROVE  Undisturbed(n + 1, c, j)'
<1>1. /\ st.pc = "program" /\ wr = n * RecUnits /\ c = n /\ ~st.spoiled
      /\ st.addr = wr /\ Fits(wr) /\ st.msg # None
  BY DEF Program, Undisturbed, Doing
<1> DEFINE e == n * RecUnits
<1>2. e \in Nat /\ (n + 1) * RecUnits = e + RecUnits /\ e + RecUnits <= Units /\ n + 1 \in Nat
  BY <1>1, Sizes, RecordsApart, SMT DEF Fits
<1>3. st.addr = e
  BY <1>1
<1> HIDE DEF e
<1>4. \A u \in Span(e) : u \in Addrs /\ u >= e /\ u < e + RecUnits /\ u - e + 1 \in 1..RecUnits
  BY <1>2, Sizes, SMT DEF Span, Addrs
<1>5. \A u \in Addrs : u \notin Span(e) => u < e \/ u >= e + RecUnits
  BY <1>2, Sizes, SMT DEF Span, Addrs
<1>6. flash' = Programmed(e, st.msg, 1..RecUnits)
  BY <1>1, <1>3 DEF Program
<1>7. ASSUME NEW u \in Span(e) PROVE flash'[u] = [rec |-> st.msg, part |-> u - e + 1]
  <2>1. flash[u] = Blank
    BY <1>4 DEF e, Undisturbed, Log
  <2>2. u \in Addrs /\ u - e + 1 \in 1..RecUnits
    BY <1>4
  <2>3. flash'[u] = IF u \notin Span(e) \/ u - e + 1 \notin 1..RecUnits THEN flash[u]
                    ELSE IF flash[u] = Blank THEN [rec |-> st.msg, part |-> u - e + 1] ELSE Junk
    BY <1>6, <2>2, Zenon DEF Programmed
  <2> QED
    BY <2>1, <2>2, <2>3, Zenon
<1>8. ASSUME NEW u \in Addrs, u \notin Span(e) PROVE flash'[u] = flash[u]
  BY <1>6, <1>8, Zenon DEF Programmed
<1>9. e \in Span(e)
  BY <1>2, Sizes, SMT DEF Span
<1>10. flash'[e] = [rec |-> st.msg, part |-> 1]
  <2>1. e - e + 1 = 1
    BY <1>2, SMT
  <2> QED
    BY <1>7, <1>9, <2>1
<1>11. HeaderAt(e)' = st.msg
  BY <1>10 DEF HeaderAt
<1>12. Readable(e)'
  <2>1. ASSUME NEW u \in Span(e) PROVE flash'[u].rec = st.msg /\ flash'[u].part = u - e + 1
    <3>1. flash'[u] = [rec |-> st.msg, part |-> u - e + 1]
      BY <1>7
    <3> QED
      BY <3>1, UnitFields
  <2> QED
    BY <1>11, <2>1 DEF Readable
<1>13. ValidAt(e)'
  BY <1>1, <1>2, <1>11, <1>12 DEF ValidAt, Fits
<1>14. \A u \in Addrs : u < e => flash'[u] = flash[u]
  <2>1. ASSUME NEW u \in Addrs, u < e PROVE u \notin Span(e)
    <3>1. u \in Nat /\ ~(u >= e)
      BY <1>2, <2>1, SMT DEF Addrs
    <3> QED
      BY <1>4, <3>1
  <2> QED
    BY <1>8, <2>1
<1>15. \A k \in Nat : k < n =>
           ValidAt(k * RecUnits)' /\ HeaderAt(k * RecUnits)' = HeaderAt(k * RecUnits)
  <2>1. Log(n)
    BY DEF Undisturbed
  <2> QED
    BY <1>14, <2>1, LogKept DEF e
<1>16. Log(n + 1)'
  <2>1. (n + 1) * RecUnits <= Units
    BY <1>2
  <2>2. ASSUME NEW k \in Nat, k < n + 1 PROVE ValidAt(k * RecUnits)'
    <3>1. CASE k < n
      BY <1>15, <3>1
    <3>2. CASE k = n
      BY <1>13, <3>2 DEF e
    <3> QED
      BY <2>2, <3>1, <3>2, SMT
  <2>3. ASSUME NEW u \in Addrs, u >= (n + 1) * RecUnits PROVE flash'[u] = Blank
    <3>1. u >= e + RecUnits /\ u >= e
      BY <1>2, <2>3, Sizes, SMT DEF Addrs
    <3>2. u \notin Span(e)
      <4>1. ~(u < e + RecUnits)
        BY <1>2, <3>1, Sizes, SMT DEF Addrs
      <4> QED
        BY <1>4, <4>1
    <3>3. flash[u] = Blank
      BY <3>1 DEF e, Undisturbed, Log
    <3> QED
      BY <1>8, <3>2, <3>3
  <2> QED
    BY <2>1, <2>2, <2>3 DEF Log
<1>17. /\ UNCHANGED <<rd, wr, backlog, owed>> /\ ~st'.spoiled
       /\ st'.pc = "verify" /\ st'.msg = st.msg /\ st'.addr = st.addr
  BY <1>1 DEF Program, ctxVars, At, Shape
<1>18. Counted(j, c)'
  BY <1>17 DEF Undisturbed, Counted
<1>19. OwedIn(j, c)'
  <2>1. OwedIn(j, c)
    BY <1>1 DEF Undisturbed, Scanning
  <2> QED
    BY <1>1, <1>15, <1>17, <2>1 DEF OwedIn
<1>20. Doing(n + 1, c)'
  BY <1>1, <1>11, <1>17 DEF Doing, e
<1> QED
  BY <1>16, <1>17, <1>18, <1>19, <1>20 DEF Undisturbed, Scanning

LEMMA VerifyKeeps ==
  ASSUME Shape, NEW n \in Nat, NEW c \in Nat, NEW j \in Nat, Undisturbed(n, c, j), Verify
  PROVE  Undisturbed(n, c, j)'
<1>1. /\ st.pc = "verify" /\ wr = c * RecUnits /\ n = c + 1 /\ ~st.spoiled
      /\ st.addr = wr /\ HeaderAt(c * RecUnits) = st.msg
  BY DEF Verify, Undisturbed, Doing
<1>2. ValidAt(st.addr)
  <2>1. c < n
    BY <1>1, SMT
  <2> QED
    BY <1>1, <2>1 DEF Undisturbed, Log
<1>3. /\ UNCHANGED <<flash, rd, backlog, owed>> /\ ~st'.spoiled
      /\ st'.pc = "count" /\ st'.msg = st.msg /\ st'.tmp = backlog
      /\ wr' = c * RecUnits + RecUnits
  BY <1>1, <1>2 DEF Verify, At, Shape
<1>4. Log(n)' /\ Counted(j, c)'
  BY <1>3 DEF Undisturbed, Log, Counted, ValidAt, Fits, HeaderAt, Readable
<1>5. OwedIn(j, c)'
  BY <1>1, <1>3 DEF Undisturbed, OwedIn, HeaderAt, Scanning
<1>6. wr' = n * RecUnits
  BY <1>1, <1>3, Sizes, RecordsApart
<1>7. HeaderAt(c * RecUnits)' = st'.msg
  BY <1>1, <1>3 DEF HeaderAt
<1>8. Doing(n, c)'
  BY <1>1, <1>3, <1>6, <1>7 DEF Doing
<1> QED
  BY <1>3, <1>4, <1>5, <1>8 DEF Undisturbed, Scanning

LEMMA CountKeeps ==
  ASSUME Shape, NEW n \in Nat, NEW c \in Nat, NEW j \in Nat, Undisturbed(n, c, j), Count
  PROVE  Undisturbed(n, n, j)'
<1>1. /\ st.pc = "count" /\ wr = n * RecUnits /\ n = c + 1 /\ ~st.spoiled
      /\ st.tmp = backlog /\ HeaderAt(c * RecUnits) = st.msg
  BY DEF Count, Undisturbed, Doing
<1>2. /\ UNCHANGED <<flash, rd, wr>> /\ ~st'.spoiled /\ st'.pc = "idle"
      /\ backlog' = backlog + 1 /\ owed' = owed \cup {st.msg}
  BY <1>1 DEF Count, Idle
<1>3. Log(n)'
  BY <1>2 DEF Undisturbed, Log, ValidAt, Fits, HeaderAt, Readable
<1>4. Counted(j, n)'
  BY <1>1, <1>2, SMT DEF Undisturbed, Counted
<1>5. OwedIn(j, n)'
  <2>1. ASSUME NEW r \in owed
        PROVE  \E k \in Nat : j <= k /\ k < n /\ HeaderAt(k * RecUnits) = r
    <3>1. PICK k \in Nat : j <= k /\ k < c /\ HeaderAt(k * RecUnits) = r
      BY <1>1 DEF Undisturbed, Scanning, OwedIn
    <3>2. k < n
      BY <1>1, <3>1, SMT
    <3> QED
      BY <3>1, <3>2
  <2>2. j <= c /\ c < n
    BY <1>1, SMT DEF Undisturbed, Counted
  <2>3. \A r \in owed' : \E k \in Nat : j <= k /\ k < n /\ HeaderAt(k * RecUnits) = r
    BY <1>1, <1>2, <2>1, <2>2
  <2>4. flash' = flash
    BY <1>2
  <2> QED
    BY <2>3, <2>4 DEF OwedIn, HeaderAt
<1>6. Doing(n, n)'
  BY <1>1, <1>2 DEF Doing
<1> QED
  BY <1>2, <1>3, <1>4, <1>5, <1>6 DEF Undisturbed, Scanning

LEMMA EraseNever ==
  ASSUME NEW n \in Nat, NEW c \in Nat, NEW j \in Nat, Undisturbed(n, c, j)
  PROVE  ~Erase /\ ~Wrapped
  BY DEF Undisturbed, Doing, Erase, Wrapped

LEMMA StorageShape ==
  ASSUME Shape, StorageStep
  PROVE  Shape' /\ (~disturbed' => ~disturbed)
<1>1. /\ st' = [pc |-> st'.pc, msg |-> st'.msg, addr |-> st'.addr, tmp |-> st'.tmp,
                spoiled |-> st'.spoiled]
      /\ disturbed' \in BOOLEAN /\ (~disturbed' => ~disturbed)
  BY DEF Shape, StorageStep, ScanRead, ScanCounted, EventWritten, Receive, Wrapped,
     Check, Erase, Program, Verify, Count, At, Idle, ctxVars
<1>2. flash' = [u \in Addrs |-> flash'[u]]
  <2>1. CASE UNCHANGED flash
    BY <2>1 DEF Shape
  <2>2. CASE Erase
    BY <2>2 DEF Erase, ErasedAround, Shape
  <2>3. CASE Program
    <3>1. flash' = Programmed(st.addr, st.msg, 1..RecUnits) \/ flash' \in Torn(st.addr, st.msg)
      BY <2>3 DEF Program
    <3> QED
      BY <3>1 DEF Programmed, Torn, Shape
  <2> QED
    BY <2>1, <2>2, <2>3 DEF StorageStep, ScanRead, ScanCounted, EventWritten, Receive, Wrapped,
       Check, Verify, Count
<1> QED
  BY <1>1, <1>2 DEF Shape

LEMMA StorageKeeps == ASSUME KInv, StorageStep PROVE KInv'
<1>1. Shape /\ Shape' /\ (~disturbed' => ~disturbed)
  BY StorageShape DEF KInv
<1>2. SUFFICES ASSUME ~disturbed' PROVE \E n, c, j \in Nat : Undisturbed(n, c, j)'
  BY <1>1 DEF KInv
<1>3. PICK n \in Nat, c \in Nat, j \in Nat : Undisturbed(n, c, j)
  BY <1>1, <1>2 DEF KInv
<1>4. n + 1 \in Nat /\ c + 1 \in Nat
  BY SMT
<1> QED
  BY <1>1, <1>2, <1>3, <1>4, ScanReadKeeps, ScanCountedKeeps, EventKeeps, ReceiveKeeps,
     CheckKeeps, ProgramKeeps, VerifyKeeps, CountKeeps, EraseNever DEF StorageStep

(***************************************************************************)
(* The gateway task                                                        *)
(***************************************************************************)

(* Steps that look at the cache at most. *)
LEMMA CacheUntouched ==
  ASSUME KInv, UNCHANGED <<flash, rd, wr, backlog, st, owed>>,
         disturbed' \in BOOLEAN, ~disturbed' => ~disturbed
  PROVE  KInv'
<1>1. Shape'
  BY DEF KInv, Shape
<1>2. ASSUME ~disturbed', NEW n \in Nat, NEW c \in Nat, NEW j \in Nat, Undisturbed(n, c, j)
      PROVE  Undisturbed(n, c, j)'
  <2>1. Log(n)' /\ Counted(j, c)'
    BY <1>2 DEF Undisturbed, Log, Counted, ValidAt, Fits, HeaderAt, Readable
  <2>2. Doing(n, c)' /\ Scanning' = Scanning
    BY <1>2 DEF Undisturbed, Doing, Fits, HeaderAt, Scanning
  <2>3. OwedIn(j, IF Scanning THEN n ELSE c)'
    BY <1>2, <2>2 DEF Undisturbed, OwedIn, HeaderAt
  <2> QED
    BY <2>1, <2>2, <2>3 DEF Undisturbed
<1>3. ~disturbed' => \E n, c, j \in Nat : Undisturbed(n, c, j)
  BY DEF KInv
<1> QED
  BY <1>1, <1>2, <1>3 DEF KInv

(* Storage_MarkCacheAck passes over the head record. *)
LEMMA PopKeeps ==
  ASSUME NEW n \in Nat, NEW c \in Nat, NEW j \in Nat, Undisturbed(n, c, j), ~Counting,
         backlog # 0,
         rd' = Popped([rd |-> rd, backlog |-> backlog]).rd,
         backlog' = Popped([rd |-> rd, backlog |-> backlog]).backlog,
         owed' = owed \ {HeaderAt(rd)}, UNCHANGED <<flash, wr, st>>
  PROVE  Undisturbed(n, c, j + 1)'
<1>1. c <= n
  BY SMT DEF Undisturbed, Doing
<1>2. j < c /\ rd = j * RecUnits /\ rd \in Nat
  BY <1>1, AtHead DEF Undisturbed
<1>3. /\ rd' = IF rd + RecUnits >= Units THEN 0 ELSE rd + RecUnits
      /\ backlog' = backlog - 1
  BY DEF Popped
<1>4. rd + RecUnits <= Units /\ (j + 1) * RecUnits = rd + RecUnits
  <2>1. j < n
    BY <1>1, <1>2, SMT
  <2>2. Fits(j * RecUnits)
    BY <2>1, WithinLog DEF Undisturbed, Log
  <2> QED
    BY <1>2, <2>2, Sizes, RecordsApart DEF Fits
<1>5. rd' = IF (j + 1) * RecUnits = Units THEN 0 ELSE (j + 1) * RecUnits
  BY <1>2, <1>3, <1>4, Sizes, SMT
<1>6. j + 1 <= c /\ backlog' = c - (j + 1)
  BY <1>2, <1>3, SMT DEF Undisturbed, Counted
<1>7. Counted(j + 1, c)'
  BY <1>5, <1>6 DEF Counted
<1>8. Log(n)'
  BY DEF Undisturbed, Log, ValidAt, Fits, HeaderAt, Readable
<1>9. Doing(n, c)' /\ Scanning' = Scanning
  BY DEF Undisturbed, Doing, Fits, HeaderAt, Scanning, Counting
<1> DEFINE m == IF Scanning THEN n ELSE c
<1>10. \A r \in owed' : \E k \in Nat : j + 1 <= k /\ k < m /\ HeaderAt(k * RecUnits) = r
  <2> TAKE r \in owed'
  <2>1. r \in owed /\ r # HeaderAt(rd)
    OBVIOUS
  <2>2. PICK k \in Nat : j <= k /\ k < m /\ HeaderAt(k * RecUnits) = r
    BY <2>1 DEF Undisturbed, OwedIn
  <2>3. k # j
    BY <1>2, <2>1, <2>2
  <2>4. j + 1 <= k
    BY <2>2, <2>3, SMT
  <2> QED
    BY <2>2, <2>4
<1>11. OwedIn(j + 1, IF Scanning THEN n ELSE c)'
  BY <1>9, <1>10 DEF OwedIn, HeaderAt
<1> QED
  BY <1>7, <1>8, <1>9, <1>11 DEF Undisturbed

LEMMA KAck == ASSUME KInv, NEW q, NEW how \in Ways, HandleAck(q, how) PROVE KInv'
<1> DEFINE found == {i \in Active : pending[i].report[2] = q}
           e == pending[Lowest(found)]
           here == [rd |-> rd, backlog |-> backlog]
           marks == found # {} /\ e.replay /\ how = "ok" /\ MarksAck(here, e.report)
<1> HIDE DEF found, e
<1>1. /\ IF marks
         THEN /\ rd' = Popped(here).rd /\ backlog' = Popped(here).backlog
              /\ owed' = owed \ {HeaderAt(rd)}
         ELSE UNCHANGED <<rd, backlog, owed>>
      /\ st' = Spoil(how)
      /\ disturbed' = (disturbed \/ how # "ok" \/ (marks /\ Counting))
      /\ UNCHANGED <<flash, wr>>
  BY DEF HandleAck, found, e
<1>2. Shape' /\ disturbed' \in BOOLEAN
  BY <1>1 DEF KInv, Shape, Spoil
<1>3. CASE disturbed'
  BY <1>2, <1>3 DEF KInv
<1>4. CASE ~disturbed' /\ ~marks
  <2>1. UNCHANGED <<flash, rd, wr, backlog, st, owed>> /\ ~disturbed
    BY <1>1, <1>4 DEF Spoil
  <2> QED
    BY <1>2, <2>1, CacheUntouched
<1>5. CASE ~disturbed' /\ marks
  <2>1. ~disturbed /\ ~Counting /\ st' = st /\ backlog # 0
    BY <1>1, <1>5 DEF Spoil, MarksAck
  <2>2. PICK n \in Nat, c \in Nat, j \in Nat : Undisturbed(n, c, j)
    BY <2>1 DEF KInv
  <2>3. Undisturbed(n, c, j + 1)'
    BY <1>1, <1>5, <2>1, <2>2, PopKeeps
  <2>4. j + 1 \in Nat
    BY SMT
  <2> QED
    BY <1>2, <2>3, <2>4 DEF KInv
<1> QED
  BY <1>3, <1>4, <1>5

(* gw_try_replay_cache finds the head whole, and rescans nothing. *)
LEMMA KReplay == ASSUME KInv, NEW how \in Ways, Replay(how) PROVE KInv'
<1>1. /\ st' = Spoil(how) /\ UNCHANGED <<flash, owed>> /\ backlog # 0
      /\ disturbed' = (disturbed \/ how # "ok" \/ (ctxVars' # ctxVars /\ Counting))
  BY DEF Replay
<1>2. Shape' /\ disturbed' \in BOOLEAN
  BY <1>1 DEF KInv, Shape, Spoil
<1>3. CASE disturbed'
  BY <1>2, <1>3 DEF KInv
<1>4. CASE ~disturbed'
  <2>1. ~disturbed /\ how = "ok" /\ st' = st
    BY <1>1, <1>4 DEF Spoil
  <2>2. PICK n \in Nat, c \in Nat, j \in Nat : Undisturbed(n, c, j)
    BY <2>1 DEF KInv
  <2>3. c <= n
    BY <2>2, SMT DEF Undisturbed, Doing
  <2>4. ValidAt(rd)
    BY <1>1, <2>2, <2>3, AtHead DEF Undisturbed
  <2> DEFINE here == [rd |-> rd, backlog |-> backlog]
  <2>5. ~Skips(here)
    BY <2>4 DEF Skips, ValidAt
  <2>6. ReplayBatch - 1 \in Nat
    BY ReportAssumption, SMT
  <2>7. AfterSkips[ReplayBatch - 1] = here
    BY <2>5, <2>6, SkipsNothing
  <2>8. UNCHANGED <<rd, wr, backlog>>
    BY <1>1, <2>1, <2>4, <2>5, <2>7 DEF Replay, ReplaySend, ValidAt
  <2> QED
    BY <1>1, <1>2, <2>1, <2>8, CacheUntouched
<1> QED
  BY <1>3, <1>4

LEMMA Quotient ==
  /\ Units \div RecUnits \in Nat
  /\ \A i \in Nat : i * RecUnits <= Units => i <= Units \div RecUnits
<1> DEFINE q == Units \div RecUnits
<1>1. q \in Nat /\ Units < (q + 1) * RecUnits
  <2>1. q \in Nat /\ Units % RecUnits \in 0..(RecUnits - 1)
        /\ Units = RecUnits * q + (Units % RecUnits)
    BY Sizes, SMT
  <2> HIDE DEF q
  <2>2. (q + 1) * RecUnits = RecUnits * q + RecUnits
    BY <2>1, Sizes, SMT
  <2> QED
    BY <2>1, <2>2, Sizes, SMT
<1> HIDE DEF q
<1>2. ASSUME NEW i \in Nat, i * RecUnits <= Units PROVE i <= q
  <2>1. i * RecUnits \in Nat /\ (q + 1) * RecUnits \in Nat /\ q + 1 \in Nat
    BY <1>1, Sizes, RecordsApart
  <2>2. i * RecUnits < (q + 1) * RecUnits
    BY <1>1, <1>2, <2>1, Sizes, SMT
  <2>3. i < q + 1
    BY <2>1, <2>2, Sizes, RecordsApart
  <2> QED
    BY <1>1, <2>3, SMT
<1> QED
  BY <1>1, <1>2 DEF q

(* After a reset the whole log is counted again. *)
LEMMA KRestart == ASSUME KInv, Restart PROVE KInv'
<1>1. /\ rd' = 0 /\ backlog' = 0 /\ st' = Starting /\ owed' = owed
      /\ disturbed' = (disturbed \/ st.pc \in {"erase", "program"})
      /\ flash' \in CASE st.pc = "program" -> Torn(st.addr, st.msg)
                      [] st.pc = "erase" -> {flash, ErasedAround(st.addr)}
                      [] OTHER -> {flash}
  BY DEF Restart, CReset
<1>2. Shape'
  <2>1. flash' = [u \in Addrs |-> flash'[u]]
    BY <1>1 DEF KInv, Shape, Torn, Programmed, ErasedAround
  <2> QED
    BY <1>1, <2>1 DEF KInv, Shape, Starting, Idle
<1>3. SUFFICES ASSUME ~disturbed' PROVE \E n, c, j \in Nat : Undisturbed(n, c, j)'
  BY <1>2 DEF KInv
<1>4. ~disturbed /\ flash' = flash
  BY <1>1, <1>3
<1>5. PICK n \in Nat, c \in Nat, j \in Nat : Undisturbed(n, c, j)
  BY <1>4 DEF KInv
<1>6. Log(n)'
  BY <1>4, <1>5 DEF Undisturbed, Log, ValidAt, Fits, HeaderAt, Readable
<1>7. 0 * RecUnits = 0 /\ Units # 0
  BY Sizes, SMT
<1>8. Counted(0, 0)'
  BY <1>1, <1>7, SMT DEF Counted
<1>9. Doing(n, 0)' /\ Scanning'
  <2>1. 0 <= n
    BY SMT
  <2> QED
    BY <1>1, <1>7, <2>1 DEF Doing, Scanning, Starting, Idle
<1>10. OwedIn(0, n)'
  <2>1. c <= n
    BY <1>5, SMT DEF Undisturbed, Doing
  <2>2. ASSUME NEW r \in owed
        PROVE  \E k \in Nat : 0 <= k /\ k < n /\ HeaderAt(k * RecUnits) = r
    <3>1. PICK k \in Nat : /\ j <= k /\ k < (IF Scanning THEN n ELSE c)
                           /\ HeaderAt(k * RecUnits) = r
      BY <1>5 DEF Undisturbed, OwedIn
    <3>2. 0 <= k /\ k < n
      BY <2>1, <3>1, SMT
    <3> QED
      BY <3>1, <3>2
  <2> QED
    BY <1>1, <1>4, <2>2 DEF OwedIn, HeaderAt
<1>11. Undisturbed(n, 0, 0)'
  BY <1>6, <1>8, <1>9, <1>10 DEF Undisturbed
<1> QED
  BY <1>11, SMT

LEMMA KStep == ASSUME KInv, [RNext]_rvars PROVE KInv'
<1>1. disturbed \in BOOLEAN
  BY DEF KInv, Shape
<1>2. CASE Storage
  BY <1>2, StorageKeeps DEF Storage
<1>3. ASSUME UNCHANGED <<flash, ctxVars, st, owed, disturbed>> PROVE KInv'
  BY <1>1, <1>3, CacheUntouched DEF ctxVars
<1>4. ASSUME NEW abnormal \in BOOLEAN, Report(abnormal) PROVE KInv'
  BY <1>3, <1>4 DEF Report
<1>5. ASSUME NEW late \in SUBSET Active, QuietReport(late) PROVE KInv'
  BY <1>3, <1>5 DEF QuietReport
<1>6. ASSUME NEW q \in 1..MaxSeq, LoseAck(q) PROVE KInv'
  BY <1>3, <1>6 DEF LoseAck, cacheVars, ctxVars
<1>7. CASE OtherTaskLogs
  BY <1>3, <1>7 DEF OtherTaskLogs, WriteEvent
<1>8. CASE UNCHANGED rvars
  BY <1>3, <1>8 DEF rvars, cacheVars, ctxVars
<1> QED
  BY <1>2, <1>4, <1>5, <1>6, <1>7, <1>8, KAck, KReplay, KRestart DEF RNext

(* While nothing disturbs the cache it is a log: whole records, of which   *)
(* the storage task has counted some and the gateway task passed over      *)
(* some, and then erased units, in the middle of every operation and       *)
(* across resets.                                                          *)
THEOREM CacheIsALog == RSpec => []KInv
  BY KInit, KStep, PTL DEF RSpec

(* The records between head and tail. *)
LEMMA Between ==
  ASSUME NEW n \in Nat, NEW c \in Nat, NEW j \in Nat, Log(n), c <= n, Counted(j, c),
         NEW k \in Nat, j <= k, k < c
  PROVE  /\ k - j \in 0..(backlog - 1) /\ k - j \in 0..(Units \div RecUnits)
         /\ k * RecUnits = rd + (k - j) * RecUnits
         /\ k * RecUnits < rd + backlog * RecUnits
         /\ ValidAt(k * RecUnits)
<1>1. backlog = c - j /\ backlog # 0 /\ backlog \in Nat /\ k - j \in Nat /\ k < n
  BY SMT DEF Counted
<1>2. rd = j * RecUnits /\ rd \in Nat
  BY <1>1, AtHead
<1>3. k - j \in 0..(backlog - 1)
  BY <1>1, SMT
<1>4. ASSUME NEW i \in Nat, j <= i PROVE i * RecUnits = rd + (i - j) * RecUnits
  <2>1. i * RecUnits = j * RecUnits + (i - j) * RecUnits
    BY <1>4, Sizes, SMT
  <2> QED
    BY <1>2, <2>1
<1>5. k * RecUnits < c * RecUnits /\ k * RecUnits + RecUnits <= n * RecUnits
      /\ k * RecUnits \in Nat
  <2>1. /\ k * RecUnits + RecUnits <= c * RecUnits /\ k * RecUnits + RecUnits <= n * RecUnits
        /\ k * RecUnits \in Nat /\ c * RecUnits \in Nat
    BY <1>1, Sizes, RecordsApart
  <2> QED
    BY <2>1, Sizes, SMT
<1>6. k * RecUnits < rd + backlog * RecUnits
  <2>1. c * RecUnits = rd + backlog * RecUnits
    BY <1>1, <1>4, SMT
  <2> QED
    BY <1>5, <2>1
<1>7. k - j <= Units \div RecUnits
  <2>1. k * RecUnits <= Units /\ (k - j) * RecUnits <= k * RecUnits
    <3>1. k * RecUnits + RecUnits <= Units
      <4>1. n * RecUnits \in Nat /\ n * RecUnits <= Units
        BY Sizes, RecordsApart DEF Log
      <4> QED
        BY <1>5, <4>1, Sizes, SMT
    <3>2. k - j <= k
      BY <1>1, SMT
    <3>3. (k - j) * RecUnits <= k * RecUnits
      BY <1>1, <3>2, Sizes, RecordsApart
    <3> QED
      BY <1>5, <3>1, <3>3, Sizes, SMT
  <2>2. (k - j) * RecUnits <= Units
    <3>1. (k - j) * RecUnits \in Nat /\ k * RecUnits \in Nat
      BY <1>1, Sizes, RecordsApart
    <3> QED
      BY <2>1, <3>1, Sizes, SMT
  <2> QED
    BY <1>1, <2>2, Quotient
<1>8. ValidAt(k * RecUnits)
  BY <1>1 DEF Log
<1>9. k - j \in 0..(Units \div RecUnits)
  <2>1. Units \div RecUnits \in Nat
    BY Quotient
  <2> QED
    BY <1>1, <1>7, <2>1, SMT
<1> QED
  BY <1>3, <1>4, <1>6, <1>8, <1>9

(* 9.8 of smarthome_round2_review_2026-05-20.md: what the storage task     *)
(* counted into the cache and no acknowledgement took out lies between     *)
(* head and tail and will be replayed, for any region, table and number of *)
(* resets, until the two tasks collide or the region comes to its end.     *)
THEOREM UnackedIsKept == RSpec => []KeptUntilAcked
<1>1. ASSUME KInv PROVE KeptUntilAcked
  <2>1. SUFFICES ASSUME ~disturbed, ~Scanning, NEW r \in owed PROVE r \in InWindow
    BY DEF KeptUntilAcked, Scanning
  <2>2. PICK n \in Nat, c \in Nat, j \in Nat : Undisturbed(n, c, j)
    BY <1>1, <2>1 DEF KInv
  <2>3. PICK k \in Nat : j <= k /\ k < c /\ HeaderAt(k * RecUnits) = r
    BY <2>1, <2>2 DEF Undisturbed, OwedIn
  <2>4. c <= n
    BY <2>2, SMT DEF Undisturbed, Doing
  <2>5. /\ k - j \in 0..(Units \div RecUnits)
        /\ k * RecUnits = rd + (k - j) * RecUnits
        /\ k * RecUnits < rd + backlog * RecUnits
        /\ ValidAt(k * RecUnits)
    BY <2>2, <2>3, <2>4, Between DEF Undisturbed
  <2> DEFINE a == k * RecUnits
  <2>6. a \in {x \in {rd + i * RecUnits : i \in 0..(Units \div RecUnits)} :
                 ValidAt(x) /\ x < rd + backlog * RecUnits}
    <3>1. a \in {rd + i * RecUnits : i \in 0..(Units \div RecUnits)}
      BY <2>5
    <3> QED
      BY <2>5, <3>1
  <2> QED
    BY <2>3, <2>6 DEF InWindow
<1> QED
  BY <1>1, CacheIsALog, PTL

(* cache_read_addr, cache_write_addr and cache_backlog, kept by two tasks  *)
(* and counted again at each start, agree under the same conditions.       *)
THEOREM PointersAgree == RSpec => []CounterExact
<1>1. ASSUME KInv PROVE CounterExact
  <2>1. SUFFICES ASSUME ~disturbed, st.pc \notin {"scan", "scancount", "count"}
        PROVE /\ \/ wr = rd + backlog * RecUnits
                 \/ rd = 0 /\ backlog = 0 /\ wr = Units
              /\ \A k \in 0..(backlog - 1) : ValidAt(rd + k * RecUnits)
    BY DEF CounterExact
  <2>2. PICK n \in Nat, c \in Nat, j \in Nat : Undisturbed(n, c, j)
    BY <1>1, <2>1 DEF KInv
  <2>3. wr = c * RecUnits /\ c <= n
    BY <2>1, <2>2, SMT DEF Undisturbed, Doing
  <2>4. j <= c /\ backlog = c - j /\ backlog \in Nat
    BY <2>2, SMT DEF Undisturbed, Counted
  <2>5. /\ j * RecUnits \in Nat /\ c * RecUnits \in Nat
        /\ j * RecUnits <= c * RecUnits /\ c * RecUnits <= Units
    <3>1. n * RecUnits \in Nat /\ c * RecUnits <= n * RecUnits /\ n * RecUnits <= Units
      BY <2>2, <2>3, Sizes, RecordsApart DEF Undisturbed, Log
    <3>2. j * RecUnits \in Nat /\ c * RecUnits \in Nat /\ j * RecUnits <= c * RecUnits
      BY <2>4, Sizes, RecordsApart
    <3> QED
      BY <3>1, <3>2, Sizes, SMT
  <2>6. CASE j * RecUnits = Units
    <3>1. c * RecUnits = Units
      BY <2>5, <2>6, Sizes, SMT
    <3>2. j = c
      BY <2>6, <3>1, Sizes, RecordsApart
    <3>3. rd = 0 /\ backlog = 0 /\ wr = Units
      BY <2>2, <2>3, <2>4, <2>6, <3>1, <3>2, SMT DEF Undisturbed, Counted
    <3> QED
      BY <3>3, SMT
  <2>7. CASE j * RecUnits # Units
    <3>1. rd = j * RecUnits
      BY <2>2, <2>7 DEF Undisturbed, Counted
    <3>2. c * RecUnits = j * RecUnits + (c - j) * RecUnits
      BY <2>4, Sizes, SMT
    <3>3. ASSUME NEW k \in 0..(backlog - 1) PROVE ValidAt(rd + k * RecUnits)
      <4>1. j + k \in Nat /\ j <= j + k /\ j + k < c /\ (j + k) - j = k
        BY <2>4, SMT
      <4>2. /\ (j + k) * RecUnits = rd + ((j + k) - j) * RecUnits
            /\ ValidAt((j + k) * RecUnits)
        BY <2>2, <2>3, <4>1, Between DEF Undisturbed
      <4> QED
        BY <4>1, <4>2
    <3> QED
      BY <2>3, <2>4, <3>1, <3>2, <3>3
  <2> QED
    BY <2>6, <2>7
<1> QED
  BY <1>1, CacheIsALog, PTL
==============================================================================
