---------------------------- MODULE ReportChannel ----------------------------
(***************************************************************************)
(* What the Linux gateway promises of the reports of its links, whatever   *)
(* its queues and threads do (GatewayLinks implements it): each link is a  *)
(* line that delivers in order.  Single reports may be refused on the way. *)
(* Only once the gateway is closing may it lose reports without a word.    *)
(***************************************************************************)
EXTENDS Naturals, Sequences

CONSTANTS Lines, Reports

VARIABLES
  line,      \* reports under way on each line, the oldest first
  delivered, \* reports delivered
  refused,   \* reports refused
  closing

chvars == <<line, delivered, refused, closing>>

ChInit ==
  /\ line = [l \in Lines |-> <<>>]
  /\ delivered = <<>> /\ refused = {}
  /\ closing = FALSE

(* One or several reports enter the line. *)
Enter(l) ==
  /\ Len(line'[l]) > Len(line[l])
  /\ SubSeq(line'[l], 1, Len(line[l])) = line[l]
  /\ \A k \in DOMAIN line'[l] : line'[l][k] \in Reports
  /\ line' = [line EXCEPT ![l] = line'[l]]
  /\ UNCHANGED <<delivered, refused, closing>>

Deliver(l) ==
  /\ line[l] # <<>>
  /\ line' = [line EXCEPT ![l] = Tail(@)]
  /\ delivered' = Append(delivered, Head(line[l]))
  /\ UNCHANGED <<refused, closing>>

Without(s, k) == SubSeq(s, 1, k - 1) \o SubSeq(s, k + 1, Len(s))

Refuse(l) ==
  /\ \E k \in DOMAIN line[l] : /\ line' = [line EXCEPT ![l] = Without(@, k)]
                               /\ refused' = refused \cup {line[l][k]}
  /\ UNCHANGED <<delivered, closing>>

Close ==
  /\ closing' = TRUE
  /\ UNCHANGED <<line, delivered, refused>>

(* A stretch of reports of a closing line is given up. *)
GiveUp(l) ==
  /\ closing
  /\ \E from \in DOMAIN line[l], to \in DOMAIN line[l] :
       line' = [line EXCEPT ![l] = SubSeq(@, 1, from - 1) \o SubSeq(@, to + 1, Len(@))]
  /\ UNCHANGED <<delivered, refused, closing>>

ChNext ==
  \/ \E l \in Lines : Enter(l) \/ Deliver(l) \/ Refuse(l) \/ GiveUp(l)
  \/ Close

ChSpec == ChInit /\ [][ChNext]_chvars
==============================================================================
