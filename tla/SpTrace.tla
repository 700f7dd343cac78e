------------------------------ MODULE SpTrace ------------------------------
(***************************************************************************)
(* The debugger's FujiNet trace, core/debugger/sptrace.c: a ring of the    *)
(* newest packets, in which an exchange (a request and its reply) that     *)
(* repeats the last one is folded into it.  The emulator thread and the    *)
(* SmartPort Listener's thread feed it, a debugger window polls and clears *)
(* it; every call is one hold of t->mtx, so every call is a step.          *)
(*                                                                         *)
(* A packet is its bytes past the sequence number, a member of Bodies; the *)
(* text and the unit names decoded from them are left out.                 *)
(***************************************************************************)
EXTENDS Integers, Sequences, SequencesExt

CONSTANTS
  Seqs,        (* sequence numbers                                         *)
  Bodies,      (* what packets consist of                                  *)
  Short,       (* those under 4 bytes: they name no unit                   *)
  Unfoldable,  (* those under 2 bytes or over FOLD_MAX: never equal        *)
  Nothing,     (* no body: a timeout's, or no unit known                   *)
  RingMax,     (* SPTRACE_MAX                                              *)
  MaxSerial    (* bound: changes to the ring                               *)

ASSUME TraceAssumption ==
  /\ Nothing \notin Bodies
  /\ Short \subseteq Bodies /\ Unfoldable \subseteq Bodies
  /\ RingMax \in Nat /\ RingMax >= 2
  /\ MaxSerial \in Nat

VARIABLES
  ring,                 (* entries, oldest first                           *)
  serial,               (* the last serial given                           *)
  held, held_req,       (* a request held until its reply says if it folds *)
  cur_req, cur_seq,     (* the newest request                              *)
  pair_valid, pair_req, pair_rep,   (* the exchange the ring ends with     *)
  pend,                 (* by sequence number: the request outstanding     *)
  counts,               (* requests, replies, timeouts                     *)
  seen, shown           (* a window: the count and newest serial it saw    *)
                        (* last, and the entries it shows                  *)

pairVars == <<pair_valid, pair_req, pair_rep>>
curVars  == <<cur_req, cur_seq>>
viewVars == <<seen, shown>>
vars == <<ring, serial, held, held_req, curVars, pairVars, pend, counts, viewVars>>

Kinds == {"request", "reply", "timeout"}

-----------------------------------------------------------------------------
(* fill(): an entry before push gives it its serial.  device stands for the *)
(* request whose unit it is.                                                *)
Entry(kind, seq, body, device) ==
  [kind |-> kind, seq |-> seq, body |-> body, device |-> device,
   repeat |-> 1, serial |-> 0]

Unit(body) == IF body \in Short THEN Nothing ELSE body

Push(r, e, n) ==
  Append(IF Len(r) = RingMax THEN Tail(r) ELSE r, [e EXCEPT !.serial = n])

Same(kept, body) == kept = body /\ body \notin Unfoldable

(* flush_held: what the ring and the serial are after it. *)
Flushed == IF held THEN Push(ring, held_req, serial + 1) ELSE ring
FlushedSerial == serial + (IF held THEN 1 ELSE 0)

PushFlushed_LosesHeld(e) ==
  /\ ring' = Push(ring, e, serial + 1)
  /\ serial' = serial + 1
  /\ held' = FALSE

PushFlushed(e) ==
  /\ ring' = Push(Flushed, e, FlushedSerial + 1)
  /\ serial' = FlushedSerial + 1
  /\ held' = FALSE

-----------------------------------------------------------------------------
(* sptrace_feed *)

FeedRequest_KeepsPending(seq, body) ==
  LET e == Entry("request", seq, body, Unit(body)) IN
  /\ serial < MaxSerial
  /\ counts' = [counts EXCEPT !.request = @ + 1]
  /\ pend' = [pend EXCEPT ![seq] = IF body \in Short THEN @ ELSE body]
  /\ cur_req' = body /\ cur_seq' = seq
  /\ IF pair_valid /\ ~held /\ Same(pair_req, body)
     THEN /\ held' = TRUE /\ held_req' = e
          /\ UNCHANGED <<ring, serial, pair_valid>>
     ELSE /\ PushFlushed(e)
          /\ pair_valid' = FALSE
          /\ UNCHANGED held_req
  /\ UNCHANGED <<pair_req, pair_rep, viewVars>>

(* A request that repeats the one the ring ends with is held back.          *)
FeedRequest(seq, body) ==
  LET e == Entry("request", seq, body, Unit(body)) IN
  /\ serial < MaxSerial
  /\ counts' = [counts EXCEPT !.request = @ + 1]
  /\ pend' = [pend EXCEPT ![seq] = Unit(body)]
  /\ cur_req' = body /\ cur_seq' = seq
  /\ IF pair_valid /\ ~held /\ Same(pair_req, body)
     THEN /\ held' = TRUE /\ held_req' = e
          /\ UNCHANGED <<ring, serial, pair_valid>>
     ELSE /\ PushFlushed(e)
          /\ pair_valid' = FALSE
          /\ UNCHANGED held_req
  /\ UNCHANGED <<pair_req, pair_rep, viewVars>>

Folds(kind, seq, body) ==
  /\ held /\ held_req.seq = seq
  /\ kind = "reply" /\ Same(pair_rep, body)
  /\ Len(ring) >= 2

Answer(kind, seq) ==
  /\ serial < MaxSerial
  /\ counts' = [counts EXCEPT ![kind] = @ + 1]
  /\ pend' = [pend EXCEPT ![seq] = Nothing]
  /\ UNCHANGED <<curVars, held_req, viewVars>>

Again(e, seq, n) == [e EXCEPT !.seq = seq, !.repeat = @ + 1, !.serial = n]

(* The reply completes a repeat of the last exchange. *)
FoldReply(seq, body) ==
  LET n == Len(ring) IN
  /\ Folds("reply", seq, body)
  /\ Answer("reply", seq)
  /\ ring' = [ring EXCEPT ![n - 1] = Again(@, seq, serial + 1),
                          ![n] = Again(@, seq, serial + 2)]
  /\ serial' = serial + 2
  /\ held' = FALSE
  /\ UNCHANGED pairVars

PushReply_AnyOrder(kind, seq, body) ==
  /\ ~Folds(kind, seq, body)
  /\ Answer(kind, seq)
  /\ PushFlushed(Entry(kind, seq, body, pend[seq]))
  /\ pair_valid' = (kind = "reply" /\ seq = cur_seq)
  /\ pair_req' = IF pair_valid' THEN cur_req ELSE pair_req
  /\ pair_rep' = IF pair_valid' THEN body ELSE pair_rep

(* Any other reply, or a timeout.  A reply right after its request is the   *)
(* exchange the next one may repeat.                                        *)
PushReply(kind, seq, body) ==
  /\ ~Folds(kind, seq, body)
  /\ Answer(kind, seq)
  /\ PushFlushed(Entry(kind, seq, body, pend[seq]))
  /\ pair_valid' =
       LET n == Len(ring') IN
       /\ kind = "reply" /\ n >= 2 /\ seq = cur_seq
       /\ ring'[n - 1].kind = "request" /\ ring'[n - 1].seq = seq
  /\ pair_req' = IF pair_valid' THEN cur_req ELSE pair_req
  /\ pair_rep' = IF pair_valid' THEN body ELSE pair_rep

-----------------------------------------------------------------------------
NoCounts == [kind \in Kinds |-> 0]

Clear_RestartsSerial ==
  /\ ring' = <<>>
  /\ serial' = 0
  /\ held' = FALSE /\ pair_valid' = FALSE
  /\ counts' = NoCounts
  /\ UNCHANGED <<held_req, curVars, pair_req, pair_rep, pend, viewVars>>

(* sptrace_clear: the outstanding requests are still outstanding. *)
Clear ==
  /\ ring' = <<>>
  /\ held' = FALSE /\ pair_valid' = FALSE
  /\ counts' = NoCounts
  /\ UNCHANGED <<serial, held_req, curVars, pair_req, pair_rep, pend, viewVars>>

(* A window refreshes its FujiNet tab: the packets are drawn again only if  *)
(* their number or the newest one's serial changed.                         *)
Mark == [count |-> Len(ring), last |-> IF ring = <<>> THEN 0 ELSE Last(ring).serial]

Poll ==
  /\ seen' = Mark
  /\ shown' = IF Mark = seen THEN shown ELSE ring
  /\ UNCHANGED <<ring, serial, held, held_req, curVars, pairVars, pend, counts>>

-----------------------------------------------------------------------------
Init ==
  /\ ring = <<>> /\ serial = 0
  /\ held = FALSE
  /\ held_req \in {Entry("request", s, Nothing, Nothing) : s \in Seqs}
  /\ cur_req = Nothing /\ cur_seq \in Seqs
  /\ pair_valid = FALSE /\ pair_req = Nothing /\ pair_rep = Nothing
  /\ pend = [s \in Seqs |-> Nothing]
  /\ counts = NoCounts
  /\ seen = [count |-> 0, last |-> 0] /\ shown = <<>>

Timeout(seq) == PushReply("timeout", seq, Nothing)
Reply(seq, body) == FoldReply(seq, body) \/ PushReply("reply", seq, body)

Next ==
  \/ \E seq \in Seqs, body \in Bodies : FeedRequest(seq, body) \/ Reply(seq, body)
  \/ \E seq \in Seqs : Timeout(seq)
  \/ Clear
  \/ Poll

Spec == Init /\ [][Next]_vars

-----------------------------------------------------------------------------
(* A held request is folded into the ring's last two entries (sptrace.c     *)
(* trusts pair_valid and count >= 2 for that): they are the request and     *)
(* reply it repeats, whatever was pushed, flushed, dropped or cleared since *)
(* pair_valid was set.                                                      *)
FoldsIntoItsLike ==
  LET n == Len(ring) IN
  held => /\ pair_valid /\ n >= 2
          /\ ring[n - 1].kind = "request" /\ ring[n - 1].body = held_req.body
          /\ ring[n].kind = "reply" /\ ring[n].body = pair_rep
          /\ ring[n - 1].repeat = ring[n].repeat

(* A reply shown right under its request names the unit that request was    *)
(* sent to, also when the trace was cleared, folded or shifted in between   *)
(* and when sequence numbers come again.                                    *)
ReplyNamesItsUnit ==
  \A i \in 1..(Len(ring) - 1) :
    /\ ring[i].kind = "request" /\ ring[i + 1].kind # "request"
    /\ ring[i].seq = ring[i + 1].seq
    => ring[i + 1].device = ring[i].device

(* A window that does not draw again, since the count and the newest serial *)
(* are those it saw, shows what the trace holds: "serial rises with every   *)
(* change, including a fold".                                               *)
WindowIsCurrent == Mark = seen => shown = ring

(* The trace, its folds expanded and the held request added, is the log of  *)
(* packets that PacketLog promises, counters included.                      *)
Packet(e) == [kind |-> e.kind, body |-> e.body]

Expanded(i) ==
  LET e == ring[i] IN
  IF e.kind = "request" /\ e.repeat > 1
    THEN [k \in 1..(2 * e.repeat) |-> Packet(ring[IF k % 2 = 1 THEN i ELSE i + 1])]
  ELSE IF e.kind = "reply" /\ e.repeat > 1 /\ i > 1
    THEN <<>>
  ELSE <<Packet(e)>>

Packets == [kind : Kinds, body : Bodies \cup {Nothing}]

Promise == INSTANCE PacketLog WITH
  Room <- RingMax,
  log <- FlattenSeq([i \in 1..Len(ring) |-> Expanded(i)])
         \o (IF held THEN <<Packet(held_req)>> ELSE <<>>),
  fed <- counts.request + counts.reply + counts.timeout

KeepsItsPromise == Promise!Spec
=============================================================================
