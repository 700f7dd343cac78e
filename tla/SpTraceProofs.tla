---------------------------- MODULE SpTraceProofs ----------------------------
(***************************************************************************)
(* Proofs about SpTrace, for any sequence numbers, packets and ring of two *)
(* entries or more.  TraceInv is inductive: it says what the end of the    *)
(* ring has to do with the newest request, the requests outstanding and    *)
(* the exchange kept aside, which the code never compares again.           *)
(***************************************************************************)
EXTENDS SpTrace, SequenceTheorems, TLAPS

Contents == Bodies \cup {Nothing}

Entries == [kind : Kinds, seq : Seqs, body : Contents, device : Contents,
            repeat : Nat \ {0}, serial : Nat]

ValuesOK ==
  /\ ring \in Seq(Entries) /\ Len(ring) <= RingMax
  /\ serial \in Nat
  /\ held \in BOOLEAN /\ held_req \in Entries /\ held_req.kind = "request"
  /\ cur_req \in Contents /\ cur_seq \in Seqs
  /\ pair_valid \in BOOLEAN
  /\ pair_req \in Contents /\ pair_rep \in Contents
  /\ pend \in [Seqs -> Contents]
  /\ seen \in [count : Nat, last : Nat]

(* A request no answer to which was pushed is the newest, and outstanding. *)
Newest(e) ==
  /\ e.body = cur_req /\ e.seq = cur_seq
  /\ e.device = pend[cur_seq] /\ e.repeat = 1

NewestInv ==
  /\ ring # <<>> /\ Last(ring).kind = "request" => Newest(Last(ring))
  /\ held => Newest(held_req)

(* The exchange kept aside is the one the ring ends with, and what is held  *)
(* repeats its request.                                                     *)
Exchange(req, rep) ==
  /\ req.kind = "request" /\ req.body = pair_req
  /\ rep.kind = "reply" /\ rep.body = pair_rep
  /\ req.repeat = rep.repeat
  /\ req.seq = rep.seq /\ req.device = rep.device

PairInv ==
  /\ pair_valid => Len(ring) >= 2 /\ Exchange(ring[Len(ring) - 1], Last(ring))
  /\ held => pair_valid /\ held_req.body = pair_req

(* The newest entry has the newest serial; a window that saw that serial    *)
(* with so many entries saw this ring.                                      *)
SerialInv == ring # <<>> => Last(ring).serial = serial /\ serial > 0

WindowInv ==
  /\ seen.last <= serial
  /\ seen.count = 0 => shown = <<>>
  /\ ring # <<>> /\ seen = Mark => shown = ring

Named(r) ==
  \A i \in 1..(Len(r) - 1) :
    r[i].kind = "request" /\ r[i + 1].kind # "request" /\ r[i].seq = r[i + 1].seq
      => r[i + 1].device = r[i].device

TraceInv ==
  /\ ValuesOK /\ NewestInv /\ PairInv /\ SerialInv /\ WindowInv
  /\ Named(ring)

USE DEF pairVars, curVars, viewVars

-----------------------------------------------------------------------------
(* push(): what it puts at the end, what is before it, and what it drops.   *)
Kept(r) == IF Len(r) = RingMax THEN Tail(r) ELSE r

LEMMA KeptIs ==
  ASSUME NEW r \in Seq(Entries), Len(r) <= RingMax
  PROVE  /\ Kept(r) \in Seq(Entries) /\ Len(Kept(r)) < RingMax
         /\ Len(r) >= 1 => Len(Kept(r)) >= 1 /\ Last(Kept(r)) = Last(r)
         /\ Named(r) => Named(Kept(r))
<1>1. CASE Len(r) = RingMax
  <2> DEFINE t == Tail(r)
  <2>1. r # <<>> /\ Len(r) \in Nat /\ Len(r) >= 2
    BY <1>1, TraceAssumption, EmptySeq
  <2>2. t \in Seq(Entries) /\ Len(t) = Len(r) - 1
    BY <2>1, HeadTailProperties
  <2>3. \A i \in 1..Len(t) : t[i] = r[i + 1]
    BY <2>1, HeadTailProperties
  <2>4. Kept(r) = t
    BY <1>1 DEF Kept
  <2> HIDE DEF t
  <2>5. Last(t) = Last(r)
    BY <2>1, <2>2, <2>3 DEF Last
  <2>6. ASSUME Named(r) PROVE Named(t)
    BY <2>1, <2>2, <2>3, <2>6 DEF Named
  <2> QED
    BY <1>1, <2>1, <2>2, <2>4, <2>5, <2>6, TraceAssumption
<1>2. CASE Len(r) # RingMax
  <2>1. Kept(r) = r /\ Len(r) \in Nat
    BY <1>2, LenProperties DEF Kept
  <2> QED
    BY <1>2, <2>1, TraceAssumption
<1> QED
  BY <1>1, <1>2

Ends(w, r, m) ==
  /\ w \in Seq(Entries) /\ Len(w) \in 1..RingMax
  /\ Last(w) = m
  /\ Len(r) >= 1 => Len(w) >= 2 /\ w[Len(w) - 1] = Last(r)
  /\ Len(w) >= 2 => Len(r) >= 1

(* A reply under its request has to name the request's unit.                *)
Fits(r, e) ==
  \/ Len(r) = 0
  \/ Last(r).kind # "request" \/ e.kind = "request"
  \/ Last(r).seq # e.seq \/ e.device = Last(r).device

LEMMA PushIs ==
  ASSUME NEW r \in Seq(Entries), Len(r) <= RingMax,
         NEW e \in Entries, NEW n \in Nat
  PROVE  /\ Ends(Push(r, e, n), r, [e EXCEPT !.serial = n])
         /\ Named(r) /\ Fits(r, e) => Named(Push(r, e, n))
<1> DEFINE k == Kept(r)
           m == [e EXCEPT !.serial = n]
           w == Append(k, m)
<1>1. /\ k \in Seq(Entries) /\ Len(k) < RingMax /\ Len(k) \in Nat
      /\ Len(r) >= 1 => Len(k) >= 1 /\ Last(k) = Last(r)
      /\ Named(r) => Named(k)
  BY KeptIs, LenProperties
<1>2. /\ m \in Entries /\ m.kind = e.kind /\ m.seq = e.seq /\ m.device = e.device
  BY DEF Entries
<1>3. Push(r, e, n) = w
  BY DEF Push, Kept
<1>4. Len(r) \in Nat /\ (Len(r) = 0 => Len(k) = 0)
  BY LenProperties, TraceAssumption DEF Kept
<1> HIDE DEF k, m
<1>5. /\ w \in Seq(Entries) /\ Len(w) = Len(k) + 1
      /\ \A i \in 1..Len(k) : w[i] = k[i]
      /\ w[Len(k) + 1] = m
  BY <1>1, <1>2, AppendProperties
<1> HIDE DEF w
<1>6. Last(w) = m
  BY <1>1, <1>5 DEF Last
<1>7. ASSUME Len(k) >= 1 PROVE w[Len(w) - 1] = Last(k)
  BY <1>1, <1>5, <1>7 DEF Last
<1>8. ASSUME Named(k), Fits(k, m) PROVE Named(w)
  <2> SUFFICES ASSUME NEW i \in 1..(Len(w) - 1),
                      w[i].kind = "request", w[i + 1].kind # "request",
                      w[i].seq = w[i + 1].seq
               PROVE  w[i + 1].device = w[i].device
    BY DEF Named
  <2>1. CASE i < Len(k)
    <3>1. i \in 1..(Len(k) - 1) /\ w[i] = k[i] /\ w[i + 1] = k[i + 1]
      BY <1>1, <1>5, <2>1
    <3> QED
      BY <1>8, <3>1 DEF Named
  <2>2. CASE i = Len(k)
    <3>1. w[i] = Last(k) /\ w[i + 1] = m /\ Len(k) # 0
      BY <1>1, <1>5, <2>2 DEF Last
    <3> QED
      BY <1>8, <3>1 DEF Fits
  <2> QED
    BY <1>1, <1>5, <2>1, <2>2
<1> QED
  <2>1. m = [e EXCEPT !.serial = n]
    BY DEF m
  <2>2. Len(w) \in 1..RingMax
    BY <1>1, <1>5, TraceAssumption
  <2>3. Len(r) >= 1 => Len(w) >= 2 /\ w[Len(w) - 1] = Last(r)
    BY <1>1, <1>4, <1>5, <1>7
  <2>4. Len(w) >= 2 => Len(r) >= 1
    BY <1>1, <1>4, <1>5
  <2>5. ASSUME Named(r), Fits(r, e) PROVE Named(w)
    <3>1. CASE Len(r) = 0
      BY <1>1, <1>4, <1>8, <2>5, <3>1 DEF Fits
    <3>2. CASE Len(r) >= 1
      <4>1. Last(k) = Last(r) /\ Named(k)
        BY <1>1, <2>5, <3>2
      <4> QED
        BY <1>2, <1>4, <1>8, <2>5, <3>2, <4>1 DEF Fits
    <3> QED
      BY <1>4, <3>1, <3>2
  <2> QED
    BY <1>3, <1>5, <1>6, <2>1, <2>2, <2>3, <2>4, <2>5 DEF Ends

-----------------------------------------------------------------------------
(* What is kept of an entry pushed: all but its serial.                     *)
LEMMA EntryIs ==
  ASSUME NEW kind \in Kinds, NEW seq \in Seqs, NEW body \in Contents,
         NEW device \in Contents
  PROVE  /\ Entry(kind, seq, body, device) \in Entries
         /\ Entry(kind, seq, body, device).kind = kind
         /\ Entry(kind, seq, body, device).seq = seq
         /\ Entry(kind, seq, body, device).body = body
         /\ Entry(kind, seq, body, device).device = device
         /\ Entry(kind, seq, body, device).repeat = 1
BY DEF Entry, Entries

LEMMA SerialAlone ==
  ASSUME NEW e \in Entries, NEW n \in Nat
  PROVE  /\ [e EXCEPT !.serial = n] \in Entries
         /\ [e EXCEPT !.serial = n].serial = n
         /\ [e EXCEPT !.serial = n].kind = e.kind
         /\ [e EXCEPT !.serial = n].seq = e.seq
         /\ [e EXCEPT !.serial = n].body = e.body
         /\ [e EXCEPT !.serial = n].device = e.device
         /\ [e EXCEPT !.serial = n].repeat = e.repeat
BY DEF Entries

LEMMA LastIsIn ==
  ASSUME NEW r \in Seq(Entries)
  PROVE  /\ Len(r) \in Nat /\ (r = <<>> <=> Len(r) = 0)
         /\ r # <<>> => Last(r) \in Entries /\ Last(r) = r[Len(r)]
BY EmptySeq, LenProperties DEF Last

(* With what was held flushed, the ring ends with the newest request if it  *)
(* ends with a request.                                                     *)
LEMMA FlushedIs ==
  ASSUME TraceInv
  PROVE  /\ Flushed \in Seq(Entries) /\ Len(Flushed) <= RingMax
         /\ Named(Flushed)
         /\ Flushed # <<>> /\ Last(Flushed).kind = "request" =>
              Newest(Last(Flushed))
         /\ FlushedSerial \in Nat /\ FlushedSerial >= serial
<1>1. ValuesOK /\ NewestInv /\ PairInv /\ Named(ring)
  BY DEF TraceInv
<1>2. CASE held
  <2> DEFINE e == held_req
             n == serial + 1
  <2>1. /\ ring \in Seq(Entries) /\ Len(ring) <= RingMax
        /\ e \in Entries /\ e.kind = "request" /\ Newest(e) /\ n \in Nat
    BY <1>1, <1>2 DEF ValuesOK, NewestInv
  <2>2. Flushed = Push(ring, e, n) /\ FlushedSerial = n
    BY <1>2 DEF Flushed, FlushedSerial
  <2> HIDE DEF e, n
  <2>3. /\ Ends(Flushed, ring, [e EXCEPT !.serial = n])
        /\ Named(Flushed)
    BY <1>1, <2>1, <2>2, PushIs DEF Fits
  <2>4. Newest(Last(Flushed))
    BY <2>1, <2>3, SerialAlone DEF Newest, Ends
  <2>5. n >= serial
    BY <1>1 DEF n, ValuesOK
  <2> QED
    BY <2>1, <2>2, <2>3, <2>4, <2>5, TraceAssumption DEF Ends
<1>3. CASE ~held
  <2>1. Flushed = ring /\ FlushedSerial = serial
    BY <1>1, <1>3 DEF Flushed, FlushedSerial, ValuesOK
  <2> QED
    BY <1>1, <2>1 DEF ValuesOK, NewestInv
<1> QED
  BY <1>2, <1>3

(* Nothing was received yet. *)
LEMMA InitInv == Init => TraceInv
<1> SUFFICES ASSUME Init PROVE TraceInv
  OBVIOUS
<1>1. \A s \in Seqs : Entry("request", s, Nothing, Nothing) \in Entries
                      /\ Entry("request", s, Nothing, Nothing).kind = "request"
  BY EntryIs DEF Kinds, Contents
<1>2. ring = <<>> /\ ring \in Seq(Entries) /\ Len(ring) = 0
  BY EmptySeq DEF Init
<1>3. held_req \in Entries /\ held_req.kind = "request"
  BY <1>1 DEF Init
<1>4. pend \in [Seqs -> Contents] /\ seen \in [count : Nat, last : Nat]
  BY DEF Init, Contents
<1>5. ValuesOK
  <2>1. serial \in Nat /\ held \in BOOLEAN /\ pair_valid \in BOOLEAN
    BY DEF Init
  <2>2. /\ cur_req \in Contents /\ cur_seq \in Seqs
        /\ pair_req \in Contents /\ pair_rep \in Contents
    BY DEF Init, Contents
  <2>3. Len(ring) <= RingMax
    BY <1>2, TraceAssumption
  <2> QED
    BY <1>2, <1>3, <1>4, <2>1, <2>2, <2>3 DEF ValuesOK
<1>6. NewestInv /\ PairInv /\ SerialInv
  BY <1>2 DEF Init, NewestInv, PairInv, SerialInv
<1>7. WindowInv
  BY <1>2 DEF Init, WindowInv
<1>8. Named(ring)
  BY <1>2 DEF Named
<1> QED
  BY <1>5, <1>6, <1>7, <1>8 DEF TraceInv

-----------------------------------------------------------------------------
(* A push after a flush: the new serial is one no window has seen.          *)
LEMMA PushSeen ==
  ASSUME TraceInv, NEW e \in Entries, PushFlushed(e), UNCHANGED viewVars
  PROVE  /\ Ends(ring', Flushed, [e EXCEPT !.serial = serial']) /\ ring' # <<>>
         /\ Named(Flushed) /\ Fits(Flushed, e) => Named(ring')
         /\ serial' \in Nat
         /\ SerialInv' /\ WindowInv'
<1> DEFINE n == FlushedSerial + 1
<1>1. /\ Flushed \in Seq(Entries) /\ Len(Flushed) <= RingMax
      /\ FlushedSerial \in Nat /\ FlushedSerial >= serial
  BY FlushedIs
<1>2. n \in Nat /\ n > serial /\ n > 0 /\ serial \in Nat
  BY <1>1 DEF TraceInv, ValuesOK
<1>3. ring' = Push(Flushed, e, n) /\ serial' = n
  BY DEF PushFlushed
<1> HIDE DEF n
<1>4. /\ Ends(ring', Flushed, [e EXCEPT !.serial = n])
      /\ Named(Flushed) /\ Fits(Flushed, e) => Named(ring')
  BY <1>1, <1>2, <1>3, PushIs
<1>5. ring' # <<>> /\ Last(ring').serial = n
  BY <1>2, <1>4, LastIsIn, SerialAlone DEF Ends
<1>6. SerialInv'
  BY <1>2, <1>3, <1>5 DEF SerialInv
<1>7. WindowInv'
  <2>1. Mark'.last = n
    BY <1>5 DEF Mark
  <2>2. /\ seen.last <= serial /\ seen.last \in Nat
        /\ seen.count = 0 => shown = <<>>
    BY DEF TraceInv, WindowInv, ValuesOK
  <2>3. seen # Mark'
    BY <1>2, <2>1, <2>2
  <2> QED
    BY <1>2, <1>3, <2>2, <2>3 DEF WindowInv
<1> QED
  BY <1>2, <1>3, <1>4, <1>5, <1>6, <1>7

-----------------------------------------------------------------------------
(* A request: held back if it repeats the exchange the ring ends with, else *)
(* pushed.                                                                  *)
LEMMA RequestInv ==
  ASSUME TraceInv, NEW seq \in Seqs, NEW body \in Bodies, FeedRequest(seq, body)
  PROVE  TraceInv'
<1> DEFINE e == Entry("request", seq, body, Unit(body))
<1>1. /\ e \in Entries /\ e.kind = "request" /\ e.seq = seq /\ e.body = body
      /\ e.device = Unit(body) /\ e.repeat = 1
  BY EntryIs, TraceAssumption DEF Kinds, Contents, Unit
<1>2. /\ pend' = [pend EXCEPT ![seq] = Unit(body)]
      /\ cur_req' = body /\ cur_seq' = seq
      /\ UNCHANGED <<pair_req, pair_rep, viewVars>>
      /\ \/ /\ pair_valid /\ pair_req = body
            /\ held' = TRUE /\ held_req' = e
            /\ UNCHANGED <<ring, serial, pair_valid>>
         \/ /\ PushFlushed(e) /\ pair_valid' = FALSE
            /\ UNCHANGED held_req
  BY DEF FeedRequest, Same
<1> HIDE DEF e
<1>3. /\ ValuesOK /\ NewestInv /\ PairInv /\ SerialInv /\ WindowInv /\ Named(ring)
  BY DEF TraceInv
<1>4. /\ pend' \in [Seqs -> Contents] /\ pend'[seq] = Unit(body)
      /\ cur_req' \in Contents /\ cur_seq' \in Seqs
      /\ pair_req' \in Contents /\ pair_rep' \in Contents
      /\ seen' \in [count : Nat, last : Nat]
  BY <1>2, <1>3 DEF ValuesOK, Unit, Contents
<1>5. Newest(e)'
  BY <1>1, <1>2, <1>4 DEF Newest
<1>6. CASE /\ pair_valid /\ pair_req = body
           /\ held' = TRUE /\ held_req' = e
           /\ UNCHANGED <<ring, serial, pair_valid>>
  <2>1. ValuesOK'
    BY <1>1, <1>3, <1>4, <1>6 DEF ValuesOK
  <2>2. Last(ring).kind = "reply" /\ Last(ring') = Last(ring)
    BY <1>3, <1>6 DEF PairInv, Exchange
  <2>3. NewestInv'
    BY <1>5, <1>6, <2>2 DEF NewestInv, Newest
  <2>4. PairInv'
    BY <1>1, <1>2, <1>3, <1>6, <2>2 DEF PairInv, Exchange
  <2>5. SerialInv' /\ WindowInv' /\ Named(ring')
    BY <1>2, <1>3, <1>6 DEF SerialInv, WindowInv, Named, Mark
  <2> QED
    BY <2>1, <2>3, <2>4, <2>5 DEF TraceInv, Named
<1>7. CASE PushFlushed(e) /\ pair_valid' = FALSE /\ UNCHANGED held_req
  <2>1. /\ Ends(ring', Flushed, [e EXCEPT !.serial = serial']) /\ ring' # <<>>
        /\ Named(Flushed) /\ Fits(Flushed, e) => Named(ring')
        /\ serial' \in Nat
        /\ SerialInv' /\ WindowInv'
    BY <1>1, <1>2, <1>7, PushSeen
  <2>2. Fits(Flushed, e) /\ Named(Flushed)
    BY <1>1, FlushedIs DEF Fits
  <2>3. held' = FALSE
    BY <1>7 DEF PushFlushed
  <2>4. ring' \in Seq(Entries) /\ Len(ring') <= RingMax
    BY <2>1, TraceAssumption DEF Ends
  <2>5. ValuesOK'
    BY <1>3, <1>4, <1>7, <2>1, <2>3, <2>4 DEF ValuesOK
  <2>6. NewestInv'
    <3>1. Newest(Last(ring))'
      BY <1>1, <1>5, <2>1, SerialAlone DEF Ends, Newest
    <3> QED
      BY <2>3, <3>1 DEF NewestInv
  <2>7. PairInv'
    BY <1>7, <2>3 DEF PairInv
  <2> QED
    BY <2>1, <2>2, <2>5, <2>6, <2>7 DEF TraceInv, Named
<1> QED
  BY <1>2, <1>6, <1>7

LEMMA AgainIs ==
  ASSUME NEW e \in Entries, NEW seq \in Seqs, NEW n \in Nat
  PROVE  /\ Again(e, seq, n) \in Entries
         /\ Again(e, seq, n).kind = e.kind /\ Again(e, seq, n).body = e.body
         /\ Again(e, seq, n).device = e.device
         /\ Again(e, seq, n).seq = seq /\ Again(e, seq, n).repeat = e.repeat + 1
         /\ Again(e, seq, n).serial = n
<1> DEFINE a == [kind |-> e.kind, seq |-> seq, body |-> e.body,
                 device |-> e.device, repeat |-> e.repeat + 1, serial |-> n]
<1> DEFINE e1 == [e EXCEPT !.seq = seq]
<1>1. e1 = [kind |-> e.kind, seq |-> seq, body |-> e.body, device |-> e.device,
            repeat |-> e.repeat, serial |-> e.serial]
  BY DEF Entries
<1>2. Again(e, seq, n) = [e1 EXCEPT !.repeat = @ + 1, !.serial = n]
  BY DEF Again
<1> HIDE DEF e1
<1>3. Again(e, seq, n) = a
  BY <1>1, <1>2
<1>4. a \in Entries
  BY DEF Entries
<1> QED
  BY <1>3, <1>4

(* The reply completes a repeat: both entries count it and take its number. *)
LEMMA FoldInv ==
  ASSUME TraceInv, NEW seq \in Seqs, NEW body \in Bodies, FoldReply(seq, body)
  PROVE  TraceInv'
<1> DEFINE n == Len(ring)
           req == ring[n - 1]
           rep == ring[n]
<1>n. n = Len(ring)
  OBVIOUS
<1>1. /\ ValuesOK /\ NewestInv /\ PairInv /\ SerialInv /\ WindowInv /\ Named(ring)
  BY DEF TraceInv
<1>2. /\ held /\ n >= 2
      /\ pend' = [pend EXCEPT ![seq] = Nothing]
      /\ serial' = serial + 2 /\ held' = FALSE
      /\ UNCHANGED <<curVars, held_req, pairVars, viewVars>>
  BY DEF FoldReply, Folds, Answer
<1>ring. ring' = [ring EXCEPT ![n - 1] = Again(req, seq, serial + 1),
                           ![n] = Again(rep, seq, serial + 2)]
  BY DEF FoldReply
<1>3. /\ ring \in Seq(Entries) /\ n \in Nat /\ n <= RingMax /\ serial \in Nat
      /\ req \in Entries /\ rep \in Entries /\ Last(ring) = rep
  BY <1>1, <1>2, LenProperties DEF ValuesOK, Last
<1>4. pair_valid /\ Exchange(req, rep)
  BY <1>1, <1>2, <1>3 DEF PairInv
<1> DEFINE req2 == Again(req, seq, serial + 1)
           rep2 == Again(rep, seq, serial + 2)
<1>5. /\ req2 \in Entries /\ rep2 \in Entries
      /\ req2.kind = req.kind /\ req2.body = req.body /\ req2.device = req.device
      /\ req2.seq = seq /\ req2.repeat = req.repeat + 1
      /\ rep2.kind = rep.kind /\ rep2.body = rep.body /\ rep2.device = rep.device
      /\ rep2.seq = seq /\ rep2.repeat = rep.repeat + 1 /\ rep2.serial = serial + 2
  <2>1. serial + 1 \in Nat /\ serial + 2 \in Nat
    BY <1>3
  <2> HIDE DEF req, rep
  <2> QED
    BY <1>3, <2>1, AgainIs
<1> HIDE DEF req, rep, req2, rep2
<1>6. /\ ring' \in Seq(Entries) /\ Len(ring') = n
      /\ ring'[n - 1] = req2 /\ ring'[n] = rep2
      /\ \A i \in 1..(n - 2) : ring'[i] = ring[i]
  BY <1>ring, <1>2, <1>3, <1>5 DEF req2, rep2
<1> HIDE DEF n
<1>7. Last(ring') = rep2 /\ ring' # <<>>
  BY <1>2, <1>3, <1>6, EmptySeq DEF Last
<1>8. /\ ring'[n - 1].kind = "request" /\ ring'[n - 1].body = pair_req
      /\ ring'[n].kind = "reply" /\ ring'[n].body = pair_rep
      /\ ring'[n - 1].repeat = ring'[n].repeat /\ ring'[n - 1].seq = ring'[n].seq
      /\ ring'[n - 1].device = ring'[n].device
  BY <1>4, <1>5, <1>6 DEF Exchange
<1>9. ValuesOK'
  <2>1. pend' \in [Seqs -> Contents]
    BY <1>1, <1>2 DEF ValuesOK, Contents
  <2>2. ring' \in Seq(Entries) /\ Len(ring') <= RingMax /\ serial' \in Nat
    BY <1>2, <1>3, <1>6
  <2> QED
    BY <1>1, <1>2, <2>1, <2>2 DEF ValuesOK
<1>10. NewestInv'
  <2>1. rep2.kind = "reply"
    BY <1>4, <1>5 DEF Exchange
  <2> QED
    BY <1>2, <1>7, <2>1 DEF NewestInv
<1>11. PairInv'
  BY <1>2, <1>3, <1>4, <1>6, <1>7, <1>8 DEF PairInv, Exchange
<1>12. SerialInv'
  BY <1>2, <1>3, <1>5, <1>7 DEF SerialInv
<1>13. WindowInv'
  <2>1. Mark'.last = serial + 2
    BY <1>5, <1>7 DEF Mark
  <2>2. /\ seen.last <= serial /\ seen.last \in Nat
        /\ seen.count = 0 => shown = <<>>
    BY <1>1 DEF WindowInv, ValuesOK
  <2>3. seen # Mark'
    BY <1>3, <2>1, <2>2
  <2> QED
    BY <1>2, <1>3, <2>2, <2>3 DEF WindowInv
<1>14. Named(ring')
  <2> SUFFICES ASSUME NEW i \in 1..(n - 1),
                      ring'[i].kind = "request", ring'[i + 1].kind # "request",
                      ring'[i].seq = ring'[i + 1].seq
               PROVE  ring'[i + 1].device = ring'[i].device
    BY <1>6 DEF Named
  <2>1. CASE i = n - 1
    BY <1>3, <1>4, <1>5, <1>6, <2>1 DEF Exchange
  <2>2. CASE i = n - 2
    <3>1. ring'[i + 1].kind = "request"
      BY <1>3, <1>4, <1>5, <1>6, <2>2 DEF Exchange
    <3> QED
      BY <3>1
  <2>3. CASE i < n - 2
    <3>1. ring'[i] = ring[i] /\ ring'[i + 1] = ring[i + 1]
      BY <1>3, <1>6, <2>3
    <3> QED
      BY <1>1, <1>3, <1>n, <2>3, <3>1 DEF Named
  <2> QED
    BY <1>3, <2>1, <2>2, <2>3
<1> QED
  BY <1>9, <1>10, <1>11, <1>12, <1>13, <1>14 DEF TraceInv, Named

(* Any other reply, or a timeout.  That the entry under it is its request   *)
(* is all the code looks at: that request is then the newest, and the one   *)
(* outstanding.                                                             *)
LEMMA AnswerInv ==
  ASSUME TraceInv, NEW kind \in {"reply", "timeout"}, NEW seq \in Seqs,
         NEW body \in Contents, PushReply(kind, seq, body)
  PROVE  TraceInv'
<1> DEFINE e == Entry(kind, seq, body, pend[seq])
           above == ring'[Len(ring') - 1]
<1>1. /\ ValuesOK /\ NewestInv /\ PairInv /\ SerialInv /\ WindowInv /\ Named(ring)
  BY DEF TraceInv
<1>2. pend[seq] \in Contents /\ kind \in Kinds
  BY <1>1 DEF ValuesOK, Kinds
<1>3. /\ e \in Entries /\ e.kind = kind /\ e.seq = seq /\ e.body = body
      /\ e.device = pend[seq] /\ e.repeat = 1
  BY <1>2, EntryIs
<1>4. /\ PushFlushed(e)
      /\ pend' = [pend EXCEPT ![seq] = Nothing]
      /\ pair_req' = IF pair_valid' THEN cur_req ELSE pair_req
      /\ pair_rep' = IF pair_valid' THEN body ELSE pair_rep
      /\ UNCHANGED <<curVars, held_req, viewVars>>
  BY DEF PushReply, Answer
<1>5. pair_valid' = (/\ kind = "reply" /\ Len(ring') >= 2 /\ seq = cur_seq
                     /\ above.kind = "request" /\ above.seq = seq)
  BY DEF PushReply
<1> HIDE DEF e
<1>6. /\ Ends(ring', Flushed, [e EXCEPT !.serial = serial']) /\ ring' # <<>>
      /\ Named(Flushed) /\ Fits(Flushed, e) => Named(ring')
      /\ serial' \in Nat
      /\ SerialInv' /\ WindowInv'
  BY <1>3, <1>4, PushSeen
<1>7. /\ Flushed \in Seq(Entries) /\ Named(Flushed)
      /\ Flushed # <<>> /\ Last(Flushed).kind = "request" => Newest(Last(Flushed))
  BY FlushedIs
<1>8. held' = FALSE
  BY <1>4 DEF PushFlushed
<1>9. /\ ring' \in Seq(Entries) /\ Len(ring') <= RingMax
      /\ Last(ring') = [e EXCEPT !.serial = serial']
      /\ Len(ring') >= 2 => Len(Flushed) >= 1
      /\ Len(Flushed) >= 1 => above = Last(Flushed)
  BY <1>6, TraceAssumption DEF Ends
<1> DEFINE l == Last(ring')
<1>10. /\ l.kind = kind /\ l.seq = seq /\ l.body = body /\ l.device = pend[seq]
       /\ l.repeat = 1
  BY <1>3, <1>6, <1>9, SerialAlone
<1> HIDE DEF above, l
<1>11. Fits(Flushed, e)
  <2> SUFFICES ASSUME Len(Flushed) # 0, Last(Flushed).kind = "request",
                      Last(Flushed).seq = e.seq
               PROVE  e.device = Last(Flushed).device
    BY DEF Fits
  <2>1. Newest(Last(Flushed))
    BY <1>7, LastIsIn
  <2> QED
    BY <1>3, <2>1 DEF Newest
<1>12. ValuesOK'
  <2>1. pend' \in [Seqs -> Contents]
    BY <1>1, <1>4 DEF ValuesOK, Contents
  <2>2. pair_valid' \in BOOLEAN
    BY <1>5
  <2>3. pair_req' \in Contents /\ pair_rep' \in Contents
    BY <1>1, <1>4 DEF ValuesOK
  <2> QED
    BY <1>1, <1>4, <1>6, <1>8, <1>9, <2>1, <2>2, <2>3 DEF ValuesOK
<1>13. NewestInv'
  <2>1. Last(ring').kind # "request"
    BY <1>10 DEF l
  <2> QED
    BY <1>8, <2>1 DEF NewestInv
<1>14. PairInv'
  <2> SUFFICES ASSUME pair_valid'
               PROVE  Len(ring') >= 2 /\ Exchange(ring[Len(ring) - 1], Last(ring))'
    BY <1>8 DEF PairInv
  <2>1. /\ kind = "reply" /\ Len(ring') >= 2 /\ seq = cur_seq
        /\ above.kind = "request" /\ above.seq = seq
    BY <1>5
  <2>2. above = Last(Flushed) /\ Len(Flushed) >= 1
    BY <1>9, <2>1
  <2>3. Newest(above)
    BY <1>7, <2>1, <2>2, LastIsIn
  <2>4. pair_req' = cur_req /\ pair_rep' = body
    BY <1>4
  <2>5. /\ above.kind = "request" /\ above.body = pair_req'
        /\ l.kind = "reply" /\ l.body = pair_rep'
        /\ above.repeat = l.repeat
        /\ above.seq = l.seq /\ above.device = l.device
    BY <1>10, <2>1, <2>3, <2>4 DEF Newest
  <2> QED
    BY <2>1, <2>5 DEF Exchange, above, l
<1> QED
  BY <1>6, <1>7, <1>11, <1>12, <1>13, <1>14 DEF TraceInv, Named

(* Clearing leaves what is outstanding, and the serial.                     *)
LEMMA ClearInv == ASSUME TraceInv, Clear PROVE TraceInv'
<1>1. /\ ring' = <<>> /\ held' = FALSE /\ pair_valid' = FALSE
      /\ UNCHANGED <<serial, held_req, curVars, pair_req, pair_rep, pend, viewVars>>
  BY DEF Clear
<1>2. ValuesOK /\ WindowInv
  BY DEF TraceInv
<1>3. ring' \in Seq(Entries) /\ Len(ring') = 0
  BY <1>1, EmptySeq
<1>4. ValuesOK'
  <2>1. Len(ring') <= RingMax
    BY <1>3, TraceAssumption
  <2> QED
    BY <1>1, <1>2, <1>3, <2>1 DEF ValuesOK
<1>5. NewestInv' /\ PairInv' /\ SerialInv' /\ WindowInv'
  BY <1>1, <1>2 DEF NewestInv, PairInv, SerialInv, WindowInv
<1>6. Named(ring)'
  BY <1>3 DEF Named
<1> QED
  BY <1>4, <1>5, <1>6 DEF TraceInv

LEMMA MarkIs ==
  ASSUME TraceInv
  PROVE  /\ Mark \in [count : Nat, last : Nat] /\ Mark.last <= serial
         /\ Mark.count = Len(ring) /\ (Mark.count = 0 <=> ring = <<>>)
<1>1. ring \in Seq(Entries) /\ serial \in Nat /\ SerialInv
  BY DEF TraceInv, ValuesOK
<1>2. Len(ring) \in Nat /\ (ring = <<>> <=> Len(ring) = 0)
  BY <1>1, LastIsIn
<1> QED
  BY <1>1, <1>2 DEF Mark, SerialInv

(* A window redraws, unless what it saw is still what there is.             *)
LEMMA PollInv == ASSUME TraceInv, Poll PROVE TraceInv'
<1>1. /\ seen' = Mark /\ shown' = IF Mark = seen THEN shown ELSE ring
      /\ UNCHANGED <<ring, serial, held, held_req, curVars, pairVars, pend>>
  BY DEF Poll
<1>2. ValuesOK /\ WindowInv
  BY DEF TraceInv
<1>3. ValuesOK' /\ NewestInv' /\ PairInv' /\ SerialInv' /\ Named(ring)'
  BY <1>1, MarkIs
  DEF TraceInv, ValuesOK, NewestInv, Newest, PairInv, Exchange, SerialInv, Named
<1>4. WindowInv'
  <2>1. CASE Mark = seen
    BY <1>1, <1>2, <2>1 DEF WindowInv, Mark
  <2>2. CASE Mark # seen
    BY <1>1, <2>2, MarkIs DEF WindowInv
  <2> QED
    BY <2>1, <2>2
<1> QED
  BY <1>3, <1>4 DEF TraceInv

LEMMA StepInv == TraceInv /\ [Next]_vars => TraceInv'
<1> SUFFICES ASSUME TraceInv, [Next]_vars PROVE TraceInv'
  OBVIOUS
<1>1. ASSUME NEW seq \in Seqs, NEW body \in Bodies,
             FeedRequest(seq, body) \/ Reply(seq, body)
      PROVE  TraceInv'
  <2>1. body \in Contents
    BY DEF Contents
  <2> QED
    BY <1>1, <2>1, RequestInv, FoldInv, AnswerInv DEF Reply
<1>2. ASSUME NEW seq \in Seqs, Timeout(seq) PROVE TraceInv'
  BY <1>2, AnswerInv DEF Timeout, Contents
<1>3. CASE Clear
  BY <1>3, ClearInv
<1>4. CASE Poll
  BY <1>4, PollInv
<1>5. CASE UNCHANGED vars
  BY <1>5
  DEF vars, TraceInv, ValuesOK, NewestInv, Newest, PairInv, Exchange, SerialInv,
    WindowInv, Mark, Named
<1> QED
  BY <1>1, <1>2, <1>3, <1>4, <1>5 DEF Next

-----------------------------------------------------------------------------
(* Holds in every reachable state. *)
THEOREM TraceInvariant == Spec => []TraceInv
BY InitInv, StepInv, PTL DEF Spec

(* sptrace.c's fold: the two entries it counts up are the request and the   *)
(* reply the held request repeats.                                          *)
THEOREM FoldsRight == Spec => []FoldsIntoItsLike
<1>1. TraceInv => FoldsIntoItsLike
  <2> SUFFICES ASSUME TraceInv, held
               PROVE  /\ pair_valid /\ Len(ring) >= 2
                      /\ ring[Len(ring) - 1].kind = "request"
                      /\ ring[Len(ring) - 1].body = held_req.body
                      /\ ring[Len(ring)].kind = "reply"
                      /\ ring[Len(ring)].body = pair_rep
                      /\ ring[Len(ring) - 1].repeat = ring[Len(ring)].repeat
    BY DEF FoldsIntoItsLike
  <2> QED
    BY DEF TraceInv, PairInv, Exchange, Last
<1> QED
  BY <1>1, TraceInvariant, PTL

(* sptrace.c's pending table: a reply right under its request has the       *)
(* request's unit.                                                          *)
THEOREM NamesItsUnit == Spec => []ReplyNamesItsUnit
<1>1. TraceInv => ReplyNamesItsUnit
  BY DEF TraceInv, Named, ReplyNamesItsUnit
<1> QED
  BY <1>1, TraceInvariant, PTL

(* The debugger window's FujiNet tab: count and newest serial unchanged     *)
(* mean nothing changed.                                                    *)
THEOREM ShowsTheRing == Spec => []WindowIsCurrent
<1>1. TraceInv => WindowIsCurrent
  <2> SUFFICES ASSUME TraceInv, Mark = seen PROVE shown = ring
    BY DEF WindowIsCurrent
  <2>1. CASE ring = <<>>
    BY <2>1, MarkIs DEF TraceInv, WindowInv
  <2>2. CASE ring # <<>>
    BY <2>2 DEF TraceInv, WindowInv
  <2> QED
    BY <2>1, <2>2
<1> QED
  BY <1>1, TraceInvariant, PTL
=============================================================================
