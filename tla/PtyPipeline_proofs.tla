------------------------- MODULE PtyPipeline_proofs -------------------------
(***************************************************************************)
(* What the credit ledger guarantees for every set of connections and      *)
(* PTYs, every pair of watermarks and every order of calls.  The output    *)
(* pipeline implements it, so that holds of the pipeline too; and the      *)
(* bounds that only its own order of steps gives.                          *)
(***************************************************************************)
EXTENDS PtyPipeline, TLAPS, WellFoundedInduction

(* The two updates of a connection's map keep it a map from PTYs to naturals. *)
LEMMA CreditType ==
  ASSUME NEW panes, IsDebts(panes), NEW p \in Ptys, NEW n \in Nat
  PROVE  IsDebts(Credit(panes, p, n))
  BY DEF Credit, IsDebts

LEMMA DebitType ==
  ASSUME NEW panes, IsDebts(panes), NEW p \in DOMAIN panes, NEW n \in Nat
  PROVE  IsDebts(Debit(panes, p, n))
  BY DEF Debit, IsDebts

LEMMA NoDebtType == IsDebts(NoDebt)
  BY DEF NoDebt, IsDebts

LEMMA FlowTypeStep ==
  ASSUME FlowTypeOK, [FlowNext]_flowVars
  PROVE  FlowTypeOK'
<1>. USE BytesAssumption
<1>1. ASSUME NEW c \in Conns, RegisterConn(c) PROVE FlowTypeOK'
  BY <1>1, NoDebtType DEF FlowTypeOK, RegisterConn
<1>2. ASSUME NEW c \in Conns, UnregisterConn(c) PROVE FlowTypeOK'
  BY <1>2 DEF FlowTypeOK, UnregisterConn, Unregistered, Deregister, ReevalPause, flowVars
<1>3. ASSUME NEW c \in Conns, ResetConn(c) PROVE FlowTypeOK'
  BY <1>3, NoDebtType DEF FlowTypeOK, ResetConn, Unregistered, ReevalPause, flowVars
<1>4. ASSUME NEW p \in Ptys, OnPtyClosed(p) PROVE FlowTypeOK'
  BY <1>4 DEF FlowTypeOK, OnPtyClosed, IsDebts
<1>5. ASSUME NEW p \in Ptys, NEW n \in Bytes, OnBroadcast(p, n) PROVE FlowTypeOK'
  BY <1>5, CreditType DEF FlowTypeOK, OnBroadcast
<1>6. ASSUME NEW p \in Ptys, NEW n \in Bytes, NEW c \in Conns, OnSent(c, p, n)
      PROVE FlowTypeOK'
  BY <1>6, CreditType DEF FlowTypeOK, OnSent, Unregistered, flowVars
<1>7. ASSUME NEW p \in Ptys, NEW n \in Bytes, NEW c \in Conns, OnAck(c, p, n)
      PROVE FlowTypeOK'
  BY <1>7, DebitType
     DEF FlowTypeOK, OnAck, Unregistered, NothingOwed, ReevalPause, flowVars
<1>8. CASE UNCHANGED flowVars
  BY <1>8 DEF FlowTypeOK, flowVars
<1>9. QED
  BY <1>1, <1>2, <1>3, <1>4, <1>5, <1>6, <1>7, <1>8 DEF FlowNext

(* Every reachable state is well typed: in particular a counter is never      *)
(* negative, whatever a client acknowledges (flow.rs 110-116).                *)
THEOREM FlowTypeCorrect == FlowSpec => []FlowTypeOK
<1>1. FlowInit => FlowTypeOK
  BY DEF FlowInit, FlowTypeOK
<1>2. FlowTypeOK /\ [FlowNext]_flowVars => FlowTypeOK'
  BY FlowTypeStep
<1>3. QED
  BY <1>1, <1>2, PTL DEF FlowSpec

-----------------------------------------------------------------------------
(* An ack lowers one debt and leaves the others. *)
LEMMA DebitDebt ==
  ASSUME NEW panes, IsDebts(panes), NEW p \in DOMAIN panes, NEW n \in Nat
  PROVE  /\ DOMAIN Debit(panes, p, n) = DOMAIN panes
         /\ \A q \in DOMAIN panes : q # p => Debit(panes, p, n)[q] = panes[q]
         /\ Debit(panes, p, n)[p] <= panes[p]
  BY DEF Debit, IsDebts

LEMMA UnackedType ==
  ASSUME FlowTypeOK, NEW c, NEW p
  PROVE  Unacked(c, p) \in Nat
  BY DEF FlowTypeOK, IsDebts, Unacked, UnackedIn

(* A reader stays held back while no debt for its PTY shrinks.  *)
LEMMA BehindMonotone ==
  ASSUME NEW l1, NEW l2, NEW q, StillBehind(l1, q),
         DOMAIN l1 \subseteq DOMAIN l2,
         \A c \in DOMAIN l1 : /\ UnackedIn(l1, c, q) \in Nat
                              /\ UnackedIn(l2, c, q) \in Nat
                              /\ UnackedIn(l2, c, q) >= UnackedIn(l1, c, q)
  PROVE  StillBehind(l2, q)
<1>1. PICK c \in DOMAIN l1 : UnackedIn(l1, c, q) >= LOW_WATERMARK
  BY DEF StillBehind
<1>2. UnackedIn(l2, c, q) >= LOW_WATERMARK
  BY <1>1, WatermarkAssumption
<1>3. QED
  BY <1>1, <1>2 DEF StillBehind

LEMMA AtHighIsBehind ==
  ASSUME NEW ledger, NEW p, AtHigh(ledger, p),
         \A c \in DOMAIN ledger : UnackedIn(ledger, c, p) \in Nat
  PROVE  StillBehind(ledger, p)
  BY WatermarkAssumption DEF AtHigh, StillBehind

LedgerInv == PausedIsJustified /\ BehindIsPaused

(* A call that only lowers debts and re-evaluates the PTYs whose debts it     *)
(* lowered: unregister_conn, reset_conn, on_ack.                              *)
LEMMA ReleaseStep ==
  ASSUME FlowTypeOK, FlowTypeOK', LedgerInv, NEW S,
         paused' = ReevalPause(conns', S),
         DOMAIN conns' \subseteq DOMAIN conns,
         \A c \in DOMAIN conns', q \in Ptys : UnackedIn(conns', c, q) <= Unacked(c, q),
         \A q \in Ptys \ S : StillBehind(conns, q) => StillBehind(conns', q)
  PROVE  LedgerInv'
<1>1. ASSUME NEW q \in paused' PROVE StillBehind(conns', q)
  <2>1. q \in paused /\ q \in Ptys /\ StillBehind(conns, q)
    BY DEF ReevalPause, LedgerInv, PausedIsJustified, FlowTypeOK
  <2>2. CASE q \in S
    BY <2>2 DEF ReevalPause
  <2>. QED
    BY <2>1, <2>2
<1>2. ASSUME NEW q \in Ptys, AtHigh(conns', q) PROVE q \in paused'
  <2>1. PICK c \in DOMAIN conns' : UnackedIn(conns', c, q) >= HIGH_WATERMARK
    BY <1>2 DEF AtHigh
  <2>2. Unacked(c, q) \in Nat /\ UnackedIn(conns', c, q) \in Nat
    BY UnackedType DEF FlowTypeOK, IsDebts, UnackedIn
  <2>3. Unacked(c, q) >= HIGH_WATERMARK
    BY <2>1, <2>2, WatermarkAssumption
  <2>4. q \in paused
    BY <2>3 DEF LedgerInv, BehindIsPaused, AtHigh, Unacked
  <2>5. StillBehind(conns', q)
    BY <2>1, <2>2, WatermarkAssumption DEF StillBehind
  <2>. QED
    BY <2>4, <2>5 DEF ReevalPause
<1>. QED
  BY <1>1, <1>2 DEF LedgerInv, PausedIsJustified, BehindIsPaused

(* A call that only raises the debts for one PTY and pauses it when one of    *)
(* them reaches the high watermark: on_broadcast, on_sent.                    *)
LEMMA ChargeStep ==
  ASSUME FlowTypeOK, FlowTypeOK', LedgerInv, NEW p \in Ptys,
         DOMAIN conns' = DOMAIN conns,
         \A c \in DOMAIN conns, q \in Ptys :
           /\ UnackedIn(conns', c, q) >= Unacked(c, q)
           /\ q # p => UnackedIn(conns', c, q) = Unacked(c, q),
         paused \subseteq paused',
         paused' \subseteq paused \cup {p},
         p \in paused' => p \in paused \/ AtHigh(conns', p),
         AtHigh(conns', p) => p \in paused'
  PROVE  LedgerInv'
<1>0. \A c \in DOMAIN conns, q \in Ptys :
        UnackedIn(conns', c, q) \in Nat /\ UnackedIn(conns, c, q) \in Nat
  BY DEF FlowTypeOK, IsDebts, UnackedIn
<1>1. ASSUME NEW q \in paused' PROVE StillBehind(conns', q)
  <2>1. CASE q \in paused
    <3>1. q \in Ptys /\ StillBehind(conns, q)
      BY <2>1 DEF LedgerInv, PausedIsJustified, FlowTypeOK
    <3>. QED
      BY <3>1, <1>0, BehindMonotone DEF Unacked
  <2>2. CASE q \notin paused
    <3>1. q = p /\ AtHigh(conns', p)
      BY <2>2
    <3>. QED
      BY <3>1, <1>0, AtHighIsBehind
  <2>. QED
    BY <2>1, <2>2
<1>2. ASSUME NEW q \in Ptys, AtHigh(conns', q) PROVE q \in paused'
  <2>1. CASE q = p
    BY <1>2, <2>1
  <2>2. CASE q # p
    <3>1. AtHigh(conns, q)
      BY <1>2, <2>2 DEF AtHigh, Unacked
    <3>. QED
      BY <3>1 DEF LedgerInv, BehindIsPaused
  <2>. QED
    BY <2>1, <2>2
<1>. QED
  BY <1>1, <1>2 DEF LedgerInv, PausedIsJustified, BehindIsPaused

LEMMA LedgerStutters ==
  ASSUME LedgerInv, UNCHANGED flowVars
  PROVE  LedgerInv'
  BY DEF LedgerInv, PausedIsJustified, BehindIsPaused, StillBehind, AtHigh, UnackedIn, flowVars

LEMMA LedgerInvStep ==
  ASSUME FlowTypeOK, FlowTypeOK', LedgerInv, [FlowNext]_flowVars
  PROVE  LedgerInv'
<1>. USE BytesAssumption
<1>1. ASSUME NEW c \in Conns, RegisterConn(c) PROVE LedgerInv'
  <2>1. /\ DOMAIN conns \subseteq DOMAIN conns'
        /\ \A d \in DOMAIN conns : conns'[d] = conns[d]
        /\ \A d \in DOMAIN conns' \ DOMAIN conns : conns'[d] = NoDebt
        /\ paused' = paused
    BY <1>1 DEF RegisterConn
  <2>2. \A d \in DOMAIN conns, q \in Ptys :
          UnackedIn(conns', d, q) = UnackedIn(conns, d, q)
    BY <2>1 DEF UnackedIn
  <2>3. \A d \in DOMAIN conns' \ DOMAIN conns, q \in Ptys : UnackedIn(conns', d, q) = 0
    BY <2>1 DEF UnackedIn, NoDebt
  <2>. QED
    BY <2>1, <2>2, <2>3, WatermarkAssumption
       DEF LedgerInv, PausedIsJustified, BehindIsPaused, StillBehind, AtHigh, FlowTypeOK
<1>2. ASSUME NEW c \in Conns, UnregisterConn(c) PROVE LedgerInv'
  <2>1. CASE Unregistered(c)
    BY <2>1, LedgerStutters DEF Unregistered
  <2>2. CASE c \in DOMAIN conns
    <3>1. /\ DOMAIN conns' = DOMAIN conns \ {c}
          /\ \A d \in DOMAIN conns' : conns'[d] = conns[d]
          /\ paused' = ReevalPause(conns', DOMAIN conns[c])
      BY <1>2, <2>2 DEF UnregisterConn, Unregistered, Deregister
    <3>2. \A d \in DOMAIN conns', q \in Ptys : UnackedIn(conns', d, q) = Unacked(d, q)
      BY <3>1 DEF UnackedIn, Unacked
    <3>3. \A d \in DOMAIN conns', q \in Ptys : UnackedIn(conns', d, q) <= Unacked(d, q)
      BY <3>2, UnackedType
    <3>4. ASSUME NEW q \in Ptys \ DOMAIN conns[c], StillBehind(conns, q)
          PROVE  StillBehind(conns', q)
      <4>1. PICK d \in DOMAIN conns : UnackedIn(conns, d, q) >= LOW_WATERMARK
        BY <3>4 DEF StillBehind
      <4>2. d # c
        BY <3>4, <4>1, WatermarkAssumption DEF UnackedIn
      <4>. QED
        BY <3>1, <3>2, <4>1, <4>2 DEF StillBehind, Unacked
    <3>. QED
      BY <3>1, <3>3, <3>4, ReleaseStep
  <2>. QED
    BY <1>2, <2>1, <2>2 DEF UnregisterConn
<1>3. ASSUME NEW c \in Conns, ResetConn(c) PROVE LedgerInv'
  <2>1. CASE Unregistered(c)
    BY <2>1, LedgerStutters DEF Unregistered
  <2>2. CASE c \in DOMAIN conns
    <3>1. /\ DOMAIN conns' = DOMAIN conns
          /\ \A d \in DOMAIN conns \ {c} : conns'[d] = conns[d]
          /\ conns'[c] = NoDebt
          /\ paused' = ReevalPause(conns', DOMAIN conns[c])
      BY <1>3, <2>2 DEF ResetConn, Unregistered
    <3>2. \A d \in DOMAIN conns \ {c}, q \in Ptys : UnackedIn(conns', d, q) = Unacked(d, q)
      BY <3>1 DEF UnackedIn, Unacked
    <3>3. \A q \in Ptys : UnackedIn(conns', c, q) = 0
      BY <3>1 DEF UnackedIn, NoDebt
    <3>4. \A d \in DOMAIN conns', q \in Ptys : UnackedIn(conns', d, q) <= Unacked(d, q)
      BY <3>1, <3>2, <3>3, UnackedType
    <3>5. ASSUME NEW q \in Ptys \ DOMAIN conns[c], StillBehind(conns, q)
          PROVE  StillBehind(conns', q)
      <4>1. PICK d \in DOMAIN conns : UnackedIn(conns, d, q) >= LOW_WATERMARK
        BY <3>5 DEF StillBehind
      <4>2. d # c
        BY <3>5, <4>1, WatermarkAssumption DEF UnackedIn
      <4>. QED
        BY <3>1, <3>2, <4>1, <4>2 DEF StillBehind, Unacked
    <3>. QED
      BY <3>1, <3>4, <3>5, ReleaseStep
  <2>. QED
    BY <1>3, <2>1, <2>2 DEF ResetConn
<1>4. ASSUME NEW p \in Ptys, OnPtyClosed(p) PROVE LedgerInv'
  <2>1. /\ DOMAIN conns' = DOMAIN conns
        /\ \A d \in DOMAIN conns : /\ DOMAIN conns'[d] = DOMAIN conns[d] \ {p}
                                   /\ \A q \in DOMAIN conns'[d] : conns'[d][q] = conns[d][q]
        /\ paused' = paused \ {p}
    BY <1>4 DEF OnPtyClosed
  <2>2. \A d \in DOMAIN conns, q \in Ptys \ {p} : UnackedIn(conns', d, q) = UnackedIn(conns, d, q)
    BY <2>1 DEF UnackedIn
  <2>3. \A d \in DOMAIN conns : UnackedIn(conns', d, p) = 0
    BY <2>1 DEF UnackedIn
  <2>. QED
    BY <2>1, <2>2, <2>3, WatermarkAssumption
       DEF LedgerInv, PausedIsJustified, BehindIsPaused, StillBehind, AtHigh, FlowTypeOK
<1>5. ASSUME NEW p \in Ptys, NEW n \in Bytes, OnBroadcast(p, n) PROVE LedgerInv'
  <2>1. /\ DOMAIN conns' = DOMAIN conns
        /\ \A d \in DOMAIN conns : conns'[d] = Credit(conns[d], p, n)
        /\ \A d \in DOMAIN conns : IsDebts(conns[d])
        /\ n \in Nat
    BY <1>5 DEF OnBroadcast, FlowTypeOK
  <2>2. ASSUME NEW d \in DOMAIN conns, NEW q \in Ptys
        PROVE  /\ UnackedIn(conns', d, q) >= Unacked(d, q)
               /\ q # p => UnackedIn(conns', d, q) = Unacked(d, q)
    <3>1. /\ conns'[d] = Credit(conns[d], p, n)
          /\ IsDebts(conns[d])
          /\ d \in DOMAIN conns'
      BY <2>1
    <3>. QED
      BY <2>1, <3>1 DEF Credit, IsDebts, Unacked, UnackedIn
  <2>3. AtHigh(conns', p) <=> \E d \in DOMAIN conns : conns'[d][p] >= HIGH_WATERMARK
    BY <2>1 DEF AtHigh, UnackedIn, Credit
  <2>4. paused' = paused \cup {q \in {p} : AtHigh(conns', p)}
    BY <1>5, <2>3 DEF OnBroadcast
  <2>. QED
    BY <2>1, <2>2, <2>4, ChargeStep
<1>6. ASSUME NEW p \in Ptys, NEW n \in Bytes, NEW c \in Conns, OnSent(c, p, n) PROVE LedgerInv'
  <2>1. CASE Unregistered(c)
    BY <2>1, LedgerStutters DEF Unregistered
  <2>2. CASE c \in DOMAIN conns
    <3>1. /\ DOMAIN conns' = DOMAIN conns
          /\ \A d \in DOMAIN conns \ {c} : conns'[d] = conns[d]
          /\ conns'[c] = Credit(conns[c], p, n)
          /\ \A d \in DOMAIN conns : IsDebts(conns[d])
          /\ n \in Nat
          /\ paused' = paused \cup {q \in {p} : conns'[c][p] >= HIGH_WATERMARK}
      BY <1>6, <2>2 DEF OnSent, Unregistered, FlowTypeOK
    <3>2. ASSUME NEW d \in DOMAIN conns, NEW q \in Ptys
          PROVE  /\ UnackedIn(conns', d, q) >= Unacked(d, q)
                 /\ q # p => UnackedIn(conns', d, q) = Unacked(d, q)
      <4>1. CASE d = c
        BY <3>1, <4>1 DEF Credit, IsDebts, Unacked, UnackedIn
      <4>2. CASE d # c
        BY <3>1, <4>2 DEF IsDebts, Unacked, UnackedIn
      <4>. QED
        BY <4>1, <4>2
    <3>3. UnackedIn(conns', c, p) = conns'[c][p]
      BY <2>2, <3>1 DEF UnackedIn, Credit
    <3>4. p \in paused' => p \in paused \/ AtHigh(conns', p)
      BY <2>2, <3>1, <3>3 DEF AtHigh
    <3>5. ASSUME AtHigh(conns', p) PROVE p \in paused'
      <4>1. PICK d \in DOMAIN conns : UnackedIn(conns', d, p) >= HIGH_WATERMARK
        BY <3>1, <3>5 DEF AtHigh
      <4>2. CASE d = c
        BY <3>1, <3>3, <4>1, <4>2
      <4>3. CASE d # c
        <5>1. UnackedIn(conns', d, p) = Unacked(d, p)
          BY <3>1, <4>3 DEF UnackedIn, Unacked
        <5>. QED
          BY <3>1, <4>1, <5>1 DEF LedgerInv, BehindIsPaused, AtHigh, Unacked
      <4>. QED
        BY <4>2, <4>3
    <3>. QED
      BY <3>1, <3>2, <3>4, <3>5, ChargeStep
  <2>. QED
    BY <1>6, <2>1, <2>2 DEF OnSent
<1>7. ASSUME NEW p \in Ptys, NEW n \in Bytes, NEW c \in Conns, OnAck(c, p, n) PROVE LedgerInv'
  <2>1. CASE Unregistered(c) \/ NothingOwed(c, p)
    BY <2>1, LedgerStutters DEF Unregistered, NothingOwed
  <2>2. CASE c \in DOMAIN conns /\ p \in DOMAIN conns[c]
    <3>1. /\ DOMAIN conns' = DOMAIN conns
          /\ \A d \in DOMAIN conns \ {c} : conns'[d] = conns[d]
          /\ conns'[c] = Debit(conns[c], p, n)
          /\ IsDebts(conns[c])
          /\ n \in Nat
          /\ paused' = ReevalPause(conns', {p})
      BY <1>7, <2>2 DEF OnAck, Unregistered, NothingOwed, FlowTypeOK
    <3>2. \A d \in DOMAIN conns \ {c}, q \in Ptys : UnackedIn(conns', d, q) = Unacked(d, q)
      BY <3>1 DEF UnackedIn, Unacked
    <3>3. \A q \in Ptys \ {p} : UnackedIn(conns', c, q) = Unacked(c, q)
      BY <2>2, <3>1, DebitDebt DEF UnackedIn, Unacked
    <3>4. UnackedIn(conns', c, p) <= Unacked(c, p)
      BY <2>2, <3>1, DebitDebt DEF UnackedIn, Unacked
    <3>5. \A d \in DOMAIN conns', q \in Ptys : UnackedIn(conns', d, q) <= Unacked(d, q)
      BY <3>1, <3>2, <3>3, <3>4, UnackedType
    <3>6. \A q \in Ptys \ {p} : StillBehind(conns, q) => StillBehind(conns', q)
      BY <3>1, <3>2, <3>3 DEF StillBehind, Unacked
    <3>. QED
      BY <3>1, <3>5, <3>6, ReleaseStep
  <2>. QED
    BY <1>7, <2>1, <2>2 DEF OnAck
<1>8. CASE UNCHANGED flowVars
  BY <1>8, LedgerStutters
<1>. QED
  BY <1>1, <1>2, <1>3, <1>4, <1>5, <1>6, <1>7, <1>8 DEF FlowNext

LEMMA LedgerInvHolds == FlowSpec => []LedgerInv
<1>1. FlowInit => LedgerInv
  BY DEF FlowInit, LedgerInv, PausedIsJustified, BehindIsPaused, AtHigh
<1>2. FlowTypeOK /\ FlowTypeOK' /\ LedgerInv /\ [FlowNext]_flowVars => LedgerInv'
  BY LedgerInvStep
<1>3. QED
  BY <1>1, <1>2, FlowTypeCorrect, PTL DEF FlowSpec

(* A reader is held back only while a registered connection owes at least the  *)
(* low watermark: a connection that left, was reset or caught up never keeps   *)
(* it stopped (flow.rs 48-72, 109-121).                                        *)
THEOREM PauseJustified == FlowSpec => []PausedIsJustified
  BY LedgerInvHolds, PTL DEF LedgerInv

(* Whoever owes the high watermark holds the reader back (flow.rs 80-107).     *)
THEOREM BackpressureApplied == FlowSpec => []BehindIsPaused
  BY LedgerInvHolds, PTL DEF LedgerInv

(* No step ever stops a reader below the high watermark or lets it go while a  *)
(* registered connection still owes the low one (flow.rs 3-6, 148-162).        *)
THEOREM HysteresisHolds == FlowSpec => Hysteresis
<1>1. ASSUME FlowTypeOK, [FlowNext]_flowVars
      PROVE  [\A p \in Ptys :
                /\ p \in paused' \ paused => AtHigh(conns', p)
                /\ p \in paused \ paused' => ~StillBehind(conns', p)]_flowVars
  <2>. SUFFICES ASSUME NEW q \in Ptys, flowVars' # flowVars
                PROVE  /\ q \in paused' \ paused => AtHigh(conns', q)
                       /\ q \in paused \ paused' => ~StillBehind(conns', q)
    OBVIOUS
  <2>. USE DEF ReevalPause
  <2>1. ASSUME NEW c \in Conns, RegisterConn(c)
        PROVE  paused' = paused
    BY <2>1 DEF RegisterConn
  <2>2. ASSUME NEW c \in Conns, UnregisterConn(c) \/ ResetConn(c)
        PROVE  /\ paused' \subseteq paused
               /\ q \in paused \ paused' => ~StillBehind(conns', q)
    BY <2>2 DEF UnregisterConn, ResetConn, Unregistered
  <2>3. ASSUME NEW p \in Ptys, OnPtyClosed(p)
        PROVE  /\ paused' \subseteq paused
               /\ q \in paused \ paused' => ~StillBehind(conns', q)
    BY <2>3, WatermarkAssumption DEF OnPtyClosed, StillBehind, UnackedIn
  <2>4. ASSUME NEW p \in Ptys, NEW n \in Bytes, OnBroadcast(p, n)
        PROVE  /\ paused \subseteq paused'
               /\ q \in paused' \ paused => AtHigh(conns', q)
    BY <2>4 DEF OnBroadcast, AtHigh, UnackedIn, Credit
  <2>5. ASSUME NEW p \in Ptys, NEW n \in Bytes, NEW c \in Conns, OnSent(c, p, n)
        PROVE  /\ paused \subseteq paused'
               /\ q \in paused' \ paused => AtHigh(conns', q)
    BY <2>5 DEF OnSent, Unregistered, AtHigh, UnackedIn, Credit
  <2>6. ASSUME NEW p \in Ptys, NEW n \in Bytes, NEW c \in Conns, OnAck(c, p, n)
        PROVE  /\ paused' \subseteq paused
               /\ q \in paused \ paused' => ~StillBehind(conns', q)
    BY <2>6 DEF OnAck, Unregistered, NothingOwed
  <2>. QED
    BY <1>1, <2>1, <2>2, <2>3, <2>4, <2>5, <2>6 DEF FlowNext
<1>2. QED
  BY <1>1, FlowTypeCorrect, PTL DEF FlowSpec, Hysteresis
-----------------------------------------------------------------------------
LEMMA TypeStep ==
  ASSUME PipelineTypeOK, [Next]_vars
  PROVE  PipelineTypeOK'
<1>. USE PipelineAssumption, WatermarkAssumption, BytesAssumption, MessageAssumption
         DEF flowVars, clientVars, replayVars, counters
<1>1. ASSUME NEW p \in Ptys, WaitCapacity(p) PROVE PipelineTypeOK'
  BY <1>1 DEF WaitCapacity, PipelineTypeOK, ReaderState, Goto
<1>2. ASSUME NEW p \in Ptys, ReadChunk(p) PROVE PipelineTypeOK'
  <2>1. PICK n \in (1..MaxChunk) \cap Bytes :
          /\ output[p] + n <= MaxOutput
          /\ output' = [output EXCEPT ![p] = @ + n]
          /\ rx' = [c \in Conns |->
                      IF c \in Receivers THEN Deliver(rx[c], [pty |-> p, n |-> n]) ELSE rx[c]]
          /\ lagged' = lagged \cup Skipping
          /\ lostCredit' = lostCredit \cup Skipping
          /\ IF Receivers = {} THEN Goto(p, "wait", 0) ELSE Goto(p, "sent", n)
    BY <1>2 DEF ReadChunk
  <2>2. ASSUME NEW c \in Conns PROVE rx'[c] \in Seq(Chunk)
    <3>1. rx[c] \in Seq(Chunk) /\ [pty |-> p, n |-> n] \in Chunk
      BY <2>1 DEF PipelineTypeOK, Chunk
    <3>2. Deliver(rx[c], [pty |-> p, n |-> n]) \in Seq(Chunk)
      BY <3>1 DEF Deliver
    <3>. QED
      BY <2>1, <3>1, <3>2
  <2>3. rx' \in [Conns -> Seq(Chunk)]
    BY <2>1, <2>2
  <2>4. reader' \in [Ptys -> ReaderState]
    <3>1. CASE Receivers = {}
      <4>1. [pc |-> "wait", n |-> 0] \in ReaderState
        BY DEF ReaderState
      <4>2. reader' = [reader EXCEPT ![p] = [pc |-> "wait", n |-> 0]]
        BY <2>1, <3>1 DEF Goto
      <4>. QED
        BY <4>1, <4>2 DEF PipelineTypeOK
    <3>2. CASE Receivers # {}
      <4>1. [pc |-> "sent", n |-> n] \in ReaderState
        BY DEF ReaderState
      <4>2. reader' = [reader EXCEPT ![p] = [pc |-> "sent", n |-> n]]
        BY <2>1, <3>2 DEF Goto
      <4>. QED
        BY <4>1, <4>2 DEF PipelineTypeOK
    <3>. QED
      BY <3>1, <3>2
  <2>5. output' \in [Ptys -> 0..MaxOutput]
    BY <2>1 DEF PipelineTypeOK
  <2>6. lagged' \subseteq Conns /\ lostCredit' \subseteq Conns
    BY <2>1 DEF PipelineTypeOK, Skipping, Receivers
  <2>. QED
    BY <1>2, <2>3, <2>4, <2>5, <2>6 DEF ReadChunk, PipelineTypeOK
<1>3. ASSUME NEW p \in Ptys, CountChunk(p) PROVE PipelineTypeOK'
  BY <1>3 DEF CountChunk, PipelineTypeOK, ReaderState, Goto
<1>4. ASSUME NEW p \in Ptys, Eof(p) PROVE PipelineTypeOK'
  BY <1>4 DEF Eof, PipelineTypeOK, ReaderState, Goto
<1>5. ASSUME NEW p \in Ptys, KillPty(p) PROVE PipelineTypeOK'
  BY <1>5 DEF KillPty, PipelineTypeOK, ReaderState, Goto
<1>6. ASSUME NEW c \in Conns, Accept(c) PROVE PipelineTypeOK'
  BY <1>6 DEF Accept, PipelineTypeOK
<1>7. ASSUME NEW c \in Conns, Register(c) PROVE PipelineTypeOK'
  BY <1>7 DEF Register, PipelineTypeOK
<1>8. ASSUME NEW c \in Conns, Forward(c) PROVE PipelineTypeOK'
  <2>1. rx[c] \in Seq(Chunk) /\ rx[c] # <<>>
    BY <1>8 DEF Forward, PipelineTypeOK
  <2>2. /\ Head(rx[c]) \in Chunk /\ Tail(rx[c]) \in Seq(Chunk)
        /\ Head(rx[c]).pty \in Ptys /\ Head(rx[c]).n \in Nat
    <3>1. Head(rx[c]) \in Chunk /\ Tail(rx[c]) \in Seq(Chunk)
      BY <2>1
    <3>. QED
      BY <3>1 DEF Chunk
  <2>3. wire' \in [Conns -> [Ptys -> Nat]]
    BY <1>8, <2>2 DEF Forward, PipelineTypeOK
  <2>4. rx' \in [Conns -> Seq(Chunk)]
    BY <1>8, <2>2 DEF Forward, PipelineTypeOK
  <2>. QED
    BY <1>8, <2>3, <2>4 DEF Forward, PipelineTypeOK
<1>9. ASSUME NEW c \in Conns, ForwardFails(c) PROVE PipelineTypeOK'
  BY <1>9 DEF ForwardFails, PipelineTypeOK
<1>10. ASSUME NEW c \in Conns, EndTask(c) PROVE PipelineTypeOK'
  BY <1>10 DEF EndTask, PipelineTypeOK
<1>11. ASSUME NEW c \in Conns, HandleAck(c) PROVE PipelineTypeOK'
  BY <1>11 DEF HandleAck, PipelineTypeOK
<1>12. ASSUME NEW c \in Conns, HandleReset(c) PROVE PipelineTypeOK'
  BY <1>12 DEF HandleReset, PipelineTypeOK
<1>13. ASSUME NEW c \in Conns, Attach(c) PROVE PipelineTypeOK'
  BY <1>13 DEF Attach, PipelineTypeOK
<1>14. ASSUME NEW c \in Conns, ReplaySkip(c) PROVE PipelineTypeOK'
  BY <1>14 DEF ReplaySkip, PipelineTypeOK
<1>15. ASSUME NEW c \in Conns, ReplayWrite(c) PROVE PipelineTypeOK'
  <2>1. PICK p \in todo[c] \cap live :
          /\ output[p] \in Bytes
          /\ wire' = [wire EXCEPT ![c][p] = @ + output[p]]
          /\ replayed' = [replayed EXCEPT ![c] = [pty |-> p, n |-> output[p]]]
          /\ todo' = [todo EXCEPT ![c] = @ \ {p}]
    BY <1>15 DEF ReplayWrite
  <2>2. p \in Ptys /\ [pty |-> p, n |-> output[p]] \in Chunk
    BY <2>1 DEF PipelineTypeOK, Chunk
  <2>3. wire' \in [Conns -> [Ptys -> Nat]]
    BY <2>1, <2>2 DEF PipelineTypeOK
  <2>4. replayed' \in [Conns -> Chunk \cup {None}]
    BY <2>1, <2>2 DEF PipelineTypeOK
  <2>5. todo' \in [Conns -> SUBSET Ptys]
    BY <2>1 DEF PipelineTypeOK
  <2>. QED
    BY <1>15, <2>3, <2>4, <2>5 DEF ReplayWrite, PipelineTypeOK
<1>16. ASSUME NEW c \in Conns, ReplayCount(c) PROVE PipelineTypeOK'
  BY <1>16 DEF ReplayCount, PipelineTypeOK
<1>17. ASSUME NEW c \in Conns, AttachDone(c) PROVE PipelineTypeOK'
  BY <1>17 DEF AttachDone, PipelineTypeOK
<1>18. ASSUME NEW c \in Conns, LoopEnds(c) PROVE PipelineTypeOK'
  BY <1>18 DEF LoopEnds, PipelineTypeOK
<1>19. ASSUME NEW c \in Conns, Reload(c) PROVE PipelineTypeOK'
  <2>1. [op |-> "reset"] \in Request
    BY DEF Request
  <2>2. up' \in [Conns -> Seq(Request)]
    BY <1>19, <2>1 DEF Reload, PipelineTypeOK
  <2>3. wire' \in [Conns -> [Ptys -> Nat]]
    BY <1>19 DEF Reload, PipelineTypeOK
  <2>. QED
    BY <1>19, <2>2, <2>3 DEF Reload, PipelineTypeOK
<1>20. ASSUME NEW c \in Conns, NEW p \in Ptys, Consume(c, p) PROVE PipelineTypeOK'
  <2>1. PICK n \in (1..wire[c][p]) \cap Bytes :
          /\ wire' = [wire EXCEPT ![c][p] = @ - n]
          /\ up' = [up EXCEPT ![c] = Append(@, [op |-> "ack", pty |-> p, n |-> n])]
    BY <1>20 DEF Consume
  <2>2. [op |-> "ack", pty |-> p, n |-> n] \in Request
    BY DEF Request
  <2>3. up' \in [Conns -> Seq(Request)]
    BY <2>1, <2>2 DEF PipelineTypeOK
  <2>4. wire[c][p] \in Nat /\ wire[c][p] - n \in Nat
    BY DEF PipelineTypeOK
  <2>5. wire' \in [Conns -> [Ptys -> Nat]]
    BY <2>1, <2>4 DEF PipelineTypeOK
  <2>. QED
    BY <1>20, <2>3, <2>5 DEF Consume, PipelineTypeOK
<1>21. CASE UNCHANGED vars
  BY <1>21 DEF vars, flowVars, clientVars, replayVars, counters, PipelineTypeOK
<1>. QED
  BY <1>1, <1>2, <1>3, <1>4, <1>5, <1>6, <1>7, <1>8, <1>9, <1>10, <1>11,
     <1>12, <1>13, <1>14, <1>15, <1>16, <1>17, <1>18, <1>19, <1>20,
     <1>21 DEF Next, ReaderStep, TaskStep, AttachStep

(* Every byte count a step passes to the ledger is one the ledger accepts.   *)
LEMMA LedgerStep ==
  ASSUME PipelineTypeOK, [Next]_vars
  PROVE  [FlowNext]_(flowVars)
<1>. USE DEF flowVars
<1>1. ASSUME NEW p \in Ptys, CountChunk(p) PROVE FlowNext
  <2>1. reader[p] \in ReaderState /\ reader[p].pc = "sent"
    BY <1>1 DEF CountChunk, PipelineTypeOK
  <2>2. reader[p].n \in Bytes
    BY <2>1 DEF ReaderState
  <2>. QED
    BY <1>1, <2>2 DEF CountChunk, FlowNext
<1>2. ASSUME NEW p \in Ptys, Eof(p) \/ KillPty(p) PROVE FlowNext
  BY <1>2 DEF Eof, KillPty, FlowNext
<1>3. ASSUME NEW c \in Conns, Register(c) \/ EndTask(c) \/ LoopEnds(c) \/ HandleReset(c)
      PROVE FlowNext
  BY <1>3 DEF Register, EndTask, LoopEnds, HandleReset, FlowNext
<1>4. ASSUME NEW c \in Conns, HandleAck(c) PROVE FlowNext
  <2>1. Head(up[c]) \in Request /\ Head(up[c]).op = "ack"
    BY <1>4 DEF HandleAck, PipelineTypeOK
  <2>2. Head(up[c]).pty \in Ptys /\ Head(up[c]).n \in Bytes
    BY <2>1 DEF Request
  <2>. QED
    BY <1>4, <2>2 DEF HandleAck, FlowNext
<1>5. ASSUME NEW c \in Conns, ReplayCount(c) PROVE FlowNext
  <2>1. replayed[c] \in Chunk
    BY <1>5 DEF ReplayCount, PipelineTypeOK
  <2>2. replayed[c].pty \in Ptys /\ replayed[c].n \in Bytes
    BY <2>1 DEF Chunk
  <2>. QED
    BY <1>5, <2>2 DEF ReplayCount, FlowNext
<1>6. ASSUME NEW p \in Ptys, WaitCapacity(p) \/ ReadChunk(p) PROVE UNCHANGED flowVars
  BY <1>6 DEF WaitCapacity, ReadChunk
<1>7. ASSUME NEW c \in Conns,
             \/ Accept(c) \/ Forward(c) \/ ForwardFails(c) \/ Attach(c)
             \/ ReplaySkip(c) \/ ReplayWrite(c) \/ AttachDone(c) \/ Reload(c)
             \/ \E p \in Ptys : Consume(c, p)
      PROVE UNCHANGED flowVars
  BY <1>7 DEF Accept, Forward, ForwardFails, Attach, ReplaySkip, ReplayWrite,
              AttachDone, Reload, Consume
<1>8. CASE UNCHANGED vars
  BY <1>8 DEF vars
<1>. QED
  BY <1>1, <1>2, <1>3, <1>4, <1>5, <1>6, <1>7, <1>8
     DEF Next, ReaderStep, TaskStep, AttachStep

LEMMA InitType == Init => PipelineTypeOK
<1>1. [pc |-> "wait", n |-> 0] \in ReaderState
  BY DEF ReaderState
<1>2. QED
  BY <1>1, PipelineAssumption, WatermarkAssumption DEF Init, PipelineTypeOK

LEMMA PipelineTypeCorrect == Spec => []PipelineTypeOK
<1>1. PipelineTypeOK /\ [Next]_vars => PipelineTypeOK'
  BY TypeStep
<1>2. QED
  BY <1>1, InitType, PTL DEF Spec

(* The reader threads, connection tasks and replays of the pipeline drive the *)
(* ledger of flow.rs only in ways its own specification allows, so each of    *)
(* its theorems holds here (server.rs 430-530, 1498-1703).                    *)
THEOREM ImplementsLedger == Spec => LedgerSpec
<1>1. Init => FlowInit
  BY DEF Init
<1>2. PipelineTypeOK /\ [Next]_vars => [FlowNext]_(flowVars)
  BY LedgerStep
<1>3. QED
  BY <1>1, <1>2, PipelineTypeCorrect, PTL DEF Spec, LedgerSpec, FlowSpec

-----------------------------------------------------------------------------
(* What is proved of the ledger.                                             *)
FlowInv == FlowTypeOK /\ PausedIsJustified /\ BehindIsPaused

LEMMA FlowInvStep ==
  ASSUME FlowInv, PipelineTypeOK, [Next]_vars
  PROVE  FlowInv'
<1>1. [FlowNext]_flowVars
  BY LedgerStep
<1>2. FlowTypeOK /\ LedgerInv
  BY DEF FlowInv, LedgerInv
<1>3. FlowTypeOK'
  BY <1>1, <1>2, FlowTypeStep
<1>4. LedgerInv'
  BY <1>1, <1>2, <1>3, LedgerInvStep
<1>. QED
  BY <1>3, <1>4 DEF FlowInv, LedgerInv

LEMMA FlowInvHolds == Spec => []FlowInv
<1>1. Init => FlowInv
  BY DEF Init, FlowInv, FlowInit, FlowTypeOK, PausedIsJustified,
         BehindIsPaused, AtHigh
<1>2. FlowInv /\ PipelineTypeOK /\ [Next]_vars => FlowInv'
  BY FlowInvStep
<1>3. QED
  BY <1>1, <1>2, PipelineTypeCorrect, PTL DEF Spec

(* The pipeline's state, ledger included, keeps its types.                    *)
THEOREM TypeCorrect == Spec => []TypeOK
  BY PipelineTypeCorrect, FlowInvHolds, PTL DEF TypeOK, FlowInv

(* A reader held back owes it to a connection still registered and behind     *)
(* (flow.rs 48-58, 109-121; server.rs 1546-1548, 1701-1703).                  *)
THEOREM PipelinePausesJustly == Spec => []PausedIsJustified
  BY FlowInvHolds, PTL DEF FlowInv

-----------------------------------------------------------------------------
(* Every way out of the request loop and of the broadcast task unregisters,   *)
(* so nobody keeps debts it can no longer pay (server.rs 1546-1548,           *)
(* 1701-1703).                                                                *)
THEOREM ServedConnsOwe == Spec => []OnlyServedConnsOwe
<1>1. Init => OnlyServedConnsOwe
  BY DEF Init, FlowInit, OnlyServedConnsOwe
<1>2. ASSUME PipelineTypeOK, DOMAIN conns \subseteq Conns, OnlyServedConnsOwe, [Next]_vars
      PROVE  OnlyServedConnsOwe'
  <2>. USE DEF OnlyServedConnsOwe, flowVars
  <2>1. ASSUME NEW c \in Conns, Register(c) PROVE OnlyServedConnsOwe'
    BY <1>2, <2>1 DEF Register, RegisterConn, PipelineTypeOK
  <2>2. ASSUME NEW c \in Conns, EndTask(c) PROVE OnlyServedConnsOwe'
    BY <1>2, <2>2 DEF EndTask, UnregisterConn, Unregistered, Deregister,
                      flowVars, PipelineTypeOK
  <2>3. ASSUME NEW c \in Conns, LoopEnds(c) PROVE OnlyServedConnsOwe'
    BY <1>2, <2>3 DEF LoopEnds, UnregisterConn, Unregistered, Deregister,
                      flowVars, PipelineTypeOK
  <2>4. ASSUME NEW p \in Ptys, CountChunk(p) \/ Eof(p) \/ KillPty(p)
        PROVE OnlyServedConnsOwe'
    BY <1>2, <2>4 DEF CountChunk, Eof, KillPty, OnBroadcast, OnPtyClosed
  <2>5. ASSUME NEW c \in Conns, HandleAck(c) \/ HandleReset(c) \/ ReplayCount(c)
        PROVE OnlyServedConnsOwe'
    BY <1>2, <2>5 DEF HandleAck, HandleReset, ReplayCount, OnAck, OnSent,
                      ResetConn, Unregistered, NothingOwed, flowVars
  <2>6. ASSUME NEW c \in Conns, Accept(c) \/ ForwardFails(c) \/ Attach(c) \/ AttachDone(c)
        PROVE OnlyServedConnsOwe'
    BY <1>2, <2>6 DEF Accept, ForwardFails, Attach, AttachDone, PipelineTypeOK
  <2>7. ASSUME NEW p \in Ptys, WaitCapacity(p) \/ ReadChunk(p) PROVE OnlyServedConnsOwe'
    BY <1>2, <2>7 DEF WaitCapacity, ReadChunk
  <2>8. ASSUME NEW c \in Conns,
               \/ Forward(c) \/ ReplaySkip(c) \/ ReplayWrite(c) \/ Reload(c)
               \/ \E p \in Ptys : Consume(c, p)
        PROVE OnlyServedConnsOwe'
    BY <1>2, <2>8 DEF Forward, ReplaySkip, ReplayWrite, Reload, Consume
  <2>9. CASE UNCHANGED vars
    BY <1>2, <2>9 DEF vars
  <2>. QED
    BY <1>2, <2>1, <2>2, <2>3, <2>4, <2>5, <2>6, <2>7, <2>8, <2>9
       DEF Next, ReaderStep, TaskStep, AttachStep
<1>3. FlowInv => DOMAIN conns \subseteq Conns
  BY DEF FlowInv, FlowTypeOK
<1>4. QED
  BY <1>1, <1>2, <1>3, PipelineTypeCorrect, FlowInvHolds, PTL DEF Spec

-----------------------------------------------------------------------------
(* A reader past wait_capacity found nobody at the high watermark, and until  *)
(* it counts its own chunk nobody else charges its PTY: without replays the   *)
(* one chunk is all a debt can exceed the watermark by.                       *)
ReadsBelowHigh ==
  attaches = 0 =>
    /\ \A c \in Conns : replayed[c] = None /\ loop[c] # "attaching"
    /\ \A p \in Ptys : reader[p].pc \in {"read", "sent"} => ~AtHigh(conns, p)
    /\ \A c \in DOMAIN conns, p \in Ptys :
         UnackedIn(conns, c, p) < HIGH_WATERMARK + MaxChunk

DebtsShrink ==
  /\ \A c \in DOMAIN conns', p \in Ptys :
       \/ UnackedIn(conns', c, p) = 0
       \/ c \in DOMAIN conns /\ UnackedIn(conns', c, p) <= UnackedIn(conns, c, p)

(* Every ledger operation but the two charges leaves debts or lowers them.    *)
LEMMA ReleasesShrink ==
  ASSUME FlowTypeOK,
         \/ \E c \in Conns :
              \/ RegisterConn(c) \/ UnregisterConn(c) \/ ResetConn(c)
              \/ \E p \in Ptys, n \in Bytes : OnAck(c, p, n)
         \/ \E p \in Ptys : OnPtyClosed(p)
         \/ UNCHANGED conns
  PROVE  DebtsShrink
<1>. USE DEF FlowTypeOK, IsDebts, UnackedIn, DebtsShrink, Unregistered,
             flowVars
<1>1. ASSUME NEW c \in Conns, RegisterConn(c) PROVE DebtsShrink
  BY <1>1 DEF RegisterConn, NoDebt
<1>2. ASSUME NEW c \in Conns, UnregisterConn(c) PROVE DebtsShrink
  BY <1>2 DEF UnregisterConn, Deregister
<1>3. ASSUME NEW c \in Conns, ResetConn(c) PROVE DebtsShrink
  BY <1>3 DEF ResetConn, NoDebt
<1>4. ASSUME NEW c \in Conns, NEW p \in Ptys, NEW n \in Bytes, OnAck(c, p, n)
      PROVE  DebtsShrink
  BY <1>4, BytesAssumption, MessageAssumption DEF OnAck, NothingOwed, Debit
<1>5. ASSUME NEW p \in Ptys, OnPtyClosed(p) PROVE DebtsShrink
  BY <1>5 DEF OnPtyClosed
<1>6. CASE UNCHANGED conns
  BY <1>6
<1>. QED
  BY <1>1, <1>2, <1>3, <1>4, <1>5, <1>6

LEMMA ShrinkKeepsBound ==
  ASSUME FlowInv, FlowInv', ReadsBelowHigh, DebtsShrink,
         attaches' # 0 \/ attaches' = attaches,
         attaches = 0 => \A c \in Conns : replayed'[c] = None /\ loop'[c] # "attaching",
         \A p \in Ptys : reader'[p].pc \in {"read", "sent"} =>
                           reader[p].pc \in {"read", "sent"} \/ p \notin paused
  PROVE  ReadsBelowHigh'
<1>. SUFFICES ASSUME attaches' = 0 PROVE ReadsBelowHigh'
  BY DEF ReadsBelowHigh
<1>1. attaches = 0
  OBVIOUS
<1>2. \A c \in DOMAIN conns, p \in Ptys : UnackedIn(conns, c, p) \in Nat
  BY DEF FlowInv, FlowTypeOK, IsDebts, UnackedIn
<1>3. \A c \in DOMAIN conns', p \in Ptys : UnackedIn(conns', c, p) \in Nat
  BY DEF FlowInv, FlowTypeOK, IsDebts, UnackedIn
<1>4. ASSUME NEW c \in DOMAIN conns', NEW p \in Ptys
      PROVE  UnackedIn(conns', c, p) < HIGH_WATERMARK + MaxChunk
  BY <1>1, <1>2, <1>3, PipelineAssumption, WatermarkAssumption DEF ReadsBelowHigh, DebtsShrink
<1>5. ASSUME NEW p \in Ptys, reader'[p].pc \in {"read", "sent"}
      PROVE  ~AtHigh(conns', p)
  <2>1. ~AtHigh(conns, p)
    BY <1>1, <1>5 DEF ReadsBelowHigh, FlowInv, BehindIsPaused
  <2>. QED
    BY <2>1, <1>2, <1>3, PipelineAssumption, WatermarkAssumption DEF AtHigh, DebtsShrink
<1>. QED
  BY <1>1, <1>4, <1>5 DEF ReadsBelowHigh

LEMMA ReadsBelowHighStep ==
  ASSUME PipelineTypeOK, PipelineTypeOK', FlowInv, FlowInv', ReadsBelowHigh, [Next]_vars
  PROVE  ReadsBelowHigh'
<1>. USE DEF flowVars, clientVars, replayVars, counters, Goto, PipelineTypeOK
<1>1. ASSUME NEW p \in Ptys, WaitCapacity(p) \/ ReadChunk(p) PROVE ReadsBelowHigh'
  <2>1. UNCHANGED <<conns, attaches, replayed, loop>>
    BY <1>1 DEF WaitCapacity, ReadChunk
  <2>2. DebtsShrink
    BY <2>1, <2>1 DEF DebtsShrink, FlowInv, FlowTypeOK, IsDebts, UnackedIn
  <2>3. ASSUME NEW q \in Ptys, reader'[q].pc \in {"read", "sent"}
        PROVE  reader[q].pc \in {"read", "sent"} \/ q \notin paused
    BY <1>1, <2>3 DEF WaitCapacity, ReadChunk, MayRead
  <2>. QED
    BY <2>1, <2>2, <2>3, ShrinkKeepsBound DEF ReadsBelowHigh
<1>2. ASSUME NEW p \in Ptys, Eof(p) \/ KillPty(p) PROVE ReadsBelowHigh'
  <2>1. OnPtyClosed(p) /\ UNCHANGED <<attaches, replayed, loop>>
    BY <1>2 DEF Eof, KillPty
  <2>2. DebtsShrink
    BY <2>1, ReleasesShrink DEF FlowInv
  <2>3. ASSUME NEW q \in Ptys, reader'[q].pc \in {"read", "sent"}
        PROVE  reader[q].pc \in {"read", "sent"}
    BY <1>2, <2>3 DEF Eof, KillPty
  <2>. QED
    BY <2>1, <2>2, <2>3, ShrinkKeepsBound DEF ReadsBelowHigh
<1>3. ASSUME NEW c \in Conns, Register(c) \/ EndTask(c) \/ HandleReset(c)
      PROVE  ReadsBelowHigh'
  <2>1. DebtsShrink
    BY <1>3, ReleasesShrink DEF FlowInv, Register, EndTask, HandleReset
  <2>2. UNCHANGED <<attaches, replayed, reader>>
    BY <1>3 DEF Register, EndTask, HandleReset
  <2>3. ASSUME NEW d \in Conns, loop[d] # "attaching" PROVE loop'[d] # "attaching"
    BY <1>3, <2>3 DEF Register, EndTask, HandleReset
  <2>. QED
    BY <2>1, <2>2, <2>3, ShrinkKeepsBound DEF ReadsBelowHigh
<1>4. ASSUME NEW c \in Conns, HandleAck(c) PROVE ReadsBelowHigh'
  <2>1. Head(up[c]) \in Request /\ Head(up[c]).op = "ack"
    BY <1>4 DEF HandleAck
  <2>2. Head(up[c]).pty \in Ptys /\ Head(up[c]).n \in Bytes
    BY <2>1 DEF Request
  <2>3. DebtsShrink
    BY <1>4, <2>2, ReleasesShrink DEF FlowInv, HandleAck
  <2>4. UNCHANGED <<attaches, replayed, reader, loop>>
    BY <1>4 DEF HandleAck
  <2>. QED
    BY <2>3, <2>4, ShrinkKeepsBound DEF ReadsBelowHigh
<1>5. ASSUME NEW c \in Conns, LoopEnds(c) PROVE ReadsBelowHigh'
  <2>1. DebtsShrink
    BY <1>5, ReleasesShrink DEF FlowInv, LoopEnds
  <2>2. UNCHANGED <<attaches, replayed, reader>>
    BY <1>5 DEF LoopEnds
  <2>3. ASSUME NEW d \in Conns, loop[d] # "attaching" PROVE loop'[d] # "attaching"
    BY <1>5, <2>3 DEF LoopEnds
  <2>. QED
    BY <2>1, <2>2, <2>3, ShrinkKeepsBound DEF ReadsBelowHigh
<1>6. ASSUME NEW p \in Ptys, CountChunk(p) PROVE ReadsBelowHigh'
  <2>. SUFFICES ASSUME attaches = 0 PROVE ReadsBelowHigh'
    BY <1>6 DEF CountChunk, ReadsBelowHigh
  <2>1. /\ reader[p] \in ReaderState /\ reader[p].pc = "sent"
        /\ OnBroadcast(p, reader[p].n)
        /\ UNCHANGED <<attaches, replayed, loop>>
        /\ reader' = [reader EXCEPT ![p] = [pc |-> "wait", n |-> 0]]
    BY <1>6 DEF CountChunk
  <2>2. reader[p].n \in 1..MaxChunk
    BY <2>1 DEF ReaderState
  <2>3. ~AtHigh(conns, p)
    BY <2>1 DEF ReadsBelowHigh
  <2>4. ASSUME NEW c \in DOMAIN conns, NEW q \in Ptys
        PROVE  /\ UnackedIn(conns, c, q) \in Nat
               /\ UnackedIn(conns', c, q)
                   = UnackedIn(conns, c, q) + (IF q = p THEN reader[p].n ELSE 0)
    BY <2>1, <2>2 DEF OnBroadcast, Credit, UnackedIn, FlowInv, FlowTypeOK,
                      IsDebts
  <2>5. DOMAIN conns' = DOMAIN conns
    BY <2>1 DEF OnBroadcast
  <2>6. ASSUME NEW c \in DOMAIN conns', NEW q \in Ptys
        PROVE  UnackedIn(conns', c, q) < HIGH_WATERMARK + MaxChunk
    <3>1. CASE q = p
      BY <2>2, <2>3, <2>4, <2>5, <3>1, PipelineAssumption, WatermarkAssumption DEF AtHigh
    <3>2. CASE q # p
      BY <2>4, <2>5, <3>2 DEF ReadsBelowHigh
    <3>. QED
      BY <3>1, <3>2
  <2>7. ASSUME NEW q \in Ptys, reader'[q].pc \in {"read", "sent"}
        PROVE  ~AtHigh(conns', q)
    <3>1. q # p /\ reader[q].pc \in {"read", "sent"}
      BY <2>1, <2>7
    <3>2. ~AtHigh(conns, q)
      BY <3>1 DEF ReadsBelowHigh
    <3>. QED
      BY <2>4, <2>5, <3>1, <3>2 DEF AtHigh
  <2>. QED
    BY <2>1, <2>6, <2>7 DEF ReadsBelowHigh
<1>7. ASSUME NEW c \in Conns, Accept(c) \/ AttachDone(c) \/ ReplaySkip(c) \/ Forward(c)
                              \/ ForwardFails(c) \/ Reload(c)
                              \/ \E p \in Ptys : Consume(c, p)
      PROVE  ReadsBelowHigh'
  <2>1. UNCHANGED <<conns, attaches, replayed, reader>>
    BY <1>7 DEF Accept, AttachDone, ReplaySkip, Forward, ForwardFails, Reload, Consume
  <2>2. DebtsShrink
    BY <2>1, ReleasesShrink DEF FlowInv
  <2>3. ASSUME NEW d \in Conns, loop[d] # "attaching" PROVE loop'[d] # "attaching"
    BY <1>7, <2>3 DEF Accept, AttachDone, ReplaySkip, Forward, ForwardFails, Reload, Consume
  <2>. QED
    BY <2>1, <2>2, <2>3, ShrinkKeepsBound DEF ReadsBelowHigh
<1>8. ASSUME NEW c \in Conns, Attach(c) PROVE ReadsBelowHigh'
  BY <1>8, PipelineAssumption, WatermarkAssumption DEF Attach, ReadsBelowHigh
<1>9. ASSUME NEW c \in Conns, ReplayWrite(c) \/ ReplayCount(c) PROVE ReadsBelowHigh'
  BY <1>9 DEF ReplayWrite, ReplayCount, ReadsBelowHigh
<1>10. CASE UNCHANGED vars
  BY <1>10 DEF vars, ReadsBelowHigh
<1>. QED
  BY <1>1, <1>2, <1>3, <1>4, <1>5, <1>6, <1>7, <1>8, <1>9, <1>10
     DEF Next, ReaderStep, TaskStep, AttachStep

(* Backpressure reaches the reader in time: with no replay under way, no       *)
(* connection's debt passes the high watermark by more than one read of the   *)
(* PTY (server.rs 437-441, 511-523).                                          *)
THEOREM ReadAhead == Spec => []ReadAheadIsBounded
<1>1. Init => ReadsBelowHigh
  BY DEF Init, FlowInit, ReadsBelowHigh
<1>2. /\ PipelineTypeOK /\ PipelineTypeOK' /\ FlowInv /\ FlowInv'
      /\ ReadsBelowHigh /\ [Next]_vars
      => ReadsBelowHigh'
  BY ReadsBelowHighStep
<1>3. ReadsBelowHigh => ReadAheadIsBounded
  BY PipelineAssumption, WatermarkAssumption DEF ReadsBelowHigh, ReadAheadIsBounded, Unacked, UnackedIn
<1>4. QED
  BY <1>1, <1>2, <1>3, PipelineTypeCorrect, FlowInvHolds, PTL DEF Spec

-----------------------------------------------------------------------------
(* Sums of sequences: induction over a sequence is the choice of the least     *)
(* place where the claim fails.                                              *)

(* Every nonempty set of natural numbers has a least element.                *)
LEMMA LeastNumber ==
  ASSUME NEW S \in SUBSET Nat, S # {}
  PROVE  \E n \in S : \A m \in S : n <= m
<1>. DEFINE Less == OpToRel(<, Nat)
<1>1. \E n \in S : \A m \in S : ~ (<<m, n>> \in Less)
  BY NatLessThanWellFounded, WFMin
<1>2. \A n, m \in Nat : m < n => <<m, n>> \in Less
  BY DEF OpToRel
<1>. HIDE DEF Less
<1>3. PICK n \in S : \A m \in S : ~ (<<m, n>> \in Less)
  BY <1>1
<1>4. \A m \in S : ~ (m < n)
  BY <1>2, <1>3
<1>. QED
  BY <1>4

(* s holds the sums of the first 0..k numbers of w.                          *)
IsSum(s, w, k) ==
  /\ s \in [0..k -> Nat]
  /\ s[0] = 0
  /\ \A i \in 1..k : s[i] = s[i-1] + w[i]

(* Numbers can be summed up.                                                 *)
LEMMA SumExists ==
  ASSUME NEW w \in Seq(Nat)
  PROVE  \E s : IsSum(s, w, Len(w))
<1>. DEFINE Bad == {k \in 0..Len(w) : ~ \E s : IsSum(s, w, k)}
<1>. SUFFICES ASSUME Bad # {} PROVE FALSE
  <2>. SUFFICES ASSUME ~ \E s : IsSum(s, w, Len(w)) PROVE Bad # {}
    OBVIOUS
  <2>1. Len(w) \in Bad
    OBVIOUS
  <2>. QED
    BY <2>1, Zenon
<1>0. Bad \in SUBSET Nat
  OBVIOUS
<1>1. PICK k \in Bad : \A m \in Bad : k <= m
  <2>. HIDE DEF Bad
  <2>. QED
    BY <1>0, LeastNumber
<1>2. k # 0
  <2>1. IsSum([i \in 0..0 |-> 0], w, 0)
    BY DEF IsSum
  <2>. QED
    BY <2>1
<1>3. PICK s : IsSum(s, w, k - 1)
  BY <1>1, <1>2
<1>4. IsSum([i \in 0..k |-> IF i = k THEN s[k - 1] + w[k] ELSE s[i]], w, k)
  BY <1>1, <1>2, <1>3 DEF IsSum
<1>. QED
  BY <1>1, <1>4

(* What the recursive definition defines is that sum.                        *)
LEMMA SumsAreSums ==
  ASSUME NEW w \in Seq(Nat)
  PROVE  IsSum(Sums(w), w, Len(w))
<1>1. PICK s : IsSum(s, w, Len(w))
  BY SumExists
<1>2. s = [i \in 0..Len(w) |-> IF i = 0 THEN 0 ELSE s[i-1] + w[i]]
  BY <1>1 DEF IsSum
<1>3. Sums(w) = [i \in 0..Len(w) |-> IF i = 0 THEN 0 ELSE Sums(w)[i-1] + w[i]]
  BY <1>2, Zenon DEF Sums
<1>. DEFINE S == Sums(w)
<1>. HIDE DEF S
<1>4. S = [i \in 0..Len(w) |-> IF i = 0 THEN 0 ELSE S[i-1] + w[i]]
  BY <1>3 DEF S
<1>5. S[0] = 0 /\ \A i \in 1..Len(w) : S[i] = S[i-1] + w[i]
  BY <1>4
<1>6. \A i \in 0..Len(w) : S[i] \in Nat
  <2>. DEFINE Bad == {i \in 0..Len(w) : S[i] \notin Nat}
  <2>. SUFFICES ASSUME Bad # {} PROVE FALSE
    OBVIOUS
  <2>0. Bad \in SUBSET Nat
    OBVIOUS
  <2>1. PICK k \in Bad : \A m \in Bad : k <= m
    <3>. HIDE DEF Bad
    <3>. QED
      BY <2>0, LeastNumber
  <2>2. k # 0
    BY <1>5
  <2>3. S[k - 1] \in Nat /\ w[k] \in Nat
    BY <2>1, <2>2
  <2>. QED
    BY <1>5, <2>1, <2>2, <2>3
<1>7. S \in [0..Len(w) -> Nat]
  BY <1>4, <1>6
<1>. QED
  BY <1>5, <1>7 DEF IsSum, S

(* The sum of numbers is a number.                                          *)
LEMMA TotalIsNat ==
  ASSUME NEW w \in Seq(Nat)
  PROVE  Total(w) \in Nat
  BY SumsAreSums DEF Total, IsSum

(* One more number at the end.                                               *)
LEMMA TotalAppend ==
  ASSUME NEW w \in Seq(Nat), NEW v \in Seq(Nat), Len(v) = Len(w) + 1,
         \A i \in 1..Len(w) : v[i] = w[i]
  PROVE  Total(v) = Total(w) + v[Len(v)]
<1>. DEFINE S == Sums(w)
            T == Sums(v)
<1>1. IsSum(S, w, Len(w)) /\ IsSum(T, v, Len(v))
  BY SumsAreSums
<1>2. Total(v) = T[Len(v)] /\ Total(w) = S[Len(w)]
  BY DEF Total
<1>. HIDE DEF S, T
<1>3. \A i \in 0..Len(w) : T[i] = S[i]
  <2>. DEFINE Bad == {i \in 0..Len(w) : T[i] # S[i]}
  <2>. SUFFICES ASSUME Bad # {} PROVE FALSE
    OBVIOUS
  <2>0. Bad \in SUBSET Nat
    OBVIOUS
  <2>1. PICK k \in Bad : \A m \in Bad : k <= m
    <3>. HIDE DEF Bad
    <3>. QED
      BY <2>0, LeastNumber
  <2>2. k # 0
    BY <1>1 DEF IsSum
  <2>3. S[k - 1] = T[k - 1] /\ w[k] = v[k]
    BY <2>1, <2>2
  <2>. QED
    BY <1>1, <2>1, <2>2, <2>3 DEF IsSum
<1>. QED
  BY <1>1, <1>2, <1>3 DEF IsSum

(* One number fewer at the front.                                            *)
LEMMA TotalTail ==
  ASSUME NEW w \in Seq(Nat), NEW v \in Seq(Nat), Len(w) = Len(v) + 1,
         \A i \in 1..Len(v) : v[i] = w[i + 1]
  PROVE  Total(w) = w[1] + Total(v)
<1>. DEFINE S == Sums(v)
            T == Sums(w)
<1>1. IsSum(S, v, Len(v)) /\ IsSum(T, w, Len(w))
  BY SumsAreSums
<1>2. Total(v) = S[Len(v)] /\ Total(w) = T[Len(w)]
  BY DEF Total
<1>. HIDE DEF S, T
<1>3. \A i \in 0..Len(v) : T[i + 1] = w[1] + S[i]
  <2>. DEFINE Bad == {i \in 0..Len(v) : T[i + 1] # w[1] + S[i]}
  <2>. SUFFICES ASSUME Bad # {} PROVE FALSE
    OBVIOUS
  <2>0. Bad \in SUBSET Nat
    OBVIOUS
  <2>1. PICK k \in Bad : \A m \in Bad : k <= m
    <3>. HIDE DEF Bad
    <3>. QED
      BY <2>0, LeastNumber
  <2>2. k # 0
    BY <1>1 DEF IsSum
  <2>3. T[k] = w[1] + S[k - 1] /\ v[k] = w[k + 1]
    BY <2>1, <2>2
  <2>4. /\ k \in 1..Len(v) /\ k + 1 \in 1..Len(w)
        /\ S[k - 1] \in Nat /\ w[1] \in Nat /\ v[k] \in Nat
    <3>1. k \in 1..Len(v) /\ k + 1 \in 1..Len(w) /\ 1 \in 1..Len(w)
      BY <2>1, <2>2
    <3>2. w[1] \in Nat /\ v[k] \in Nat
      BY <3>1
    <3>3. k - 1 \in 0..Len(v)
      BY <3>1
    <3>4. S[k - 1] \in Nat
      BY <1>1, <3>3 DEF IsSum
    <3>. QED
      BY <3>1, <3>2, <3>4
  <2>5. S[k] = S[k - 1] + v[k] /\ T[k + 1] = T[k] + w[k + 1]
    <3>1. (k + 1) - 1 = k
      BY <2>4
    <3>. QED
      BY <1>1, <2>4, <3>1 DEF IsSum
  <2>. QED
    BY <2>1, <2>3, <2>4, <2>5
<1>4. T[Len(v) + 1] = w[1] + S[Len(v)]
  BY <1>3
<1>. QED
  BY <1>2, <1>4

(* Chunks and requests are summed the same way.                              *)
Weighed(g, q) == Total([i \in 1..Len(q) |-> g[q[i]]])

(* What a sequence weighs is what its elements weigh.                        *)
LEMMA WeighedFacts ==
  ASSUME NEW S, NEW g \in [S -> Nat], NEW q \in Seq(S)
  PROVE  /\ Weighed(g, q) \in Nat
         /\ \A m \in S : Weighed(g, Append(q, m)) = Weighed(g, q) + g[m]
         /\ q # <<>> => /\ Tail(q) \in Seq(S) /\ Head(q) \in S
                        /\ Weighed(g, q) = g[Head(q)] + Weighed(g, Tail(q))
<1>. DEFINE W(x) == [i \in 1..Len(x) |-> g[x[i]]]
<1>1. ASSUME NEW x \in Seq(S)
      PROVE  /\ W(x) \in Seq(Nat)
             /\ Len(W(x)) = Len(x) /\ \A i \in 1..Len(x) : W(x)[i] = g[x[i]]
  <2>1. W(x) \in [1..Len(x) -> Nat] /\ Len(x) \in Nat
    <3>1. \A i \in 1..Len(x) : x[i] \in S
      BY <1>1
    <3>. QED
      BY <1>1, <3>1
  <2>. QED
    BY <2>1
<1>2. ASSUME NEW x \in Seq(S) PROVE Weighed(g, x) = Total(W(x))
  BY DEF Weighed
<1>. HIDE DEF W
<1>3. Weighed(g, q) \in Nat
  BY <1>1, <1>2, TotalIsNat
<1>4. ASSUME NEW m \in S PROVE Weighed(g, Append(q, m)) = Weighed(g, q) + g[m]
  <2>. DEFINE r == Append(q, m)
  <2>1. r \in Seq(S) /\ Len(r) = Len(q) + 1 /\ r[Len(r)] = m
    OBVIOUS
  <2>2. \A i \in 1..Len(q) : r[i] = q[i]
    OBVIOUS
  <2>. HIDE DEF r
  <2>3. W(q) \in Seq(Nat) /\ W(r) \in Seq(Nat) /\ Len(W(r)) = Len(W(q)) + 1
    BY <1>1, <2>1
  <2>4. \A i \in 1..Len(W(q)) : W(r)[i] = W(q)[i]
    <3>. SUFFICES ASSUME NEW i \in 1..Len(W(q)) PROVE W(r)[i] = W(q)[i]
      OBVIOUS
    <3>1. Len(W(q)) = Len(q) /\ Len(q) \in Nat
      BY <1>1
    <3>2. i \in 1..Len(q) /\ i \in 1..Len(r)
      BY <2>1, <3>1
    <3>3. W(q)[i] = g[q[i]] /\ W(r)[i] = g[r[i]]
      BY <1>1, <2>1, <3>2
    <3>. QED
      BY <2>2, <3>2, <3>3
  <2>5. Total(W(r)) = Total(W(q)) + W(r)[Len(W(r))]
    BY <2>3, <2>4, TotalAppend
  <2>6. W(r)[Len(W(r))] = g[m]
    <3>1. Len(W(r)) = Len(r) /\ Len(q) \in Nat
      BY <1>1, <2>1
    <3>2. Len(r) \in 1..Len(r)
      BY <2>1, <3>1
    <3>3. W(r)[Len(r)] = g[r[Len(r)]]
      BY <1>1, <2>1, <3>2
    <3>. QED
      BY <2>1, <3>1, <3>3
  <2>. QED
    BY <1>2, <2>1, <2>5, <2>6 DEF r
<1>5. ASSUME q # <<>>
      PROVE  /\ Tail(q) \in Seq(S) /\ Head(q) \in S
             /\ Weighed(g, q) = g[Head(q)] + Weighed(g, Tail(q))
  <2>. DEFINE r == Tail(q)
  <2>1. r \in Seq(S) /\ Len(q) = Len(r) + 1 /\ q[1] = Head(q) /\ Head(q) \in S
    BY <1>5
  <2>2. \A i \in 1..Len(r) : r[i] = q[i + 1]
    BY <1>5
  <2>. HIDE DEF r
  <2>3. W(q) \in Seq(Nat) /\ W(r) \in Seq(Nat) /\ Len(W(q)) = Len(W(r)) + 1
    BY <1>1, <2>1
  <2>4. \A i \in 1..Len(W(r)) : W(r)[i] = W(q)[i + 1]
    <3>. SUFFICES ASSUME NEW i \in 1..Len(W(r)) PROVE W(r)[i] = W(q)[i + 1]
      OBVIOUS
    <3>1. Len(W(r)) = Len(r) /\ Len(r) \in Nat
      BY <1>1, <2>1
    <3>2. i \in 1..Len(r) /\ i + 1 \in 1..Len(q)
      BY <2>1, <3>1
    <3>3. W(r)[i] = g[r[i]] /\ W(q)[i + 1] = g[q[i + 1]]
      BY <1>1, <2>1, <3>2
    <3>. QED
      BY <2>2, <3>2, <3>3
  <2>5. Total(W(q)) = W(q)[1] + Total(W(r))
    BY <2>3, <2>4, TotalTail
  <2>6. W(q)[1] = g[Head(q)]
    BY <1>1, <2>1
  <2>. QED
    BY <1>2, <2>1, <2>5, <2>6 DEF r
<1>. QED
  BY <1>3, <1>4, <1>5

(* A chunk sent adds its bytes to a backlog, one taken removes them.         *)
LEMMA ChunkBytes ==
  ASSUME NEW p \in Ptys, NEW q \in Seq(Chunk)
  PROVE  /\ BytesOf(p, q) \in Nat
         /\ \A m \in Chunk : /\ BytesIn(m, p) \in Nat
                          /\ BytesOf(p, Append(q, m)) = BytesOf(p, q) + BytesIn(m, p)
         /\ q # <<>> => /\ Tail(q) \in Seq(Chunk) /\ Head(q) \in Chunk
                        /\ BytesOf(p, q) = BytesIn(Head(q), p) + BytesOf(p, Tail(q))
<1>. DEFINE g == [k \in Chunk |-> BytesIn(k, p)]
<1>1. ASSUME NEW k \in Chunk PROVE BytesIn(k, p) \in Nat
  BY BytesAssumption, MessageAssumption DEF BytesIn, Chunk
<1>2. g \in [Chunk -> Nat] /\ \A k \in Chunk : g[k] = BytesIn(k, p)
  BY <1>1
<1>. HIDE DEF g
<1>3. ASSUME NEW x \in Seq(Chunk) PROVE BytesOf(p, x) = Weighed(g, x)
  <2>1. \A i \in 1..Len(x) : x[i] \in Chunk
    BY <1>3
  <2>2. [i \in 1..Len(x) |-> BytesIn(x[i], p)] = [i \in 1..Len(x) |-> g[x[i]]]
    BY <1>2, <2>1
  <2>. QED
    BY <2>2 DEF BytesOf, Weighed
<1>4. (\A m \in Chunk : Append(q, m) \in Seq(Chunk)) /\ (q # <<>> => Tail(q) \in Seq(Chunk) /\ Head(q) \in Chunk)
  OBVIOUS
<1>5. /\ Weighed(g, q) \in Nat
      /\ \A m \in Chunk : Weighed(g, Append(q, m)) = Weighed(g, q) + g[m]
      /\ q # <<>> => Weighed(g, q) = g[Head(q)] + Weighed(g, Tail(q))
  BY <1>2, WeighedFacts
<1>. QED
  BY <1>1, <1>2, <1>3, <1>4, <1>5

(* The same of the acks among a client's requests.                          *)
LEMMA RequestBytes ==
  ASSUME NEW p \in Ptys, NEW q \in Seq(Request)
  PROVE  /\ AckedBytes(p, q) \in Nat
         /\ \A m \in Request : /\ AckedIn(m, p) \in Nat
                          /\ AckedBytes(p, Append(q, m)) = AckedBytes(p, q) + AckedIn(m, p)
         /\ q # <<>> => /\ Tail(q) \in Seq(Request) /\ Head(q) \in Request
                        /\ AckedBytes(p, q) = AckedIn(Head(q), p) + AckedBytes(p, Tail(q))
<1>. DEFINE g == [k \in Request |-> AckedIn(k, p)]
<1>1. ASSUME NEW k \in Request PROVE AckedIn(k, p) \in Nat
  BY BytesAssumption, MessageAssumption DEF AckedIn, BytesIn, Request
<1>2. g \in [Request -> Nat] /\ \A k \in Request : g[k] = AckedIn(k, p)
  BY <1>1
<1>. HIDE DEF g
<1>3. ASSUME NEW x \in Seq(Request) PROVE AckedBytes(p, x) = Weighed(g, x)
  <2>1. \A i \in 1..Len(x) : x[i] \in Request
    BY <1>3
  <2>2. [i \in 1..Len(x) |-> AckedIn(x[i], p)] = [i \in 1..Len(x) |-> g[x[i]]]
    BY <1>2, <2>1
  <2>. QED
    BY <2>2 DEF AckedBytes, Weighed
<1>4. (\A m \in Request : Append(q, m) \in Seq(Request)) /\ (q # <<>> => Tail(q) \in Seq(Request) /\ Head(q) \in Request)
  OBVIOUS
<1>5. /\ Weighed(g, q) \in Nat
      /\ \A m \in Request : Weighed(g, Append(q, m)) = Weighed(g, q) + g[m]
      /\ q # <<>> => Weighed(g, q) = g[Head(q)] + Weighed(g, Tail(q))
  BY <1>2, WeighedFacts
<1>. QED
  BY <1>1, <1>2, <1>3, <1>4, <1>5

-----------------------------------------------------------------------------
(* The account of connection c for the PTY p: what it owes, what it will be   *)
(* charged for, and where the bytes it can still acknowledge are.            *)
Debt(c, p) == UnackedIn(conns, c, p)
Uncharged(p) == IF reader[p].pc = "sent" THEN reader[p].n ELSE 0
Replay(c, p) == BytesIn(replayed[c], p)
Queued(c, p) == BytesOf(p, rx[c])
OnWire(c, p) == wire[c][p]
Acking(c, p) == AckedBytes(p, up[c])

(* DebtIsPayable for one account; and a replay's bytes, not yet charged when   *)
(* the pane closes and the debt is forgotten, are at the client.             *)
Solvent(c, p) ==
  /\ Replay(c, p) <= OnWire(c, p) + Acking(c, p)
  /\ Debt(c, p) + Uncharged(p) + Replay(c, p)
       <= Queued(c, p) + OnWire(c, p) + Acking(c, p) + MaxChunk

Owing(c) == c \in DOMAIN conns /\ c \notin lostCredit /\ task[c] = "running"

ReplayBusy == \A c \in Conns : replayed[c] # None => loop[c] = "attaching"

AllSolvent == \A c \in Conns, p \in Ptys : Owing(c) => Solvent(c, p)

Amounts ==
  \A c \in Conns, p \in Ptys :
    /\ Debt(c, p) \in Nat
    /\ Uncharged(p) \in 0..MaxChunk
    /\ Replay(c, p) \in Nat
    /\ Queued(c, p) \in Nat
    /\ OnWire(c, p) \in Nat
    /\ Acking(c, p) \in Nat
    /\ replayed[c] = None => Replay(c, p) = 0

(* No amount of an account is negative.                                      *)
LEMMA AmountsAreNumbers ==
  ASSUME PipelineTypeOK, FlowInv
  PROVE  Amounts
<1>. SUFFICES ASSUME NEW c \in Conns, NEW p \in Ptys
              PROVE  /\ Debt(c, p) \in Nat
                     /\ Uncharged(p) \in 0..MaxChunk
                     /\ Replay(c, p) \in Nat
                     /\ Queued(c, p) \in Nat
                     /\ OnWire(c, p) \in Nat
                     /\ Acking(c, p) \in Nat
                     /\ replayed[c] = None => Replay(c, p) = 0
  BY DEF Amounts
<1>1. Debt(c, p) \in Nat
  BY DEF FlowInv, FlowTypeOK, IsDebts, UnackedIn, Debt
<1>2. Uncharged(p) \in 0..MaxChunk
  <2>1. reader[p] \in ReaderState
    BY DEF PipelineTypeOK
  <2>. QED
    BY <2>1, PipelineAssumption, WatermarkAssumption DEF ReaderState, Uncharged
<1>3. Replay(c, p) \in Nat /\ (replayed[c] = None => Replay(c, p) = 0)
  <2>1. CASE replayed[c] = None
    BY <2>1 DEF Replay, BytesIn, None
  <2>2. CASE replayed[c] # None
    <3>1. replayed[c] \in Chunk
      BY <2>2 DEF PipelineTypeOK
    <3>2. replayed[c].n \in Nat
      BY <3>1, BytesAssumption, MessageAssumption DEF Chunk
    <3>. QED
      BY <2>2, <3>2 DEF Replay, BytesIn
  <2>. QED
    BY <2>1, <2>2
<1>4. Queued(c, p) \in Nat
  BY ChunkBytes DEF PipelineTypeOK, Queued
<1>5. Acking(c, p) \in Nat
  BY RequestBytes DEF PipelineTypeOK, Acking
<1>6. OnWire(c, p) \in Nat
  BY DEF PipelineTypeOK, OnWire
<1>. QED
  BY <1>1, <1>2, <1>3, <1>4, <1>5, <1>6

(* Steps that leave c's bytes where they are and charge it nothing.           *)
LEMMA SolventWhenLess ==
  ASSUME Amounts, Amounts', NEW c \in Conns, NEW p \in Ptys, Solvent(c, p),
         Debt(c, p)' = 0 \/ Debt(c, p)' <= Debt(c, p),
         Uncharged(p)' = 0 \/ Uncharged(p)' = Uncharged(p),
         UNCHANGED <<replayed[c], rx[c], wire[c], up[c]>>
  PROVE  Solvent(c, p)'
<1>1. /\ Replay(c, p)' = Replay(c, p)
      /\ Queued(c, p)' = Queued(c, p)
      /\ OnWire(c, p)' = OnWire(c, p)
      /\ Acking(c, p)' = Acking(c, p)
  BY DEF Replay, Queued, OnWire, Acking
<1>2. Uncharged(p)' <= MaxChunk /\ Uncharged(p)' <= Uncharged(p)
  BY DEF Amounts
<1>. QED
  BY <1>1, <1>2, PipelineAssumption, WatermarkAssumption DEF Amounts, Solvent

(* A connection that owes nothing and waits for no replay.                   *)
LEMMA SolventWhenFree ==
  ASSUME Amounts', NEW c \in Conns, NEW p \in Ptys,
         Debt(c, p)' = 0, replayed'[c] = None
  PROVE  Solvent(c, p)'
  BY PipelineAssumption, WatermarkAssumption DEF Amounts, Solvent

(* ReleasesShrink, for one account.                                          *)
LEMMA DebtShrinks ==
  ASSUME DebtsShrink, NEW c \in DOMAIN conns', NEW p \in Ptys
  PROVE  Debt(c, p)' = 0 \/ (c \in DOMAIN conns /\ Debt(c, p)' <= Debt(c, p))
  BY DEF DebtsShrink, Debt

(* What is known of the state a step starts from.                            *)
BeforeStep ==
  /\ PipelineTypeOK /\ FlowInv /\ OnlyServedConnsOwe
  /\ ReplayBusy /\ AllSolvent /\ Amounts

(* A reader thread moves bytes between what is uncharged, owed and queued.    *)
LEMMA ReaderKeepsSolvent ==
  ASSUME BeforeStep, Amounts', NEW q \in Ptys, ReaderStep(q) \/ KillPty(q)
  PROVE  AllSolvent'
<1>. SUFFICES ASSUME NEW c \in Conns, NEW p \in Ptys, Owing(c)'
              PROVE  Solvent(c, p)'
  BY DEF AllSolvent
<1>. USE DEF flowVars, clientVars, replayVars, counters, Goto
<1>1. CASE WaitCapacity(q)
  <2>1. Owing(c) /\ UNCHANGED <<conns, replayed, rx, wire, up>>
    BY <1>1 DEF WaitCapacity, Owing
  <2>2. Uncharged(p)' = Uncharged(p)
    BY <1>1 DEF WaitCapacity, Uncharged, BeforeStep, PipelineTypeOK
  <2>3. Debt(c, p)' = Debt(c, p)
    BY <2>1 DEF Debt
  <2>. QED
    BY <2>1, <2>2, <2>3, SolventWhenLess DEF BeforeStep, AllSolvent, Amounts
<1>2. CASE Eof(q) \/ KillPty(q)
  <2>1. OnPtyClosed(q) /\ UNCHANGED <<task, lostCredit, replayed, rx, wire, up>>
    BY <1>2 DEF Eof, KillPty
  <2>2. DebtsShrink
    BY <2>1, ReleasesShrink DEF BeforeStep, FlowInv
  <2>3. DOMAIN conns' = DOMAIN conns
    BY <2>1 DEF OnPtyClosed
  <2>4. Owing(c)
    BY <2>1, <2>3 DEF Owing
  <2>5. Uncharged(p)' = Uncharged(p) \/ Uncharged(p)' = 0
    <3>1. reader' = reader \/ reader' = [reader EXCEPT ![q] = [pc |-> "done", n |-> 0]]
      BY <1>2 DEF Eof, KillPty
    <3>2. reader \in [Ptys -> ReaderState]
      BY DEF BeforeStep, PipelineTypeOK
    <3>. QED
      BY <3>1, <3>2 DEF Uncharged
  <2>6. Debt(c, p)' = 0 \/ Debt(c, p)' <= Debt(c, p)
    BY <2>2, <2>3, <2>4, DebtShrinks DEF Owing
  <2>7. UNCHANGED <<replayed[c], rx[c], wire[c], up[c]>>
    BY <2>1
  <2>. QED
    BY <2>4, <2>5, <2>6, <2>7, SolventWhenLess DEF BeforeStep, AllSolvent
<1>3. CASE CountChunk(q)
  <2>1. /\ reader[q].pc = "sent" /\ OnBroadcast(q, reader[q].n)
        /\ reader' = [reader EXCEPT ![q] = [pc |-> "wait", n |-> 0]]
        /\ UNCHANGED <<task, lostCredit, replayed, rx, wire, up>>
    BY <1>3 DEF CountChunk
  <2>2. Owing(c)
    BY <2>1 DEF Owing, OnBroadcast
  <2>3. Debt(c, p)' + Uncharged(p)' = Debt(c, p) + Uncharged(p)
    <3>1. reader[q] \in ReaderState /\ reader[q].n \in Nat
      BY <2>1 DEF BeforeStep, PipelineTypeOK, ReaderState
    <3>2. Debt(c, p)' = Debt(c, p) + (IF p = q THEN reader[q].n ELSE 0)
      BY <2>1, <2>2, <3>1
         DEF OnBroadcast, Credit, UnackedIn, BeforeStep, FlowInv,
             FlowTypeOK, IsDebts, Debt, Owing
    <3>3. /\ p = q => Uncharged(p)' = 0 /\ Uncharged(p) = reader[q].n
          /\ p # q => Uncharged(p)' = Uncharged(p)
      BY <2>1 DEF Uncharged, BeforeStep, PipelineTypeOK
    <3>. QED
      BY <3>1, <3>2, <3>3 DEF BeforeStep, Amounts
  <2>4. /\ Replay(c, p)' = Replay(c, p)
        /\ Queued(c, p)' = Queued(c, p)
        /\ OnWire(c, p)' = OnWire(c, p)
        /\ Acking(c, p)' = Acking(c, p)
    BY <2>1 DEF Replay, Queued, OnWire, Acking
  <2>. QED
    BY <2>2, <2>3, <2>4, PipelineAssumption, WatermarkAssumption DEF BeforeStep, AllSolvent, Amounts, Solvent
<1>4. CASE ReadChunk(q)
  <2>1. PICK n \in (1..MaxChunk) \cap Bytes :
          /\ rx' = [d \in Conns |->
                      IF d \in Receivers THEN Deliver(rx[d], [pty |-> q, n |-> n]) ELSE rx[d]]
          /\ lostCredit' = lostCredit \cup Skipping
          /\ IF Receivers = {} THEN Goto(q, "wait", 0) ELSE Goto(q, "sent", n)
    BY <1>4 DEF ReadChunk
  <2>2. reader[q].pc = "read" /\ UNCHANGED <<conns, task, loop, replayed, wire, up>>
    BY <1>4 DEF ReadChunk
  <2>3. Owing(c) /\ c \in Receivers /\ c \notin Skipping
    BY <2>1, <2>2 DEF Owing, BeforeStep, OnlyServedConnsOwe, Receivers
  <2>4. reader' = [reader EXCEPT ![q] = [pc |-> "sent", n |-> n]]
    BY <2>1, <2>3
  <2>5. rx'[c] = Append(rx[c], [pty |-> q, n |-> n])
    BY <2>1, <2>3 DEF Deliver, Skipping, Owing
  <2>6. Queued(c, p)' = Queued(c, p) + (IF p = q THEN n ELSE 0)
    <3>1. [pty |-> q, n |-> n] \in Chunk /\ rx[c] \in Seq(Chunk)
      BY DEF Chunk, BeforeStep, PipelineTypeOK
    <3>2. BytesIn([pty |-> q, n |-> n], p) = IF p = q THEN n ELSE 0
      BY DEF BytesIn
    <3>. QED
      BY <2>5, <3>1, <3>2, ChunkBytes DEF Queued
  <2>7. /\ p = q => Uncharged(p) = 0 /\ Uncharged(p)' = n
        /\ p # q => Uncharged(p)' = Uncharged(p)
    BY <2>2, <2>4 DEF Uncharged, BeforeStep, PipelineTypeOK
  <2>8. /\ Replay(c, p)' = Replay(c, p)
        /\ Debt(c, p)' = Debt(c, p)
        /\ OnWire(c, p)' = OnWire(c, p)
        /\ Acking(c, p)' = Acking(c, p)
    BY <2>2 DEF Replay, Debt, OnWire, Acking
  <2>. QED
    BY <2>3, <2>6, <2>7, <2>8, PipelineAssumption, WatermarkAssumption DEF BeforeStep, AllSolvent, Amounts, Solvent
<1>. QED
  BY <1>1, <1>2, <1>3, <1>4 DEF ReaderStep

(* A connection's task moves them to the wire; an ack pays, or is wasted.     *)
LEMMA ConnKeepsSolvent ==
  ASSUME BeforeStep, Amounts', NEW d \in Conns,
         \/ Accept(d) \/ Register(d) \/ TaskStep(d) \/ HandleAck(d) \/ HandleReset(d)
         \/ LoopEnds(d)
  PROVE  AllSolvent'
<1>. SUFFICES ASSUME NEW c \in Conns, NEW p \in Ptys, Owing(c)'
              PROVE  Solvent(c, p)'
  BY DEF AllSolvent
<1>. USE DEF flowVars, clientVars, replayVars, counters, Goto
<1>0. UNCHANGED reader /\ Uncharged(p)' = Uncharged(p)
  BY DEF Accept, Register, TaskStep, Forward, ForwardFails, EndTask, HandleAck,
         HandleReset, LoopEnds, Uncharged
<1>1. CASE Accept(d) \/ ForwardFails(d)
  <2>1. Owing(c) /\ UNCHANGED <<conns, replayed, rx, wire, up>>
    BY <1>1 DEF Accept, ForwardFails, Owing, BeforeStep, PipelineTypeOK
  <2>2. Debt(c, p)' = Debt(c, p)
    BY <2>1 DEF Debt
  <2>3. Solvent(c, p) /\ Debt(c, p) \in Nat
    BY <2>1 DEF BeforeStep, AllSolvent, Amounts
  <2>. QED
    BY <1>0, <2>1, <2>2, <2>3, SolventWhenLess DEF BeforeStep
<1>2. CASE Register(d)
  <2>1. /\ RegisterConn(d) /\ loop[d] = "subscribed"
        /\ task' = [task EXCEPT ![d] = "running"]
        /\ UNCHANGED <<lostCredit, replayed, rx, wire, up>>
    BY <1>2 DEF Register
  <2>2. CASE c = d
    <3>1. Debt(c, p)' = 0
      BY <2>1, <2>2 DEF RegisterConn, NoDebt, UnackedIn, Debt
    <3>2. replayed'[c] = None
      BY <2>1, <2>2 DEF BeforeStep, ReplayBusy
    <3>. QED
      BY <3>1, <3>2, SolventWhenFree
  <2>3. CASE c # d
    <3>1. Owing(c)
      BY <2>1, <2>3 DEF Owing, RegisterConn, BeforeStep, PipelineTypeOK
    <3>2. Debt(c, p)' = Debt(c, p)
      BY <2>1, <2>3, <3>1 DEF RegisterConn, UnackedIn, Debt, Owing
    <3>3. Solvent(c, p) /\ Debt(c, p) \in Nat
      BY <3>1 DEF BeforeStep, AllSolvent, Amounts
    <3>. QED
      BY <1>0, <2>1, <3>2, <3>3, SolventWhenLess DEF BeforeStep
  <2>. QED
    BY <2>2, <2>3
<1>3. CASE EndTask(d) \/ LoopEnds(d)
  <2>1. /\ UnregisterConn(d) /\ UNCHANGED <<lostCredit, replayed>>
        /\ c # d => UNCHANGED <<task[c], rx[c], wire[c], up[c]>>
    BY <1>3 DEF EndTask, LoopEnds, BeforeStep, PipelineTypeOK
  <2>2. c # d /\ c \in DOMAIN conns /\ Debt(c, p)' = Debt(c, p)
    BY <2>1 DEF UnregisterConn, Unregistered, Deregister, flowVars,
                Owing, UnackedIn, Debt
  <2>3. Owing(c)
    BY <2>1, <2>2 DEF Owing
  <2>4. Solvent(c, p) /\ Debt(c, p) \in Nat
    BY <2>3 DEF BeforeStep, AllSolvent, Amounts
  <2>. QED
    BY <1>0, <2>1, <2>2, <2>4, SolventWhenLess DEF BeforeStep
<1>4. CASE Forward(d)
  <2>. DEFINE m == Head(rx[d])
  <2>1. /\ rx[d] # <<>>
        /\ wire' = [wire EXCEPT ![d][m.pty] = @ + m.n]
        /\ rx' = [rx EXCEPT ![d] = Tail(@)]
        /\ UNCHANGED <<conns, task, replayed, up, lostCredit>>
    BY <1>4 DEF Forward
  <2>2. Owing(c) /\ Debt(c, p)' = Debt(c, p)
        /\ Replay(c, p)' = Replay(c, p) /\ Acking(c, p)' = Acking(c, p)
    BY <2>1 DEF Owing, Debt, Replay, Acking
  <2>3. Solvent(c, p)
    BY <2>2 DEF BeforeStep, AllSolvent
  <2>4. CASE c # d
    <3>1. Queued(c, p)' = Queued(c, p) /\ OnWire(c, p)' = OnWire(c, p)
      BY <2>1, <2>4 DEF Queued, OnWire, BeforeStep, PipelineTypeOK
    <3>. QED
      BY <1>0, <2>2, <2>3, <3>1 DEF Solvent
  <2>5. CASE c = d
    <3>1. rx[c] \in Seq(Chunk) /\ rx[c] # <<>>
      BY <2>1, <2>5 DEF BeforeStep, PipelineTypeOK
    <3>2. m \in Chunk /\ BytesIn(m, p) \in Nat
          /\ BytesOf(p, rx[c]) = BytesIn(m, p) + BytesOf(p, Tail(rx[c]))
      BY <2>5, <3>1, ChunkBytes
    <3>3. rx'[c] = Tail(rx[c])
      BY <2>1, <2>5 DEF BeforeStep, PipelineTypeOK
    <3>. HIDE DEF m
    <3>4. wire'[c][p] = wire[c][p] + BytesIn(m, p)
      <4>1. m.pty \in Ptys /\ m.n \in Nat /\ wire[c] \in [Ptys -> Nat]
        BY <3>2, BytesAssumption, MessageAssumption DEF Chunk, BeforeStep, PipelineTypeOK
      <4>2. wire'[c] = [wire[c] EXCEPT ![m.pty] = @ + m.n]
        BY <2>1, <2>5 DEF BeforeStep, PipelineTypeOK
      <4>. QED
        BY <4>1, <4>2 DEF BytesIn
    <3>5. /\ OnWire(c, p)' = OnWire(c, p) + BytesIn(m, p)
          /\ Queued(c, p) = BytesIn(m, p) + Queued(c, p)'
      BY <3>2, <3>3, <3>4 DEF OnWire, Queued
    <3>. QED
      BY <1>0, <2>2, <2>3, <3>2, <3>5, PipelineAssumption, WatermarkAssumption
         DEF Solvent, BeforeStep, Amounts
  <2>. QED
    BY <2>4, <2>5
<1>5. CASE HandleReset(d)
  <2>1. /\ loop[d] = "serving" /\ ResetConn(d) /\ lostCredit' = lostCredit \ {d}
        /\ up' = [up EXCEPT ![d] = Tail(@)]
        /\ UNCHANGED <<task, replayed, rx, wire>>
    BY <1>5 DEF HandleReset
  <2>2. c \in DOMAIN conns
    BY <2>1 DEF ResetConn, Unregistered, flowVars, Owing
  <2>3. CASE c = d
    <3>1. Debt(c, p)' = 0
      BY <2>1, <2>2, <2>3
         DEF ResetConn, Unregistered, NoDebt, UnackedIn, Debt
    <3>2. replayed'[c] = None
      BY <2>1, <2>3 DEF BeforeStep, ReplayBusy
    <3>. QED
      BY <3>1, <3>2, SolventWhenFree
  <2>4. CASE c # d
    <3>1. Owing(c) /\ UNCHANGED <<replayed[c], rx[c], wire[c], up[c]>>
      BY <2>1, <2>2, <2>4 DEF Owing, BeforeStep, PipelineTypeOK
    <3>2. Debt(c, p)' = Debt(c, p)
      BY <2>1, <2>4 DEF ResetConn, Unregistered, flowVars, UnackedIn, Debt
    <3>3. Solvent(c, p) /\ Debt(c, p) \in Nat
      BY <3>1 DEF BeforeStep, AllSolvent, Amounts
    <3>. QED
      BY <1>0, <3>1, <3>2, <3>3, SolventWhenLess DEF BeforeStep
  <2>. QED
    BY <2>3, <2>4
<1>6. CASE HandleAck(d)
  <2>. DEFINE m == Head(up[d])
  <2>1. /\ loop[d] = "serving" /\ up[d] # <<>> /\ m.op = "ack"
        /\ OnAck(d, m.pty, m.n)
        /\ up' = [up EXCEPT ![d] = Tail(@)]
        /\ UNCHANGED <<task, replayed, rx, wire, lostCredit>>
    BY <1>6 DEF HandleAck
  <2>2. m \in Request /\ m.pty \in Ptys /\ m.n \in Nat
    <3>1. m \in Request
      BY <2>1 DEF BeforeStep, PipelineTypeOK
    <3>. QED
      BY <2>1, <3>1, BytesAssumption, MessageAssumption DEF Request
  <2>. HIDE DEF m
  <2>3. Owing(c)
    BY <2>1 DEF Owing, OnAck, Unregistered, NothingOwed, flowVars
  <2>4. Solvent(c, p)
    BY <2>3 DEF BeforeStep, AllSolvent
  <2>5. CASE c # d
    <3>1. UNCHANGED <<replayed[c], rx[c], wire[c], up[c]>>
      BY <2>1, <2>5 DEF BeforeStep, PipelineTypeOK
    <3>2. Debt(c, p)' = Debt(c, p)
      BY <2>1, <2>5 DEF OnAck, Unregistered, NothingOwed, flowVars,
                        UnackedIn, Debt
    <3>3. Debt(c, p) \in Nat
      BY DEF BeforeStep, Amounts
    <3>. QED
      BY <1>0, <2>4, <3>1, <3>2, <3>3, SolventWhenLess DEF BeforeStep
  <2>6. CASE c = d
    <3>1. Debt(c, p)' = 0 \/ Debt(c, p) - Debt(c, p)' = BytesIn(m, p)
      <4>1. c \in DOMAIN conns /\ \A q \in DOMAIN conns[c] : conns[c][q] \in Nat
        BY <2>3 DEF Owing, BeforeStep, FlowInv, FlowTypeOK, IsDebts
      <4>. QED
        BY <2>1, <2>2, <2>6, <4>1
           DEF OnAck, Unregistered, NothingOwed, flowVars, UnackedIn,
               Debit, Debt, BytesIn
    <3>2. /\ Replay(c, p)' = 0 /\ Replay(c, p) = 0
          /\ Queued(c, p)' = Queued(c, p)
          /\ OnWire(c, p)' = OnWire(c, p)
      <4>1. replayed[c] = None /\ replayed'[c] = None
        BY <2>1, <2>6 DEF BeforeStep, ReplayBusy
      <4>2. Replay(c, p)' = 0 /\ Replay(c, p) = 0
        BY <4>1 DEF BeforeStep, Amounts
      <4>. QED
        BY <2>1, <4>2 DEF Queued, OnWire
    <3>3. Acking(c, p) = BytesIn(m, p) + Acking(c, p)' /\ BytesIn(m, p) \in Nat
      <4>1. up[c] \in Seq(Request) /\ up[c] # <<>> /\ Head(up[c]) = m
        BY <2>1, <2>6 DEF BeforeStep, PipelineTypeOK, m
      <4>2. AckedIn(m, p) = BytesIn(m, p)
        BY <2>1 DEF AckedIn
      <4>3. up'[c] = Tail(up[c])
        BY <2>1, <2>6 DEF BeforeStep, PipelineTypeOK
      <4>4. AckedIn(m, p) \in Nat
        BY <2>2, <4>1, RequestBytes
      <4>5. AckedBytes(p, up[c]) = AckedIn(m, p) + AckedBytes(p, Tail(up[c]))
        BY <4>1, RequestBytes
      <4>. QED
        BY <4>2, <4>3, <4>4, <4>5 DEF Acking
    <3>. QED
      BY <1>0, <2>4, <3>1, <3>2, <3>3, PipelineAssumption, WatermarkAssumption DEF Solvent, BeforeStep, Amounts
  <2>. QED
    BY <2>5, <2>6
<1>. QED
  BY <1>1, <1>2, <1>3, <1>4, <1>5, <1>6 DEF TaskStep

(* A replay is on the wire before it is charged.                             *)
LEMMA AttachKeepsSolvent ==
  ASSUME BeforeStep, Amounts', NEW d \in Conns, Attach(d) \/ AttachStep(d)
  PROVE  AllSolvent'
<1>. SUFFICES ASSUME NEW c \in Conns, NEW p \in Ptys, Owing(c)'
              PROVE  Solvent(c, p)'
  BY DEF AllSolvent
<1>. USE DEF flowVars, clientVars, replayVars, counters
<1>0. UNCHANGED <<reader, task, lostCredit, rx, up>>
      /\ Uncharged(p)' = Uncharged(p)
      /\ Queued(c, p)' = Queued(c, p)
      /\ Acking(c, p)' = Acking(c, p)
  BY DEF Attach, AttachStep, ReplaySkip, ReplayWrite, ReplayCount, AttachDone, Uncharged,
         Queued, Acking
<1>1. Owing(c)
  BY <1>0 DEF Owing, Attach, AttachStep, ReplaySkip, ReplayWrite, ReplayCount, AttachDone,
              OnSent, Unregistered, flowVars
<1>2. Solvent(c, p)
  BY <1>1 DEF BeforeStep, AllSolvent
<1>3. CASE Attach(d) \/ ReplaySkip(d) \/ AttachDone(d)
  <2>1. UNCHANGED <<conns, replayed, wire>>
    BY <1>3 DEF Attach, ReplaySkip, AttachDone
  <2>2. Debt(c, p)' = Debt(c, p) /\ Replay(c, p)' = Replay(c, p) /\ OnWire(c, p)' = OnWire(c, p)
    BY <2>1 DEF Debt, Replay, OnWire
  <2>. QED
    BY <1>0, <1>2, <2>2 DEF Solvent
<1>4. CASE ReplayWrite(d)
  <2>1. PICK q \in todo[d] \cap live :
          /\ output[q] \in Bytes
          /\ wire' = [wire EXCEPT ![d][q] = @ + output[q]]
          /\ replayed' = [replayed EXCEPT ![d] = [pty |-> q, n |-> output[q]]]
    BY <1>4 DEF ReplayWrite
  <2>2. replayed[d] = None /\ UNCHANGED conns
    BY <1>4 DEF ReplayWrite
  <2>3. Debt(c, p)' = Debt(c, p)
    BY <2>2 DEF Debt
  <2>4. q \in Ptys /\ output[q] \in Nat
    BY <2>1 DEF BeforeStep, PipelineTypeOK
  <2>5. CASE c = d /\ p = q
    <3>1. Replay(c, p)' = output[q]
      BY <2>1, <2>5 DEF Replay, BytesIn, BeforeStep, PipelineTypeOK
    <3>2. OnWire(c, p)' = OnWire(c, p) + output[q]
      BY <2>1, <2>4, <2>5 DEF OnWire, BeforeStep, PipelineTypeOK
    <3>3. Replay(c, p) = 0
      BY <2>2, <2>5 DEF BeforeStep, Amounts
    <3>. QED
      BY <1>0, <1>2, <2>3, <2>4, <3>1, <3>2, <3>3, PipelineAssumption, WatermarkAssumption
         DEF Solvent, BeforeStep, Amounts
  <2>6. CASE ~(c = d /\ p = q)
    <3>1. Replay(c, p)' = Replay(c, p)
      <4>1. CASE c = d
        <5>1. Replay(c, p)' = 0
          BY <2>1, <2>6, <4>1 DEF Replay, BytesIn, BeforeStep, PipelineTypeOK
        <5>2. Replay(c, p) = 0
          BY <2>2, <4>1 DEF BeforeStep, Amounts
        <5>. QED
          BY <5>1, <5>2
      <4>2. CASE c # d
        BY <2>1, <4>2 DEF Replay, BeforeStep, PipelineTypeOK
      <4>. QED
        BY <4>1, <4>2
    <3>2. OnWire(c, p)' = OnWire(c, p)
      BY <2>1, <2>4, <2>6 DEF OnWire, BeforeStep, PipelineTypeOK
    <3>. QED
      BY <1>0, <1>2, <2>3, <3>1, <3>2 DEF Solvent
  <2>. QED
    BY <2>5, <2>6
<1>5. CASE ReplayCount(d)
  <2>1. /\ replayed[d] # None /\ OnSent(d, replayed[d].pty, replayed[d].n)
        /\ replayed' = [replayed EXCEPT ![d] = None]
        /\ UNCHANGED wire
    BY <1>5 DEF ReplayCount
  <2>2. OnWire(c, p)' = OnWire(c, p)
    BY <2>1 DEF OnWire
  <2>3. CASE c # d
    <3>1. Replay(c, p)' = Replay(c, p)
      BY <2>1, <2>3 DEF Replay, BeforeStep, PipelineTypeOK
    <3>2. Debt(c, p)' = Debt(c, p)
      BY <2>1, <2>3 DEF OnSent, Unregistered, flowVars, UnackedIn, Debt
    <3>. QED
      BY <1>0, <1>2, <2>2, <3>1, <3>2 DEF Solvent
  <2>4. CASE c = d
    <3>1. replayed[d] \in Chunk
      BY <2>1 DEF BeforeStep, PipelineTypeOK
    <3>2. replayed[d].pty \in Ptys /\ replayed[d].n \in Nat
      BY <3>1, BytesAssumption, MessageAssumption DEF Chunk
    <3>3. Debt(c, p)' = Debt(c, p) + Replay(c, p)
      BY <1>1, <2>1, <2>4, <3>2
         DEF OnSent, Unregistered, UnackedIn, Credit, Debt, Replay,
             BytesIn, Owing, BeforeStep, FlowInv, FlowTypeOK, IsDebts
    <3>4. Replay(c, p)' = 0
      <4>1. replayed'[c] = None
        BY <2>1, <2>4 DEF BeforeStep, PipelineTypeOK
      <4>. QED
        BY <4>1 DEF Amounts
    <3>. QED
      BY <1>0, <1>2, <2>2, <3>3, <3>4 DEF Solvent, BeforeStep, Amounts
  <2>. QED
    BY <2>3, <2>4
<1>. QED
  BY <1>3, <1>4, <1>5 DEF AttachStep

(* The client turns bytes into acks; a reload loses credit.                  *)
LEMMA ClientKeepsSolvent ==
  ASSUME BeforeStep, Amounts', NEW d \in Conns,
         Reload(d) \/ \E q \in Ptys : Consume(d, q)
  PROVE  AllSolvent'
<1>. SUFFICES ASSUME NEW c \in Conns, NEW p \in Ptys, Owing(c)'
              PROVE  Solvent(c, p)'
  BY DEF AllSolvent
<1>. USE DEF flowVars, clientVars, replayVars, counters
<1>0. UNCHANGED <<conns, reader, task, rx, replayed>>
      /\ Debt(c, p)' = Debt(c, p)
      /\ Uncharged(p)' = Uncharged(p)
      /\ Queued(c, p)' = Queued(c, p)
      /\ Replay(c, p)' = Replay(c, p)
  BY DEF Reload, Consume, Debt, Uncharged, Queued, Replay
<1>1. CASE Reload(d)
  <2>1. c # d /\ Owing(c)
    BY <1>0, <1>1 DEF Reload, Owing
  <2>2. wire'[c] = wire[c] /\ up'[c] = up[c]
    BY <1>1, <2>1 DEF Reload, BeforeStep, PipelineTypeOK
  <2>3. OnWire(c, p)' = OnWire(c, p) /\ Acking(c, p)' = Acking(c, p)
    BY <2>2 DEF OnWire, Acking
  <2>. QED
    BY <1>0, <2>1, <2>3 DEF Solvent, BeforeStep, AllSolvent
<1>2. ASSUME NEW q \in Ptys, Consume(d, q) PROVE Solvent(c, p)'
  <2>1. PICK n \in (1..wire[d][q]) \cap Bytes :
          /\ wire' = [wire EXCEPT ![d][q] = @ - n]
          /\ up' = [up EXCEPT ![d] = Append(@, [op |-> "ack", pty |-> q, n |-> n])]
    BY <1>2 DEF Consume
  <2>2. Owing(c)
    BY <1>0, <1>2 DEF Consume, Owing
  <2>3. OnWire(c, p)' + Acking(c, p)' = OnWire(c, p) + Acking(c, p)
    <3>1. CASE c # d
      BY <2>1, <3>1 DEF OnWire, Acking, BeforeStep, PipelineTypeOK
    <3>2. CASE c = d
      <4>. DEFINE m == [op |-> "ack", pty |-> q, n |-> n]
      <4>1. m \in Request /\ AckedIn(m, p) = IF p = q THEN n ELSE 0
        BY DEF Request, AckedIn, BytesIn
      <4>2. up[c] \in Seq(Request) /\ up'[c] = Append(up[c], m)
        BY <2>1, <3>2 DEF BeforeStep, PipelineTypeOK
      <4>. HIDE DEF m
      <4>3. Acking(c, p)' = Acking(c, p) + IF p = q THEN n ELSE 0
        BY <4>1, <4>2, RequestBytes DEF Acking
      <4>4. OnWire(c, p)' = OnWire(c, p) - IF p = q THEN n ELSE 0
        BY <2>1, <3>2 DEF OnWire, BeforeStep, PipelineTypeOK
      <4>. QED
        BY <4>3, <4>4 DEF BeforeStep, Amounts
    <3>. QED
      BY <3>1, <3>2
  <2>. QED
    BY <1>0, <2>2, <2>3, PipelineAssumption, WatermarkAssumption DEF Solvent, BeforeStep, AllSolvent, Amounts
<1>. QED
  BY <1>1, <1>2

(* No ack is handled between a replay and its charge.                        *)
LEMMA ReplayBusyStep ==
  ASSUME PipelineTypeOK, ReplayBusy, [Next]_vars
  PROVE  ReplayBusy'
<1>. USE DEF PipelineTypeOK, ReplayBusy, flowVars, clientVars, replayVars, counters
<1>1. ASSUME NEW p \in Ptys, ReaderStep(p) \/ KillPty(p) PROVE ReplayBusy'
  BY <1>1 DEF ReaderStep, WaitCapacity, ReadChunk, CountChunk, Eof, KillPty
<1>2. ASSUME NEW c \in Conns, Accept(c) \/ Register(c) \/ TaskStep(c) \/ HandleAck(c)
                              \/ HandleReset(c) \/ LoopEnds(c) \/ Reload(c)
                              \/ \E p \in Ptys : Consume(c, p)
      PROVE ReplayBusy'
  BY <1>2 DEF Accept, Register, TaskStep, Forward, ForwardFails, EndTask, HandleAck,
              HandleReset, LoopEnds, Reload, Consume
<1>3. ASSUME NEW c \in Conns, Attach(c) \/ AttachStep(c) PROVE ReplayBusy'
  BY <1>3 DEF Attach, AttachStep, ReplaySkip, ReplayWrite, ReplayCount, AttachDone
<1>4. CASE UNCHANGED vars
  BY <1>4 DEF vars
<1>. QED
  BY <1>1, <1>2, <1>3, <1>4 DEF Next

(* Every step of the pipeline keeps every account solvent.                   *)
LEMMA SolventStep ==
  ASSUME BeforeStep, Amounts', [Next]_vars
  PROVE  AllSolvent'
<1>1. CASE UNCHANGED vars
  BY <1>1 DEF vars, flowVars, clientVars, replayVars, BeforeStep, AllSolvent, Owing, Solvent, Debt,
              Uncharged, Replay, Queued, OnWire, Acking
<1>. QED
  BY <1>1, ReaderKeepsSolvent, ConnKeepsSolvent, AttachKeepsSolvent, ClientKeepsSolvent
     DEF Next

(* Every byte a connection is charged for, but for one chunk, is still in the *)
(* channel, at the client or in an ack on its way, whatever overtakes what    *)
(* and however many panes close (server.rs 511-523, flow.rs 110-116).         *)
THEOREM DebtsCanBePaid == Spec => []DebtIsPayable
<1>1. Init => ReplayBusy /\ AllSolvent
  BY DEF Init, FlowInit, ReplayBusy, AllSolvent, Owing
<1>2. /\ PipelineTypeOK /\ FlowInv /\ OnlyServedConnsOwe /\ PipelineTypeOK' /\ FlowInv'
      /\ ReplayBusy /\ AllSolvent /\ [Next]_vars
      => ReplayBusy' /\ AllSolvent'
  <2>1. (PipelineTypeOK /\ FlowInv => Amounts)'
    BY AmountsAreNumbers, PTL
  <2>. QED
    BY <2>1, AmountsAreNumbers, ReplayBusyStep, SolventStep DEF BeforeStep
<1>3. FlowInv /\ AllSolvent => DebtIsPayable
  <2>. SUFFICES ASSUME AllSolvent, NEW c \in DOMAIN conns, NEW p \in Ptys, c \in Conns,
                       c \notin lostCredit, task[c] = "running"
                PROVE  Charged(c, p) <= Outstanding(c, p) + MaxChunk
    BY DEF DebtIsPayable, FlowInv, FlowTypeOK
  <2>1. Solvent(c, p)
    BY DEF AllSolvent, Owing
  <2>. QED
    BY <2>1 DEF Solvent, Charged, Outstanding, Debt, Uncharged, Replay, BytesIn, Queued,
                OnWire, Acking, Unacked
<1>4. QED
  BY <1>1, <1>2, <1>3, PipelineTypeCorrect, FlowInvHolds, ServedConnsOwe, PTL DEF Spec

=============================================================================
