----------------------------- MODULE PathProofs -----------------------------
(***************************************************************************)
(* The safety properties of PacketPath, for any handles, priorities,       *)
(* layers, modes, interfaces and packets.                                  *)
(***************************************************************************)
EXTENDS PacketPath, FiniteSetTheorems, TLAPS

\* The provers a leaf is tried with when it names none.
USE SMT, Zenon, Z3T(40)

\* What Arrived changes, and that it leaves no mark of a finished redirect.
LEMMA ArrivedSkb ==
    ASSUME NEW s \in Skbs
    PROVE  /\ Arrived(s) \in Skbs
           /\ Arrived(s).pkt = s.pkt /\ Arrived(s).dir = s.dir /\ Arrived(s).by = s.by
           /\ Arrived(s).num = s.num /\ Arrived(s).at = s.at /\ Arrived(s).priority = s.priority
           /\ Arrived(s).mark = IF s.dir = "ingress" /\ s.mark = "redirected" THEN "loop" ELSE s.mark
BY DEF Arrived, Skbs, Marks

\* An injected skb: who injected it, and where its priority is.
LEMMA InjectedSkb ==
    ASSUME NEW h \in Handles, NEW s, s.pkt \in Packets, s.at \in Ifaces, s.by \in SUBSET Handles
    PROVE  /\ Injected(h, s) \in Skbs
           /\ Injected(h, s).by = s.by \cup {h} /\ Injected(h, s).pkt = s.pkt
           /\ s.dir = "egress" => Injected(h, s).mark = "loop" /\ Injected(h, s).num = Prio[h]
           /\ s.dir # "egress" => /\ Injected(h, s).mark = "redirect" /\ Injected(h, s).at = Lo
                                  /\ Injected(h, s).priority = Prio[h]
BY PathAssumption DEF Injected, Skb, Skbs, Marks, Ifaces

\* MarkInv of one skb.
MarkOf(s) ==
    \/ s.mark = "none" /\ s.by = {}
    \/ s.mark = "loop" /\ s.by # {} /\ \A g \in s.by : Prio[g] <= s.num
    \/ /\ s.mark = "redirect" /\ s.at = Lo /\ KindOf[s.pkt] # "fwd"
       /\ s.by # {} /\ \A g \in s.by : Prio[g] <= s.priority
    \/ /\ s.mark = "redirected" /\ s.at = Eth /\ s.dir = "ingress" /\ KindOf[s.pkt] # "fwd"
       /\ s.by # {} /\ \A g \in s.by : Prio[g] <= s.num

LEMMA MarkInvIs == MarkInv <=> \A s \in skbs : MarkOf(s)
BY DEF MarkInv, MarkOf

\* A captured skb was injected by handles of higher priority only, and its
\* mark says whether it was.
LEMMA CapturedMark ==
    ASSUME TypeOK, NEW h \in Handles, NEW s \in Skbs, MarkOf(s), ~Skips(h, Arrived(s))
    PROVE  /\ \A g \in s.by : Prio[g] < Prio[h]
           /\ (Arrived(s).mark = "loop") <=> s.by # {}
           /\ s.dir = "ingress" => KindOf[s.pkt] # "fwd"
<1> DEFINE t == Arrived(s)
<1> HIDE DEF t
<1>1. /\ t.pkt = s.pkt /\ t.dir = s.dir /\ t.by = s.by /\ t.num = s.num
      /\ t.mark = IF s.dir = "ingress" /\ s.mark = "redirected" THEN "loop" ELSE s.mark
  BY ArrivedSkb DEF t
<1>2. ~Skips(h, t)
  BY DEF t
<1>3. t.mark # "redirect" /\ ~(t.mark = "loop" /\ Prio[h] <= t.num)
  BY <1>2 DEF Skips, Marked
<1>4. t.dir = "ingress" => KindOf[t.pkt] # "fwd"
  BY <1>2 DEF Skips
<1>5. s.by \subseteq Handles /\ s.num \in Nat /\ Prio \in [Handles -> Nat]
  BY PathAssumption DEF Skbs
<1>6. (s.mark = "none" /\ s.by = {}) \/ (t.mark = "loop" /\ s.by # {} /\ \A g \in s.by : Prio[g] <= s.num)
  BY <1>1, <1>3 DEF MarkOf
<1>7. CASE s.mark = "none" /\ s.by = {}
  BY <1>1, <1>4, <1>7 DEF t
<1>8. CASE t.mark = "loop" /\ s.by # {} /\ \A g \in s.by : Prio[g] <= s.num
  <2>1. s.num < Prio[h]
    BY <1>1, <1>3, <1>5, <1>8
  <2>2. \A g \in s.by : Prio[g] < Prio[h]
    BY <1>5, <1>8, <2>1
  <2> QED
    BY <1>1, <1>4, <1>8, <2>2 DEF t
<1> QED
  BY <1>6, <1>7, <1>8

\* The invariant restricted to the three variables that packets live in.
Good(k, hd, sn) ==
    /\ \A s \in k : s \in Skbs /\ MarkOf(s)
    /\ \A h \in Handles : \A s \in hd[h] :
          /\ s \in Skbs
          /\ \A g \in s.by : Prio[g] < Prio[h]
          /\ s.dir = "ingress" => KindOf[s.pkt] # "fwd"
    /\ \A c \in sn : /\ \A g \in c.by : Prio[g] < Prio[c.who]
                     /\ c.impostor <=> c.by # {}

LEMMA MarkedInvIs == MarkedInv <=> TypeOK /\ Good(skbs, held, seen)
<1>1. TypeOK => (\A s \in skbs : s \in Skbs) /\ \A h \in Handles : \A s \in held[h] : s \in Skbs
  BY DEF TypeOK
<1> QED
  BY <1>1, MarkInvIs DEF MarkedInv, Good, HeldInv, OnlyLowerSee

\* An skb that moves keeps its mark's promise if by, mark and numbers do.
LEMMA SameMark ==
    ASSUME NEW s, NEW t, MarkOf(s),
           t.mark = s.mark, t.by = s.by, t.num = s.num, t.priority = s.priority, t.pkt = s.pkt,
           s.mark = "redirect" => t.at = s.at,
           s.mark = "redirected" => t.at = s.at /\ t.dir = s.dir
    PROVE  MarkOf(t)
BY DEF MarkOf

\* A program that has run, on arrival or not.
LEMMA RanSkb ==
    ASSUME NEW s \in Skbs, MarkOf(s), NEW h \in Handles
    PROVE  LET t == [Arrived(s) EXCEPT !.ran = @ \cup {h}] IN t \in Skbs /\ MarkOf(t)
<1> DEFINE a == Arrived(s)
           t == [a EXCEPT !.ran = @ \cup {h}]
<1>1. /\ a \in Skbs
      /\ a.pkt = s.pkt /\ a.dir = s.dir /\ a.by = s.by /\ a.num = s.num /\ a.at = s.at /\ a.priority = s.priority
      /\ a.mark = IF s.dir = "ingress" /\ s.mark = "redirected" THEN "loop" ELSE s.mark
  BY ArrivedSkb
<1>2. MarkOf(a)
  BY <1>1 DEF MarkOf
<1> HIDE DEF a
<1>3. /\ t \in Skbs /\ t.pkt = a.pkt /\ t.dir = a.dir /\ t.by = a.by /\ t.num = a.num /\ t.at = a.at
      /\ t.priority = a.priority /\ t.mark = a.mark
  BY <1>1 DEF Skbs
<1> HIDE DEF t
<1>4. MarkOf(t)
  BY <1>2, <1>3, SameMark
<1> QED
  BY <1>3, <1>4 DEF t, a

-----------------------------------------------------------------------------
\* No program, and no step of the kernel or an application, breaks Good.
LEMMA GoodStep ==
    ASSUME TypeOK, Good(skbs, held, seen), Next
    PROVE  Good(skbs, held, seen)'
<1> USE PathAssumption
<1>0. /\ \A s \in skbs : s \in Skbs /\ MarkOf(s)
      /\ held \in [Handles -> SUBSET Skbs]
  BY DEF TypeOK, Good
<1>1. ASSUME NEW p \in Packets, Enter(p) PROVE Good(skbs, held, seen)'
  <2>1. PICK t \in Skbs : skbs' = skbs \cup {t} /\ t.mark = "none" /\ t.by = {}
    <3>1. KindOf[p] \in {"out", "in", "fwd", "loop"}
      OBVIOUS
    <3>2. /\ Skb(p, Eth, "egress") \in Skbs /\ Skb(p, Lo, "egress") \in Skbs
          /\ [Skb(p, Eth, "ingress") EXCEPT !.iif = TRUE] \in Skbs
      BY DEF Skb, Skbs, Marks, Ifaces
    <3>3. /\ Skb(p, Eth, "egress").mark = "none" /\ Skb(p, Eth, "egress").by = {}
          /\ Skb(p, Lo, "egress").mark = "none" /\ Skb(p, Lo, "egress").by = {}
          /\ [Skb(p, Eth, "ingress") EXCEPT !.iif = TRUE].mark = "none"
          /\ [Skb(p, Eth, "ingress") EXCEPT !.iif = TRUE].by = {}
      BY DEF Skb
    <3>4. CASE KindOf[p] = "out"
      BY <1>1, <3>2, <3>3, <3>4 DEF Enter
    <3>5. CASE KindOf[p] \in {"in", "fwd"}
      BY <1>1, <3>2, <3>3, <3>5 DEF Enter
    <3>6. CASE KindOf[p] = "loop"
      BY <1>1, <3>2, <3>3, <3>6 DEF Enter
    <3> QED
      BY <3>1, <3>4, <3>5, <3>6
  <2>2. MarkOf(t) /\ held' = held /\ seen' = seen
    BY <1>1, <2>1 DEF MarkOf, Enter
  <2> QED
    BY <2>1, <2>2, <1>0 DEF Good, MarkOf
<1>2. ASSUME NEW t \in Skbs, MarkOf(t), skbs' \subseteq skbs \cup {t}, held' = held, seen' = seen
      PROVE  Good(skbs, held, seen)'
  BY <1>2, <1>0 DEF Good, MarkOf
<1>3. ASSUME skbs' \subseteq skbs, \A h \in Handles : held'[h] \subseteq held[h], seen' = seen
      PROVE  Good(skbs, held, seen)'
  BY <1>3, <1>0 DEF Good, MarkOf
<1>4. ASSUME NEW s \in skbs, Travel(s) PROVE Good(skbs, held, seen)'
  <2>1. s \in Skbs /\ MarkOf(s) /\ held' = held /\ seen' = seen
    BY <1>0, <1>4 DEF Travel
  <2>2. CASE skbs' = skbs \ {s}
    BY <1>3, <2>1, <2>2
  <2>3. CASE /\ s.at = Lo /\ s.dir = "egress"
             /\ Move(s, [s EXCEPT !.dir = "ingress", !.ran = {}, !.iif = TRUE])
    <3> DEFINE t == [s EXCEPT !.dir = "ingress", !.ran = {}, !.iif = TRUE]
    <3>1. /\ t \in Skbs /\ t.mark = s.mark /\ t.by = s.by /\ t.num = s.num /\ t.priority = s.priority
          /\ t.pkt = s.pkt /\ t.at = s.at
      BY <2>1 DEF Skbs
    <3>2. s.mark # "redirected"
      BY <2>1, <2>3 DEF MarkOf
    <3>3. skbs' = (skbs \ {s}) \cup {t}
      BY <2>3 DEF Move
    <3> HIDE DEF t
    <3>4. MarkOf(t)
      BY <2>1, <3>1, <3>2, SameMark
    <3> QED
      BY <1>2, <2>1, <3>1, <3>3, <3>4
  <2>4. CASE /\ s.at = Eth /\ s.dir = "ingress" /\ KindOf[s.pkt] = "fwd"
             /\ Move(s, [s EXCEPT !.at = Far, !.dir = "egress", !.ran = {}])
    <3> DEFINE t == [s EXCEPT !.at = Far, !.dir = "egress", !.ran = {}]
    <3>1. /\ t \in Skbs /\ t.mark = s.mark /\ t.by = s.by /\ t.num = s.num /\ t.priority = s.priority
          /\ t.pkt = s.pkt
      BY <2>1 DEF Skbs, Ifaces
    <3>2. s.mark # "redirected" /\ s.mark # "redirect"
      BY <2>1, <2>4 DEF MarkOf
    <3>3. skbs' = (skbs \ {s}) \cup {t}
      BY <2>4 DEF Move
    <3> HIDE DEF t
    <3>4. MarkOf(t)
      BY <2>1, <3>1, <3>2, SameMark
    <3> QED
      BY <1>2, <2>1, <3>1, <3>3, <3>4
  <2> QED
    BY <1>4, <2>2, <2>3, <2>4 DEF Travel
<1>5. ASSUME NEW s \in skbs, NEW h \in Handles, Redirect(h, s) PROVE Good(skbs, held, seen)'
  <2>1. s \in Skbs /\ MarkOf(s) /\ s.mark = "redirect" /\ s.dir = "ingress" /\ held' = held /\ seen' = seen
    BY <1>0, <1>5 DEF Redirect
  <2> DEFINE t == [s EXCEPT !.at = Eth, !.ran = {}, !.mark = "redirected", !.num = s.priority,
                            !.priority = 0, !.iif = TRUE]
  <2>2. /\ t \in Skbs /\ t.mark = "redirected" /\ t.by = s.by /\ t.num = s.priority
        /\ t.pkt = s.pkt /\ t.at = Eth /\ t.dir = "ingress"
    BY <2>1 DEF Skbs, Ifaces, Marks
  <2>3. skbs' = (skbs \ {s}) \cup {t}
    BY <1>5 DEF Redirect, Move
  <2> HIDE DEF t
  <2>4. MarkOf(t)
    BY <2>1, <2>2 DEF MarkOf
  <2> QED
    BY <1>2, <2>1, <2>2, <2>3, <2>4
<1>6. ASSUME NEW s \in skbs, NEW h \in Handles, Pass(h, s) PROVE Good(skbs, held, seen)'
  <2> DEFINE t == [Arrived(s) EXCEPT !.ran = @ \cup {h}]
  <2>1. skbs' = (skbs \ {s}) \cup {t} /\ held' = held /\ seen' = seen
    BY <1>6 DEF Pass, Move
  <2>2. t \in Skbs /\ MarkOf(t)
    BY <1>0, RanSkb
  <2> HIDE DEF t
  <2> QED
    BY <1>2, <2>1, <2>2
<1>7. ASSUME NEW s \in skbs, NEW h \in Handles, Match(h, s) PROVE Good(skbs, held, seen)'
  <2> DEFINE a == Arrived(s)
             t == [Arrived(s) EXCEPT !.ran = @ \cup {h}]
             c == Capture(h, a)
  <2>1. s \in Skbs /\ MarkOf(s) /\ ~Skips(h, Arrived(s))
    BY <1>0, <1>7 DEF Match
  <2>2. a \in Skbs /\ a.by = s.by /\ a.dir = s.dir /\ a.pkt = s.pkt
    BY <2>1, ArrivedSkb
  <2>3. /\ \A g \in s.by : Prio[g] < Prio[h]
        /\ (a.mark = "loop") <=> s.by # {}
        /\ s.dir = "ingress" => KindOf[s.pkt] # "fwd"
    BY <2>1, CapturedMark
  <2>4. t \in Skbs /\ MarkOf(t)
    BY <2>1, RanSkb
  <2>5. c.who = h /\ c.by = s.by /\ (c.impostor <=> s.by # {}) /\ seen' = seen \cup {c}
    BY <1>7, <2>2, <2>3 DEF Match, Capture
  <2>6. skbs' \subseteq skbs \cup {t} /\ (held' = held \/ held' = [held EXCEPT ![h] = @ \cup {a}])
    BY <1>7 DEF Match, Move
  <2> HIDE DEF a, t, c
  <2>7. \A x \in skbs' : x \in Skbs /\ MarkOf(x)
    BY <1>0, <2>4, <2>6
  <2>8. \A g \in Handles : \A x \in held'[g] : x \in held[g] \/ (g = h /\ x = a)
    BY <1>0, <2>6
  <2>9. \A g \in Handles : \A x \in held'[g] :
           x \in Skbs /\ (\A f \in x.by : Prio[f] < Prio[g]) /\ (x.dir = "ingress" => KindOf[x.pkt] # "fwd")
    BY <2>2, <2>3, <2>8 DEF Good
  <2>10. \A x \in seen' : (\A g \in x.by : Prio[g] < Prio[x.who]) /\ (x.impostor <=> x.by # {})
    BY <2>3, <2>5 DEF Good
  <2> QED
    BY <2>7, <2>9, <2>10 DEF Good, MarkOf
<1>8. ASSUME NEW h \in Handles, NEW s \in held[h], Send(h, s) PROVE Good(skbs, held, seen)'
  <2> DEFINE t == Injected(h, s)
  <2>1. s \in Skbs /\ (\A g \in s.by : Prio[g] < Prio[h]) /\ (s.dir = "ingress" => KindOf[s.pkt] # "fwd")
    BY DEF Good
  <2>2. s.pkt \in Packets /\ s.at \in Ifaces /\ s.by \in SUBSET Handles /\ s.dir \in {"ingress", "egress"}
    BY <2>1 DEF Skbs
  <2>3. /\ t \in Skbs
        /\ t.by = s.by \cup {h} /\ t.pkt = s.pkt
        /\ s.dir = "egress" => t.mark = "loop" /\ t.num = Prio[h]
        /\ s.dir # "egress" => t.mark = "redirect" /\ t.at = Lo /\ t.priority = Prio[h]
    BY <2>2, InjectedSkb
  <2>4. skbs' = skbs \cup {t} /\ seen' = seen /\ \A g \in Handles : held'[g] \subseteq held[g]
    BY <1>8, <1>0 DEF Send
  <2> HIDE DEF t
  <2>5. \A g \in t.by : Prio[g] <= Prio[h]
    BY <2>1, <2>2, <2>3
  <2>6. MarkOf(t)
    BY <2>1, <2>2, <2>3, <2>5 DEF MarkOf
  <2> QED
    BY <1>0, <2>3, <2>4, <2>6 DEF Good, MarkOf
<1>9. ASSUME NEW h \in Handles, NEW p \in Packets, SendBuilt(h, p) PROVE Good(skbs, held, seen)'
  <2> DEFINE s == Skb(p, Eth, "ingress")
             t == Injected(h, s)
  <2>1. s.pkt = p /\ s.at = Eth /\ s.by = {} /\ s.dir = "ingress"
    BY DEF Skb
  <2>2. KindOf[p] = "in"
    BY <1>9 DEF SendBuilt
  <2> HIDE DEF s
  <2>3. /\ t \in Skbs /\ t.by = {h} /\ t.pkt = p
        /\ t.mark = "redirect" /\ t.at = Lo /\ t.priority = Prio[h]
    BY <2>1, InjectedSkb DEF Ifaces
  <2>4. skbs' = skbs \cup {t} /\ seen' = seen /\ held' = held
    BY <1>9 DEF SendBuilt, s
  <2> HIDE DEF t
  <2>5. MarkOf(t)
    BY <2>2, <2>3 DEF MarkOf
  <2> QED
    BY <1>2, <2>3, <2>4, <2>5
<1>10. ASSUME NEW h \in Mortal, Ends(h) PROVE Good(skbs, held, seen)'
  <2>1. skbs' = skbs /\ seen' = seen /\ \A g \in Handles : held'[g] \subseteq held[g]
    BY <1>10, <1>0 DEF Ends, Shutdown, OwnerDies, GoesStale, Detach
  <2> QED
    BY <1>3, <2>1
<1>11. CASE Idle
  BY <1>3, <1>11 DEF Idle, vars
<1> QED
  BY <1>1, <1>4, <1>5, <1>6, <1>7, <1>8, <1>9, <1>10, <1>11 DEF Next, Kernel, Application

-----------------------------------------------------------------------------
LEMMA MarkedInit == Init => MarkedInv
BY PathAssumption DEF Init, MarkedInv, TypeOK, MarkInv, HeldInv, OnlyLowerSee

LEMMA TypeStep ==
    ASSUME TypeOK, Good(skbs, held, seen), Next, Good(skbs, held, seen)'
    PROVE  TypeOK'
<1> USE PathAssumption
<1>0. /\ open \subseteq Handles /\ halted \in [Handles -> SUBSET {"recv", "send", "dead", "stale"}]
      /\ fresh \subseteq Packets /\ skbs \subseteq Skbs /\ held \in [Handles -> SUBSET Skbs]
      /\ left \subseteq Skbs
      /\ seen \subseteq [who : Handles, pkt : Packets, by : SUBSET Handles, impostor : BOOLEAN]
  BY DEF TypeOK
<1>1. skbs' \subseteq Skbs
  BY DEF Good
<1>2. ASSUME held' = held \/ \E h \in Handles : \E v : held' = [held EXCEPT ![h] = v]
      PROVE  held' \in [Handles -> SUBSET Skbs]
  <2>1. \A h \in Handles : held'[h] \subseteq Skbs
    BY DEF Good
  <2>2. held' = [h \in Handles |-> held'[h]]
    BY <1>0, <1>2
  <2> QED
    BY <2>1, <2>2
<1>3. ASSUME NEW p \in Packets, Enter(p) PROVE TypeOK'
  BY <1>0, <1>1, <1>3 DEF Enter, TypeOK
<1>4. ASSUME NEW s \in skbs, Travel(s) PROVE TypeOK'
  BY <1>0, <1>1, <1>4 DEF Travel, TypeOK
<1>5. ASSUME NEW s \in skbs, NEW h \in Handles, Redirect(h, s) \/ Pass(h, s) PROVE TypeOK'
  BY <1>0, <1>1, <1>5 DEF Redirect, Pass, TypeOK
<1>6. ASSUME NEW s \in skbs, NEW h \in Handles, Match(h, s) PROVE TypeOK'
  <2>1. held' = held \/ held' = [held EXCEPT ![h] = held[h] \cup {Arrived(s)}]
    BY <1>6 DEF Match
  <2>2. held' \in [Handles -> SUBSET Skbs]
    BY <1>2, <2>1
  <2>3. s \in Skbs /\ Arrived(s).pkt = s.pkt /\ Arrived(s).by = s.by
    BY <1>0, ArrivedSkb
  <2>4. s.pkt \in Packets /\ s.by \in SUBSET Handles
    BY <2>3 DEF Skbs
  <2>5. Capture(h, Arrived(s)) \in [who : Handles, pkt : Packets, by : SUBSET Handles, impostor : BOOLEAN]
    BY <2>3, <2>4 DEF Capture
  <2>6. /\ seen' = seen \cup {Capture(h, Arrived(s))}
        /\ open' = open /\ halted' = halted /\ fresh' = fresh /\ left' = left
    BY <1>6 DEF Match
  <2> QED
    BY <1>0, <1>1, <2>2, <2>5, <2>6 DEF TypeOK
<1>7. ASSUME NEW h \in Handles, NEW s \in held[h], Send(h, s) PROVE TypeOK'
  <2>1. held' = [held EXCEPT ![h] = held[h] \ {s}]
    BY <1>7 DEF Send
  <2>2. held' \in [Handles -> SUBSET Skbs]
    BY <1>2, <2>1
  <2> QED
    BY <1>0, <1>1, <1>7, <2>2 DEF TypeOK, Send
<1>8. ASSUME NEW h \in Handles, NEW p \in Packets, SendBuilt(h, p) PROVE TypeOK'
  BY <1>0, <1>1, <1>8 DEF SendBuilt, TypeOK
<1>9. ASSUME NEW h \in Mortal, Ends(h) PROVE TypeOK'
  <2>1. halted' \in [Handles -> SUBSET {"recv", "send", "dead", "stale"}]
    BY <1>0, <1>9 DEF Ends, Shutdown, OwnerDies, GoesStale, Detach
  <2>2. h \in Handles /\ (held' = held \/ held' = [held EXCEPT ![h] = {}])
    BY <1>0, <1>9 DEF Ends, Shutdown, OwnerDies, GoesStale, Detach
  <2>3. held' \in [Handles -> SUBSET Skbs]
    BY <1>2, <2>2
  <2>4. open' \subseteq open /\ fresh' = fresh /\ left' = left /\ seen' = seen
    BY <1>9 DEF Ends, Shutdown, OwnerDies, GoesStale, Detach
  <2> QED
    BY <1>0, <1>1, <2>1, <2>3, <2>4 DEF TypeOK
<1>10. CASE Idle
  BY <1>0, <1>10 DEF Idle, vars, TypeOK
<1> QED
  BY <1>3, <1>4, <1>5, <1>6, <1>7, <1>8, <1>9, <1>10 DEF Next, Kernel, Application

-----------------------------------------------------------------------------
\* The marks cover every injector and stay readable at every hook, whatever
\* the priorities, modes, layers, interfaces and the order of events.
THEOREM MarkedInvariant == Spec => []MarkedInv
<1>1. MarkedInv /\ Next => MarkedInv'
  <2>1. SUFFICES ASSUME MarkedInv, Next PROVE MarkedInv'
    OBVIOUS
  <2>2. TypeOK /\ Good(skbs, held, seen)
    BY <2>1, MarkedInvIs
  <2>3. Good(skbs, held, seen)'
    BY <2>1, <2>2, GoodStep
  <2>4. TypeOK'
    BY <2>1, <2>2, <2>3, TypeStep
  <2>5. TypeOK' /\ Good(skbs, held, seen)' => MarkedInv'
    BY MarkedInvIs, PTL
  <2> QED
    BY <2>3, <2>4, <2>5
<1>2. MarkedInv /\ UNCHANGED vars => MarkedInv'
  BY DEF vars, MarkedInv, TypeOK, MarkInv, HeldInv, OnlyLowerSee
<1> QED
  BY MarkedInit, <1>1, <1>2, PTL DEF Spec

\* process_packet never gives a handle a packet that went through a handle of
\* its own or a lower priority, and PKT_F_IMPOSTOR tells exactly whether
\* somebody injected it.
THEOREM InjectedOnlyLower == Spec => []OnlyLowerSee
<1>1. MarkedInv => OnlyLowerSee
  BY DEF MarkedInv
<1> QED
  BY MarkedInvariant, <1>1, PTL
-----------------------------------------------------------------------------
(***************************************************************************)
(* OneCopy.                                                                *)
(***************************************************************************)

\* Every packet is in one place: coming, at a hook, with one handle, or gone.
Alone(k, l, hd, f) ==
    /\ \A s, t \in k : s.pkt = t.pkt => s = t
    /\ \A s, t \in l : s.pkt = t.pkt => s = t
    /\ \A s \in k, t \in l : s.pkt # t.pkt
    /\ \A h, g \in Handles : \A s \in hd[h], t \in hd[g] : s.pkt = t.pkt => h = g /\ s = t
    /\ \A h \in Handles : \A s \in hd[h], t \in k \cup l : s.pkt # t.pkt
    /\ \A s \in k \cup l : s.pkt \notin f
    /\ \A h \in Handles : \A s \in hd[h] : s.pkt \notin f

LEMMA AloneIsOneCopy == Alone(skbs, left, held, fresh) => OneCopy
<1> SUFFICES ASSUME Alone(skbs, left, held, fresh), NEW p \in Packets
             PROVE  Cardinality(Copies(p)) <= 1 /\ (p \in fresh => Copies(p) = {})
  BY DEF OneCopy
<1>1. \A x \in Copies(p) :
         \/ \E s \in skbs : s.pkt = p /\ x = <<"kernel", s>>
         \/ \E s \in left : s.pkt = p /\ x = <<"left", s>>
         \/ \E h \in Handles : \E s \in held[h] : s.pkt = p /\ x = <<"held", h, s>>
  <2> DEFINE A == {<<"kernel", s>> : s \in {t \in skbs : t.pkt = p}}
             B == {<<"left", s>> : s \in {t \in left : t.pkt = p}}
             C(h) == {<<"held", h, s>> : s \in {t \in held[h] : t.pkt = p}}
  <2>1. Copies(p) = A \cup B \cup UNION {C(h) : h \in Handles}
    BY DEF Copies
  <2>2. \A x \in A : \E s \in skbs : s.pkt = p /\ x = <<"kernel", s>>
    OBVIOUS
  <2>3. \A x \in B : \E s \in left : s.pkt = p /\ x = <<"left", s>>
    OBVIOUS
  <2>4. \A h \in Handles : \A x \in C(h) : \E s \in held[h] : s.pkt = p /\ x = <<"held", h, s>>
    OBVIOUS
  <2> HIDE DEF A, B, C
  <2>5. \A x \in UNION {C(h) : h \in Handles} : \E h \in Handles : x \in C(h)
    OBVIOUS
  <2> QED
    BY <2>1, <2>2, <2>3, <2>4, <2>5
<1>2. \A x, y \in Copies(p) : x = y
  BY <1>1 DEF Alone
<1>3. Cardinality(Copies(p)) <= 1
  <2>1. CASE Copies(p) = {}
    BY <2>1, FS_EmptySet
  <2>2. CASE Copies(p) # {}
    <3>1. PICK x \in Copies(p) : Copies(p) = {x}
      BY <1>2, <2>2
    <3>2. Cardinality({x}) = 1
      BY FS_Singleton, Zenon
    <3> QED
      BY <3>1, <3>2
  <2> QED
    BY <2>1, <2>2
<1>4. p \in fresh => Copies(p) = {}
  BY <1>1 DEF Alone
<1> QED
  BY <1>3, <1>4

\* Every step takes a packet from one place to another, or drops it.
LEMMA AloneStep ==
    ASSUME TypeOK, Alone(skbs, left, held, fresh), Next
    PROVE  Alone(skbs, left, held, fresh)'
<1> USE PathAssumption
<1>0. skbs \subseteq Skbs /\ held \in [Handles -> SUBSET Skbs]
  BY DEF TypeOK
<1>1. ASSUME NEW p \in fresh, NEW t, t.pkt = p, fresh' = fresh \ {p}, skbs' = skbs \cup {t},
             held' = held, left' = left
      PROVE  Alone(skbs, left, held, fresh)'
  BY <1>1 DEF Alone
<1>2. ASSUME NEW s \in skbs, NEW t, t.pkt = s.pkt, skbs' \subseteq (skbs \ {s}) \cup {t},
             fresh' = fresh, held' = held, left' = left
      PROVE  Alone(skbs, left, held, fresh)'
  BY <1>2 DEF Alone
<1>3. ASSUME NEW p \in Packets, Enter(p) PROVE Alone(skbs, left, held, fresh)'
  <2> DEFINE t == CASE KindOf[p] = "out" -> Skb(p, Eth, "egress")
                    [] KindOf[p] \in {"in", "fwd"} -> [Skb(p, Eth, "ingress") EXCEPT !.iif = TRUE]
                    [] KindOf[p] = "loop" -> Skb(p, Lo, "egress")
  <2>1. KindOf[p] \in {"out", "in", "fwd", "loop"}
    OBVIOUS
  <2>2. t.pkt = p
    BY <2>1 DEF Skb
  <2>3. p \in fresh /\ fresh' = fresh \ {p} /\ skbs' = skbs \cup {t} /\ held' = held /\ left' = left
    BY <1>3 DEF Enter
  <2> HIDE DEF t
  <2> QED
    BY <1>1, <2>2, <2>3
<1>4. ASSUME NEW s \in skbs, Travel(s) PROVE Alone(skbs, left, held, fresh)'
  <2>1. s \in Skbs /\ fresh' = fresh /\ held' = held
    BY <1>0, <1>4 DEF Travel
  <2>2. CASE skbs' = skbs \ {s} /\ left' = left \cup {s}
    BY <2>1, <2>2 DEF Alone
  <2>3. CASE Move(s, [s EXCEPT !.dir = "ingress", !.ran = {}, !.iif = TRUE]) /\ left' = left
    <3> DEFINE t == [s EXCEPT !.dir = "ingress", !.ran = {}, !.iif = TRUE]
    <3>1. t.pkt = s.pkt /\ skbs' = (skbs \ {s}) \cup {t}
      BY <2>1, <2>3 DEF Skbs, Move
    <3> HIDE DEF t
    <3> QED
      BY <1>2, <2>1, <2>3, <3>1
  <2>4. CASE Move(s, [s EXCEPT !.at = Far, !.dir = "egress", !.ran = {}]) /\ left' = left
    <3> DEFINE t == [s EXCEPT !.at = Far, !.dir = "egress", !.ran = {}]
    <3>1. t.pkt = s.pkt /\ skbs' = (skbs \ {s}) \cup {t}
      BY <2>1, <2>4 DEF Skbs, Move
    <3> HIDE DEF t
    <3> QED
      BY <1>2, <2>1, <2>4, <3>1
  <2> QED
    BY <1>4, <2>2, <2>3, <2>4 DEF Travel
<1>5. ASSUME NEW s \in skbs, NEW h \in Handles, Redirect(h, s) PROVE Alone(skbs, left, held, fresh)'
  <2> DEFINE t == [s EXCEPT !.at = Eth, !.ran = {}, !.mark = "redirected", !.num = s.priority,
                            !.priority = 0, !.iif = TRUE]
  <2>1. t.pkt = s.pkt /\ skbs' = (skbs \ {s}) \cup {t} /\ fresh' = fresh /\ held' = held /\ left' = left
    BY <1>0, <1>5 DEF Skbs, Redirect, Move
  <2> HIDE DEF t
  <2> QED
    BY <1>2, <2>1
<1>6. ASSUME NEW s \in skbs, NEW h \in Handles, Pass(h, s) PROVE Alone(skbs, left, held, fresh)'
  <2> DEFINE t == [Arrived(s) EXCEPT !.ran = @ \cup {h}]
  <2>1. Arrived(s) \in Skbs /\ Arrived(s).pkt = s.pkt
    BY <1>0, ArrivedSkb
  <2>2. t.pkt = s.pkt /\ skbs' = (skbs \ {s}) \cup {t} /\ fresh' = fresh /\ held' = held /\ left' = left
    BY <1>6, <2>1 DEF Pass, Move, Skbs
  <2> HIDE DEF t
  <2> QED
    BY <1>2, <2>2
<1>7. ASSUME NEW s \in skbs, NEW h \in Handles, Match(h, s) PROVE Alone(skbs, left, held, fresh)'
  <2> DEFINE a == Arrived(s)
             t == [Arrived(s) EXCEPT !.ran = @ \cup {h}]
  <2>1. a \in Skbs /\ a.pkt = s.pkt
    BY <1>0, ArrivedSkb
  <2>2. t.pkt = s.pkt /\ fresh' = fresh /\ left' = left
    BY <1>7, <2>1 DEF Match, Skbs
  <2>3. \/ skbs' \subseteq (skbs \ {s}) \cup {t} /\ held' = held
        \/ skbs' = skbs \ {s} /\ held' = [held EXCEPT ![h] = @ \cup {a}]
    BY <1>7 DEF Match, Move
  <2> HIDE DEF a, t
  <2>4. CASE skbs' \subseteq (skbs \ {s}) \cup {t} /\ held' = held
    BY <1>2, <2>2, <2>4
  <2>5. CASE skbs' = skbs \ {s} /\ held' = [held EXCEPT ![h] = @ \cup {a}]
    <3>1. \A g \in Handles : \A x \in held'[g] : x \in held[g] \/ (g = h /\ x = a)
      BY <1>0, <2>5
    <3> QED
      BY <2>1, <2>2, <2>5, <3>1 DEF Alone
  <2> QED
    BY <2>3, <2>4, <2>5
<1>8. ASSUME NEW h \in Handles, NEW s \in held[h], Send(h, s) PROVE Alone(skbs, left, held, fresh)'
  <2> DEFINE t == Injected(h, s)
  <2>1. s \in Skbs
    BY <1>0
  <2>2. s.pkt \in Packets /\ s.at \in Ifaces /\ s.by \in SUBSET Handles
    BY <2>1 DEF Skbs
  <2>3. t.pkt = s.pkt
    BY <2>2, InjectedSkb
  <2>4. skbs' = skbs \cup {t} /\ fresh' = fresh /\ left' = left /\ held' = [held EXCEPT ![h] = @ \ {s}]
    BY <1>8 DEF Send
  <2>5. \A g \in Handles : \A x \in held'[g] : x \in held[g] /\ ~(g = h /\ x = s)
    BY <1>0, <2>4
  <2> HIDE DEF t
  <2> QED
    BY <2>3, <2>4, <2>5 DEF Alone
<1>9. ASSUME NEW h \in Handles, NEW p \in Packets, SendBuilt(h, p) PROVE Alone(skbs, left, held, fresh)'
  <2> DEFINE s == Skb(p, Eth, "ingress")
             t == Injected(h, s)
  <2>1. s.pkt = p /\ s.at = Eth /\ s.by = {}
    BY DEF Skb
  <2> HIDE DEF s
  <2>2. t.pkt = p
    BY <2>1, InjectedSkb DEF Ifaces
  <2>3. p \in fresh /\ fresh' = fresh \ {p} /\ skbs' = skbs \cup {t} /\ held' = held /\ left' = left
    BY <1>9 DEF SendBuilt, s
  <2> HIDE DEF t
  <2> QED
    BY <1>1, <2>2, <2>3
<1>10. ASSUME NEW h \in Mortal, Ends(h) PROVE Alone(skbs, left, held, fresh)'
  <2>1. skbs' = skbs /\ left' = left /\ fresh' = fresh /\ \A g \in Handles : held'[g] \subseteq held[g]
    BY <1>10, <1>0 DEF Ends, Shutdown, OwnerDies, GoesStale, Detach
  <2> QED
    BY <2>1 DEF Alone
<1>11. CASE Idle
  BY <1>11 DEF Idle, vars, Alone
<1> QED
  BY <1>3, <1>4, <1>5, <1>6, <1>7, <1>8, <1>9, <1>10, <1>11 DEF Next, Kernel, Application

\* TC_ACT_STOLEN, the copies of SNIFF and ebpfdivert_send never make two skbs
\* of one packet, and a packet in user space is nowhere in the kernel.
THEOREM NeverDuplicated == Spec => []OneCopy
<1> DEFINE Inv == Alone(skbs, left, held, fresh)
<1>1. Init => Inv
  BY PathAssumption DEF Init, Alone
<1>2. TypeOK /\ Inv /\ [Next]_vars => Inv'
  <2>1. TypeOK /\ Inv /\ Next => Inv'
    BY AloneStep
  <2>2. Inv /\ UNCHANGED vars => Inv'
    BY DEF vars, Alone
  <2> QED
    BY <2>1, <2>2
<1>3. MarkedInv => TypeOK
  BY DEF MarkedInv
<1>4. Inv => OneCopy
  BY AloneIsOneCopy
<1> HIDE DEF Inv
<1> QED
  BY MarkedInvariant, <1>1, <1>2, <1>3, <1>4, PTL DEF Spec
-----------------------------------------------------------------------------
(***************************************************************************)
(* LowerHandlesSee and StrayOnlyDetached.                                  *)
(***************************************************************************)

\* Where an injected skb starts.
LEMMA InjectedPlace ==
    ASSUME NEW h \in Handles, NEW s, s.pkt \in Packets, s.at \in Ifaces, s.by \in SUBSET Handles
    PROVE  /\ Injected(h, s).dir = "egress" /\ Injected(h, s).ran = {} /\ Injected(h, s).iif = FALSE
           /\ s.dir = "egress" => Injected(h, s).at = s.at
BY PathAssumption DEF Injected, Skb, Skbs, Marks, Ifaces

\* An skb that a program captures is where its kind is captured.
LEMMA CapturedPlace ==
    ASSUME NEW s \in Skbs, MarkOf(s), KernelPlace(s), NEW h \in Handles, ~Skips(h, Arrived(s)),
           Mode[h] = "divert"
    PROVE  HeldPlace(Arrived(s))
<1>1. PICK a \in Skbs : a = Arrived(s)
  BY ArrivedSkb
<1>2. /\ a.pkt = s.pkt /\ a.dir = s.dir /\ a.by = s.by /\ a.at = s.at
      /\ a.mark = IF s.dir = "ingress" /\ s.mark = "redirected" THEN "loop" ELSE s.mark
  BY <1>1, ArrivedSkb
<1>3. a.iif = s.iif
  BY <1>1 DEF Arrived, Skbs
<1>4. /\ a.mark # "redirect"
      /\ a.at = Lo => a.dir # "ingress"
      /\ a.dir = "egress" => (Forwarded(a) <=> Layer[h] = "forward")
      /\ a.dir = "ingress" => KindOf[a.pkt] # "fwd"
  BY <1>1 DEF Skips
<1>5. KindOf[a.pkt] = "fwd" => a.at = Far /\ a.dir = "egress" /\ (a.iif \/ a.by # {}) /\ (a.by # {} => ForwardDiverts)
  BY <1>2, <1>3, <1>4 DEF KernelPlace
<1>6. KindOf[a.pkt] = "fwd" => ForwardDiverts
  <2>1. Forwarded(a) => Layer[h] = "forward" \/ a.dir # "egress"
    BY <1>4
  <2>2. a.iif /\ a.at = Far => Forwarded(a)
    BY PathAssumption DEF Forwarded
  <2>3. Layer[h] = "forward" => ForwardDiverts
    BY DEF ForwardDiverts
  <2> QED
    BY <1>5, <2>1, <2>2, <2>3
<1>7. s.dir \in {"ingress", "egress"} /\ s.pkt \in Packets
  BY DEF Skbs
<1> QED
  BY <1>1, <1>2, <1>4, <1>5, <1>6, <1>7, PathAssumption DEF HeldPlace, KernelPlace

\* KernelPlace and NumberOf of an skb that moves within its hook.
LEMMA SamePlace ==
    ASSUME NEW s, NEW t, KernelPlace(s), NumberOf(s),
           t.pkt = s.pkt, t.at = s.at, t.by = s.by, t.num = s.num, t.priority = s.priority, t.iif = s.iif,
           t.dir = s.dir,
           t.mark = s.mark \/ (s.mark = "redirected" /\ t.mark = "loop")
    PROVE  KernelPlace(t) /\ NumberOf(t)
BY DEF KernelPlace, NumberOf

\* Packets stay on the way of their kind.
LEMMA PlaceStep ==
    ASSUME TypeOK, Good(skbs, held, seen), PlaceInv, Next
    PROVE  PlaceInv'
<1> USE PathAssumption
<1>0. /\ \A s \in skbs : s \in Skbs /\ MarkOf(s) /\ KernelPlace(s) /\ NumberOf(s)
      /\ held \in [Handles -> SUBSET Skbs]
      /\ \A h \in Handles : \A s \in held[h] : HeldPlace(s)
  BY DEF TypeOK, Good, PlaceInv
<1>1. ASSUME NEW t, KernelPlace(t), NumberOf(t), skbs' \subseteq skbs \cup {t},
             \A h \in Handles : held'[h] \subseteq held[h]
      PROVE  PlaceInv'
  <2>1. \A s \in skbs' : KernelPlace(s) /\ NumberOf(s)
    BY <1>0, <1>1
  <2>2. \A h \in Handles : \A s \in held'[h] : HeldPlace(s)
    BY <1>0, <1>1
  <2> QED
    BY <2>1, <2>2 DEF PlaceInv, KernelPlace, NumberOf, HeldPlace
<1>2. ASSUME skbs' \subseteq skbs, \A h \in Handles : held'[h] \subseteq held[h]
      PROVE  PlaceInv'
  BY <1>0, <1>2 DEF PlaceInv, KernelPlace, NumberOf, HeldPlace
<1>3. ASSUME NEW p \in Packets, Enter(p) PROVE PlaceInv'
  <2> DEFINE t == CASE KindOf[p] = "out" -> Skb(p, Eth, "egress")
                    [] KindOf[p] \in {"in", "fwd"} -> [Skb(p, Eth, "ingress") EXCEPT !.iif = TRUE]
                    [] KindOf[p] = "loop" -> Skb(p, Lo, "egress")
  <2>1. KindOf[p] \in {"out", "in", "fwd", "loop"}
    OBVIOUS
  <2>2. /\ t.pkt = p /\ t.mark = "none" /\ t.by = {}
        /\ KindOf[p] = "out" => t.at = Eth /\ t.dir = "egress" /\ ~t.iif
        /\ KindOf[p] \in {"in", "fwd"} => t.at = Eth /\ t.dir = "ingress" /\ t.iif
        /\ KindOf[p] = "loop" => t.at = Lo /\ t.dir = "egress"
    BY <2>1 DEF Skb
  <2>3. skbs' = skbs \cup {t} /\ held' = held
    BY <1>3 DEF Enter
  <2> HIDE DEF t
  <2>4. KernelPlace(t) /\ NumberOf(t)
    BY <2>2 DEF KernelPlace, NumberOf
  <2> QED
    BY <1>1, <2>3, <2>4
<1>4. ASSUME NEW s \in skbs, Travel(s) PROVE PlaceInv'
  <2>1. s \in Skbs /\ MarkOf(s) /\ KernelPlace(s) /\ NumberOf(s) /\ held' = held
    BY <1>0, <1>4 DEF Travel
  <2>2. CASE skbs' = skbs \ {s}
    BY <1>2, <2>1, <2>2
  <2>3. CASE /\ s.at = Lo /\ s.dir = "egress"
             /\ Move(s, [s EXCEPT !.dir = "ingress", !.ran = {}, !.iif = TRUE])
    <3> DEFINE t == [s EXCEPT !.dir = "ingress", !.ran = {}, !.iif = TRUE]
    <3>1. /\ t.mark = s.mark /\ t.by = s.by /\ t.num = s.num /\ t.priority = s.priority
          /\ t.pkt = s.pkt /\ t.at = s.at /\ t.iif
      BY <2>1 DEF Skbs
    <3>2. skbs' = (skbs \ {s}) \cup {t}
      BY <2>3 DEF Move
    <3> HIDE DEF t
    <3>3. KernelPlace(t) /\ NumberOf(t)
      BY <2>1, <2>3, <3>1 DEF KernelPlace, NumberOf
    <3> QED
      BY <1>1, <2>1, <3>2, <3>3
  <2>4. CASE /\ s.at = Eth /\ s.dir = "ingress" /\ KindOf[s.pkt] = "fwd"
             /\ Move(s, [s EXCEPT !.at = Far, !.dir = "egress", !.ran = {}])
    <3> DEFINE t == [s EXCEPT !.at = Far, !.dir = "egress", !.ran = {}]
    <3>1. /\ t.mark = s.mark /\ t.by = s.by /\ t.num = s.num /\ t.priority = s.priority
          /\ t.pkt = s.pkt /\ t.at = Far /\ t.dir = "egress" /\ t.iif = s.iif
      BY <2>1 DEF Skbs
    <3>2. skbs' = (skbs \ {s}) \cup {t}
      BY <2>4 DEF Move
    <3> HIDE DEF t
    <3>3. KernelPlace(t) /\ NumberOf(t)
      BY <2>1, <2>4, <3>1 DEF KernelPlace, NumberOf
    <3> QED
      BY <1>1, <2>1, <3>2, <3>3
  <2> QED
    BY <1>4, <2>2, <2>3, <2>4 DEF Travel
<1>5. ASSUME NEW s \in skbs, NEW h \in Handles, Redirect(h, s) PROVE PlaceInv'
  <2>1. /\ s \in Skbs /\ MarkOf(s) /\ KernelPlace(s) /\ NumberOf(s)
        /\ s.mark = "redirect" /\ s.dir = "ingress" /\ held' = held
    BY <1>0, <1>5 DEF Redirect
  <2> DEFINE t == [s EXCEPT !.at = Eth, !.ran = {}, !.mark = "redirected", !.num = s.priority,
                            !.priority = 0, !.iif = TRUE]
  <2>2. /\ t.mark = "redirected" /\ t.by = s.by /\ t.num = s.priority
        /\ t.pkt = s.pkt /\ t.at = Eth /\ t.dir = "ingress"
    BY <2>1 DEF Skbs
  <2>3. skbs' = (skbs \ {s}) \cup {t}
    BY <1>5 DEF Redirect, Move
  <2> HIDE DEF t
  <2>4. KindOf[s.pkt] = "in"
    <3>1. s.pkt \in Packets
      BY <2>1 DEF Skbs
    <3> QED
      BY <2>1, <3>1 DEF KernelPlace, MarkOf
  <2>5. KernelPlace(t) /\ NumberOf(t)
    BY <2>1, <2>2, <2>4 DEF KernelPlace, NumberOf
  <2> QED
    BY <1>1, <2>1, <2>3, <2>5
<1>6. ASSUME NEW s \in skbs, NEW h \in Handles
      PROVE  KernelPlace([Arrived(s) EXCEPT !.ran = @ \cup {h}]) /\ NumberOf([Arrived(s) EXCEPT !.ran = @ \cup {h}])
  <2> DEFINE t == [Arrived(s) EXCEPT !.ran = @ \cup {h}]
  <2>1. s \in Skbs /\ KernelPlace(s) /\ NumberOf(s)
    BY <1>0
  <2>2. /\ t.pkt = s.pkt /\ t.at = s.at /\ t.by = s.by /\ t.num = s.num /\ t.priority = s.priority
        /\ t.iif = s.iif /\ t.dir = s.dir
        /\ t.mark = s.mark \/ (s.mark = "redirected" /\ t.mark = "loop")
    BY <2>1 DEF Arrived, Skbs
  <2> HIDE DEF t
  <2>3. KernelPlace(t) /\ NumberOf(t)
    BY <2>1, <2>2, SamePlace
  <2> QED
    BY <2>3 DEF t
<1>7. ASSUME NEW s \in skbs, NEW h \in Handles, Pass(h, s) PROVE PlaceInv'
  <2>1. skbs' = (skbs \ {s}) \cup {[Arrived(s) EXCEPT !.ran = @ \cup {h}]} /\ held' = held
    BY <1>7 DEF Pass, Move
  <2> QED
    BY <1>1, <1>6, <2>1
<1>8. ASSUME NEW s \in skbs, NEW h \in Handles, Match(h, s) PROVE PlaceInv'
  <2>1. s \in Skbs /\ MarkOf(s) /\ KernelPlace(s) /\ ~Skips(h, Arrived(s))
    BY <1>0, <1>8 DEF Match
  <2>2. \/ skbs' \subseteq skbs \cup {[Arrived(s) EXCEPT !.ran = @ \cup {h}]} /\ held' = held
        \/ Mode[h] = "divert" /\ skbs' \subseteq skbs /\ held' = [held EXCEPT ![h] = @ \cup {Arrived(s)}]
    BY <1>8 DEF Match, Move
  <2>3. CASE skbs' \subseteq skbs \cup {[Arrived(s) EXCEPT !.ran = @ \cup {h}]} /\ held' = held
    BY <1>1, <1>6, <2>3
  <2>4. CASE Mode[h] = "divert" /\ skbs' \subseteq skbs /\ held' = [held EXCEPT ![h] = @ \cup {Arrived(s)}]
    <3>1. PICK a : a = Arrived(s)
      OBVIOUS
    <3>2. HeldPlace(a)
      BY <2>1, <2>4, <3>1, CapturedPlace
    <3>3. \A g \in Handles : \A x \in held'[g] : x \in held[g] \/ x = a
      BY <1>0, <2>4, <3>1
    <3>4. \A g \in Handles : \A x \in held'[g] : HeldPlace(x)
      BY <1>0, <3>2, <3>3
    <3>5. \A x \in skbs' : KernelPlace(x) /\ NumberOf(x)
      BY <1>0, <2>4
    <3> QED
      BY <3>4, <3>5 DEF PlaceInv, KernelPlace, NumberOf, HeldPlace
  <2> QED
    BY <2>2, <2>3, <2>4
<1>9. ASSUME NEW h \in Handles, NEW s \in held[h], Send(h, s) PROVE PlaceInv'
  <2>1. s \in Skbs /\ HeldPlace(s)
    BY <1>0
  <2>2. s.pkt \in Packets /\ s.at \in Ifaces /\ s.by \in SUBSET Handles /\ s.dir \in {"ingress", "egress"}
    BY <2>1 DEF Skbs
  <2>3. PICK t : t = Injected(h, s)
    OBVIOUS
  <2>4. /\ t.by = s.by \cup {h} /\ t.pkt = s.pkt
        /\ s.dir = "egress" => t.mark = "loop" /\ t.num = Prio[h]
        /\ s.dir # "egress" => t.mark = "redirect" /\ t.at = Lo /\ t.priority = Prio[h]
    BY <2>2, <2>3, InjectedSkb
  <2>4a. t.dir = "egress" /\ t.iif = FALSE /\ (s.dir = "egress" => t.at = s.at)
    BY <2>2, <2>3, InjectedPlace
  <2>5. skbs' = skbs \cup {t} /\ \A g \in Handles : held'[g] \subseteq held[g]
    BY <1>9, <1>0, <2>3 DEF Send
  <2>6. h \in t.by /\ NumberOf(t)
    BY <2>2, <2>4 DEF NumberOf
  <2>7. KernelPlace(t)
    BY <2>1, <2>2, <2>4, <2>4a, <2>6 DEF KernelPlace, HeldPlace
  <2> QED
    BY <1>1, <2>5, <2>6, <2>7
<1>10. ASSUME NEW h \in Handles, NEW p \in Packets, SendBuilt(h, p) PROVE PlaceInv'
  <2>1. PICK s : s = Skb(p, Eth, "ingress")
    OBVIOUS
  <2>2. s.pkt = p /\ s.at = Eth /\ s.by = {} /\ s.dir = "ingress"
    BY <2>1 DEF Skb
  <2>3. KindOf[p] = "in"
    BY <1>10 DEF SendBuilt
  <2>4. PICK t : t = Injected(h, s)
    OBVIOUS
  <2>5. /\ t.by = {h} /\ t.pkt = p
        /\ t.mark = "redirect" /\ t.at = Lo /\ t.priority = Prio[h]
    BY <2>2, <2>4, InjectedSkb DEF Ifaces
  <2>6. skbs' = skbs \cup {t} /\ held' = held
    BY <1>10, <2>1, <2>4 DEF SendBuilt
  <2>7. KernelPlace(t) /\ NumberOf(t)
    BY <2>3, <2>5 DEF KernelPlace, NumberOf
  <2> QED
    BY <1>1, <2>6, <2>7
<1>11. ASSUME NEW h \in Mortal, Ends(h) PROVE PlaceInv'
  <2>1. skbs' = skbs /\ \A g \in Handles : held'[g] \subseteq held[g]
    BY <1>11, <1>0 DEF Ends, Shutdown, OwnerDies, GoesStale, Detach
  <2> QED
    BY <1>2, <2>1
<1>12. CASE Idle
  BY <1>2, <1>12 DEF Idle, vars
<1> QED
  BY <1>3, <1>4, <1>5, <1>7, <1>8, <1>9, <1>10, <1>11, <1>12 DEF Next, Kernel, Application
\* Handles only close and halt, captures are only added: whoever has had its
\* turn has had it for good, and nobody begins to watch.
Later ==
    /\ open' \subseteq open /\ seen \subseteq seen'
    /\ \A h \in Handles : halted'[h] = {} => halted[h] = {}

LEMMA StepIsLater ==
    ASSUME TypeOK, Next
    PROVE  Later
<1> USE PathAssumption DEF Later
<1>1. ASSUME open' = open, halted' = halted, seen \subseteq seen' PROVE Later
  BY <1>1
<1>2. ASSUME NEW p \in Packets, Enter(p) PROVE Later
  BY <1>1, <1>2 DEF Enter
<1>3. ASSUME NEW s \in skbs, Travel(s) PROVE Later
  BY <1>1, <1>3 DEF Travel
<1>4. ASSUME NEW s \in skbs, NEW h \in Handles, Redirect(h, s) \/ Pass(h, s) \/ Match(h, s) PROVE Later
  BY <1>1, <1>4 DEF Redirect, Pass, Match
<1>5. ASSUME NEW h \in Handles, Application(h) PROVE Later
  BY <1>1, <1>5 DEF Application, Send, SendBuilt
<1>6. ASSUME NEW h \in Mortal, Ends(h) PROVE Later
  BY <1>6 DEF Ends, Shutdown, OwnerDies, GoesStale, Detach, TypeOK
<1>7. CASE Idle
  BY <1>1, <1>7 DEF Idle, vars
<1> QED
  BY <1>2, <1>3, <1>4, <1>5, <1>6, <1>7 DEF Next, Kernel

LEMMA StillWatches ==
    ASSUME Later, NEW h \in Handles, NEW s
    PROVE  /\ Watches(h, s.pkt)' => Watches(h, s.pkt)
           /\ HadTurn(h, s) => HadTurn(h, s)'
           /\ Attached(h, s.at)' => Attached(h, s.at)
BY DEF Later, Watches, HadTurn, Attached, Applies

\* TurnInv of one skb.
TurnOf(s) ==
    /\ RanInOrder(s)
    /\ s.mark = "redirect" /\ s.dir = "ingress" => s.ran = {}
    /\ Exempt(s) \/ TurnsTaken(s)

LEMMA TurnStays ==
    ASSUME Later, NEW s, TurnOf(s)
    PROVE  TurnOf(s)'
<1>1. RanInOrder(s)'
  BY StillWatches DEF TurnOf, RanInOrder
<1>2. TurnsTaken(s) => TurnsTaken(s)'
  BY StillWatches DEF TurnsTaken, AtHook, PastHook
<1> QED
  BY <1>1, <1>2 DEF TurnOf, Exempt

\* An skb that has just come to a hook.
LEMMA TurnFresh ==
    ASSUME NEW s, s.ran = {}, ~PastHook(s)
    PROVE  TurnOf(s)'
BY DEF TurnOf, RanInOrder, TurnsTaken, PastHook

\* The hook of its kind, for a handle that watches.
LEMMA WatcherAttached ==
    ASSUME NEW s \in Skbs, KernelPlace(s), NEW h \in Handles, Watches(h, s.pkt)
    PROVE  /\ AtHook(s) => Attached(h, s.at)
           /\ s.at = Lo => Attached(h, s.at)
<1>1. s.pkt \in Packets /\ KindOf[s.pkt] \in {"out", "in", "fwd", "loop"}
  BY PathAssumption DEF Skbs
<1> QED
  BY <1>1, PathAssumption DEF Watches, Applies, Attached, AtHook, KernelPlace

\* When no program is left to run at the hook of its kind, everybody who
\* watches has had its turn.
LEMMA AllHadTurn ==
    ASSUME NEW s \in Skbs, KernelPlace(s), TurnOf(s), ~Exempt(s), Ahead(s) = {}, AtHook(s) \/ PastHook(s)
    PROVE  \A h \in Handles : Watches(h, s.pkt) => HadTurn(h, s)
<1> SUFFICES ASSUME NEW h \in Handles, Watches(h, s.pkt) PROVE HadTurn(h, s)
  OBVIOUS
<1>1. CASE PastHook(s)
  BY <1>1 DEF TurnOf, TurnsTaken
<1>2. CASE AtHook(s)
  <2>1. Attached(h, s.at)
    BY <1>2, WatcherAttached
  <2>2. h \in s.ran
    <3>1. h \notin Ahead(s)
      OBVIOUS
    <3> QED
      BY <2>1, <3>1 DEF Ahead, TurnOf, RanInOrder
  <2> QED
    BY <1>2, <2>2 DEF TurnOf, TurnsTaken
<1> QED
  BY <1>1, <1>2

\* A program skips what is meant for it only after an injection at or below
\* its priority.
LEMMA SkippedHadTurn ==
    ASSUME NEW s \in Skbs, MarkOf(s), KernelPlace(s), NumberOf(s), ~Exempt(s), AtHook(s),
           NEW h \in Handles, Watches(h, s.pkt), Skips(h, Arrived(s))
    PROVE  HadTurn(h, s)
<1>1. PICK a \in Skbs : a = Arrived(s)
  BY ArrivedSkb
<1>2. /\ a.pkt = s.pkt /\ a.dir = s.dir /\ a.by = s.by /\ a.at = s.at /\ a.num = s.num
      /\ a.mark = IF s.dir = "ingress" /\ s.mark = "redirected" THEN "loop" ELSE s.mark
  BY <1>1, ArrivedSkb
<1>3. a.iif = s.iif
  BY <1>1 DEF Arrived, Skbs
<1>4. s.pkt \in Packets /\ KindOf[s.pkt] \in {"out", "in", "fwd", "loop"} /\ s.by \subseteq Handles
  BY PathAssumption DEF Skbs
<1>5. halted[h] = {} /\ Applies(h, s.pkt)
  BY DEF Watches
<1>6. a.mark # "redirect"
  BY <1>2, <1>4, PathAssumption DEF KernelPlace, AtHook, MarkOf
<1>7. ~(a.at = Lo /\ (a.dir = "ingress" \/ Lo \notin Selected[h]))
  BY <1>2, <1>4, <1>5, PathAssumption DEF KernelPlace, AtHook, Applies
<1>8. ~(a.dir = "ingress" /\ (Layer[h] = "forward" \/ KindOf[a.pkt] = "fwd"))
  BY <1>2, <1>4, <1>5, PathAssumption DEF KernelPlace, AtHook, Applies
<1>9. ~(a.dir = "egress" /\ Forwarded(a) # (Layer[h] = "forward"))
  <2>1. s.iif \in BOOLEAN
    BY DEF Skbs
  <2>2. CASE KindOf[s.pkt] = "fwd"
    BY <1>2, <1>3, <1>5, <2>1, <2>2, PathAssumption DEF KernelPlace, AtHook, Applies, Forwarded, Exempt
  <2>3. CASE KindOf[s.pkt] = "out"
    BY <1>2, <1>3, <1>5, <2>1, <2>3, PathAssumption DEF KernelPlace, Applies, Forwarded
  <2>4. CASE KindOf[s.pkt] = "loop"
    BY <1>2, <1>3, <1>5, <2>1, <2>4, PathAssumption DEF KernelPlace, Applies, Forwarded
  <2>5. CASE KindOf[s.pkt] = "in"
    BY <1>2, <2>5, PathAssumption DEF KernelPlace, AtHook
  <2> QED
    BY <1>4, <2>2, <2>3, <2>4, <2>5
<1>10. a.pkt \in Wanted[h] /\ halted[h] \cap {"recv", "stale"} = {}
  BY <1>2, <1>5 DEF Applies
<1>11. Marked(h, a)
  BY <1>1, <1>6, <1>7, <1>8, <1>9, <1>10 DEF Skips
<1>12. s.mark \in {"loop", "redirected"} /\ Prio[h] <= s.num
  BY <1>2, <1>11 DEF Marked
<1>13. PICK g \in s.by : Prio[g] = s.num
  BY <1>12 DEF NumberOf
<1> QED
  BY <1>12, <1>13 DEF HadTurn

\* Every step keeps the programs in order and nobody who watches is left out.
LEMMA TurnStep ==
    ASSUME TypeOK, Good(skbs, held, seen), PlaceInv, TurnInv, LeftInv, StrayOnlyDetached, Next
    PROVE  TurnInv' /\ LeftInv' /\ StrayOnlyDetached'
<1> USE PathAssumption
<1>0. /\ \A s \in skbs : s \in Skbs /\ MarkOf(s) /\ KernelPlace(s) /\ NumberOf(s) /\ TurnOf(s)
      /\ held \in [Handles -> SUBSET Skbs]
  BY DEF TypeOK, Good, PlaceInv, TurnInv, TurnOf
<1>1. Later
  BY StepIsLater
<1>2. ASSUME \A s \in skbs' : s \in skbs \/ TurnOf(s)' PROVE TurnInv'
  <2>1. \A s \in skbs : TurnOf(s)'
    BY <1>0, <1>1, TurnStays
  <2>2. \A s \in skbs' : TurnOf(s)'
    BY <1>2, <2>1
  <2> QED
    BY <2>2 DEF TurnInv, TurnOf
<1>3. ASSUME left' = left PROVE LeftInv' /\ StrayOnlyDetached'
  <2>1. LeftInv'
    BY <1>1, <1>3, StillWatches DEF LeftInv, Exempt
  <2>2. StrayOnlyDetached'
    BY <1>1, <1>3 DEF StrayOnlyDetached, Later
  <2> QED
    BY <2>1, <2>2
<1>4. ASSUME NEW t, t.ran = {}, ~PastHook(t), skbs' \subseteq skbs \cup {t}, left' = left
      PROVE  TurnInv' /\ LeftInv' /\ StrayOnlyDetached'
  <2>1. TurnOf(t)'
    BY <1>4, TurnFresh
  <2> QED
    BY <1>2, <1>3, <1>4, <2>1
<1>5. ASSUME NEW p \in Packets, Enter(p) PROVE TurnInv' /\ LeftInv' /\ StrayOnlyDetached'
  <2>1. PICK t : t = CASE KindOf[p] = "out" -> Skb(p, Eth, "egress")
                       [] KindOf[p] \in {"in", "fwd"} -> [Skb(p, Eth, "ingress") EXCEPT !.iif = TRUE]
                       [] KindOf[p] = "loop" -> Skb(p, Lo, "egress")
    OBVIOUS
  <2>2. KindOf[p] \in {"out", "in", "fwd", "loop"}
    OBVIOUS
  <2>3. t.ran = {} /\ t.pkt = p /\ (KindOf[p] = "loop" => t.dir = "egress")
    BY <2>1, <2>2 DEF Skb
  <2>4. skbs' = skbs \cup {t} /\ left' = left
    BY <1>5, <2>1 DEF Enter
  <2> QED
    BY <1>4, <2>3, <2>4 DEF PastHook
<1>6. ASSUME NEW s \in skbs, Travel(s) PROVE TurnInv' /\ LeftInv' /\ StrayOnlyDetached'
  <2>1. s \in Skbs /\ MarkOf(s) /\ KernelPlace(s) /\ NumberOf(s) /\ TurnOf(s) /\ Ahead(s) = {}
    BY <1>0, <1>6 DEF Travel
  <2>2. s.pkt \in Packets /\ KindOf[s.pkt] \in {"out", "in", "fwd", "loop"} /\ s.dir \in {"ingress", "egress"}
    BY <2>1 DEF Skbs
  <2>3. CASE /\ \/ s.dir = "egress" /\ s.at # Lo
                \/ s.dir = "ingress" /\ (s.at = Lo \/ KindOf[s.pkt] # "fwd")
             /\ skbs' = skbs \ {s} /\ left' = left \cup {s}
    <3>1. TurnInv'
      BY <1>2, <2>3
    <3>2. s.mark = "redirect" => s.at = Lo /\ s.dir = "ingress" /\ s.ran = {} /\ s.by # {}
      BY <2>1, <2>3 DEF MarkOf, TurnOf
    <3>3. s.mark = "redirect" => \A g \in Handles : ~Attached(g, Lo)
      BY <2>1, <3>2 DEF Ahead
    <3>4. Exempt(s) \/ \A h \in Handles : Watches(h, s.pkt) => HadTurn(h, s)
      <4>1. CASE AtHook(s) \/ PastHook(s)
        BY <2>1, <4>1, AllHadTurn
      <4>2. CASE ~(AtHook(s) \/ PastHook(s))
        <5>1. s.mark = "redirect"
          BY <2>1, <2>2, <2>3, <4>2 DEF AtHook, PastHook, KernelPlace
        <5> QED
          BY <2>1, <3>2, <3>3, <5>1, WatcherAttached
      <4> QED
        BY <4>1, <4>2
    <3>5. s.mark = "redirect" => \E g \in s.by : g \notin open' \/ Mode[g] = "send"
      <4>1. s.by \subseteq Handles
        BY <2>1 DEF Skbs
      <4> QED
        BY <1>1, <3>2, <3>3, <4>1 DEF Attached, Later
    <3>6. LeftInv'
      <4>1. \A x \in left : Exempt(x) \/ \A h \in Handles : Watches(h, x.pkt)' => HadTurn(h, x)'
        BY <1>1, StillWatches DEF LeftInv
      <4>2. Exempt(s) \/ \A h \in Handles : Watches(h, s.pkt)' => HadTurn(h, s)'
        BY <1>1, <3>4, StillWatches
      <4> QED
        BY <2>3, <4>1, <4>2 DEF LeftInv, Exempt
    <3>7. StrayOnlyDetached'
      BY <1>1, <2>3, <3>5 DEF StrayOnlyDetached, Later
    <3> QED
      BY <3>1, <3>6, <3>7
  <2>4. CASE /\ s.at = Lo /\ s.dir = "egress"
             /\ Move(s, [s EXCEPT !.dir = "ingress", !.ran = {}, !.iif = TRUE]) /\ left' = left
    <3>1. PICK t : t = [s EXCEPT !.dir = "ingress", !.ran = {}, !.iif = TRUE]
      OBVIOUS
    <3>2. t.ran = {} /\ t.by = s.by /\ t.pkt = s.pkt /\ t.dir = "ingress"
      BY <2>1, <3>1 DEF Skbs
    <3>3. skbs' = (skbs \ {s}) \cup {t}
      BY <2>4, <3>1 DEF Move
    <3>4. CASE KindOf[s.pkt] # "loop"
      BY <1>4, <2>4, <3>2, <3>3, <3>4 DEF PastHook
    <3>5. CASE KindOf[s.pkt] = "loop"
      <4>1. AtHook(s) /\ ~Exempt(s)
        BY <2>4, <3>5 DEF AtHook, Exempt
      <4>2. \A h \in Handles : Watches(h, s.pkt) => HadTurn(h, s)
        BY <2>1, <4>1, AllHadTurn
      <4>3. \A h \in Handles : Watches(h, s.pkt)' => HadTurn(h, s)'
        BY <1>1, <4>2, StillWatches
      <4>4. \A h \in Handles : Watches(h, t.pkt)' => HadTurn(h, t)'
        BY <3>2, <4>3 DEF HadTurn
      <4>5. TurnOf(t)'
        BY <3>2, <4>4 DEF TurnOf, TurnsTaken, RanInOrder
      <4> QED
        BY <1>2, <1>3, <2>4, <3>3, <4>5
    <3> QED
      BY <3>4, <3>5
  <2>5. CASE /\ s.at = Eth /\ s.dir = "ingress" /\ KindOf[s.pkt] = "fwd"
             /\ Move(s, [s EXCEPT !.at = Far, !.dir = "egress", !.ran = {}]) /\ left' = left
    <3>1. PICK t : t = [s EXCEPT !.at = Far, !.dir = "egress", !.ran = {}]
      OBVIOUS
    <3>2. t.ran = {} /\ t.pkt = s.pkt
      BY <2>1, <3>1 DEF Skbs
    <3>3. skbs' = (skbs \ {s}) \cup {t}
      BY <2>5, <3>1 DEF Move
    <3> QED
      BY <1>4, <2>5, <3>2, <3>3 DEF PastHook
  <2> QED
    BY <1>6, <2>3, <2>4, <2>5 DEF Travel
<1>7. ASSUME NEW s \in skbs, NEW h \in Handles, Redirect(h, s) PROVE TurnInv' /\ LeftInv' /\ StrayOnlyDetached'
  <2>1. PICK t : t = [s EXCEPT !.at = Eth, !.ran = {}, !.mark = "redirected", !.num = s.priority,
                               !.priority = 0, !.iif = TRUE]
    OBVIOUS
  <2>2. s \in Skbs /\ KernelPlace(s) /\ s.mark = "redirect" /\ left' = left
    BY <1>0, <1>7 DEF Redirect
  <2>3. t.ran = {} /\ t.pkt = s.pkt
    BY <2>1, <2>2 DEF Skbs
  <2>4. skbs' = (skbs \ {s}) \cup {t}
    BY <1>7, <2>1 DEF Redirect, Move
  <2>5. ~PastHook(t)
    BY <2>2, <2>3 DEF PastHook, KernelPlace
  <2> QED
    BY <1>4, <2>2, <2>3, <2>4, <2>5
\* The program of h has run, and h has had its turn if it watches.
<1>8. ASSUME NEW s \in skbs, NEW h \in Handles, IsNext(h, s), ~(s.dir = "ingress" /\ s.mark = "redirect"),
             Watches(h, s.pkt) /\ AtHook(s) /\ ~Exempt(s) => HadTurn(h, s)',
             skbs' \subseteq skbs \cup {[Arrived(s) EXCEPT !.ran = @ \cup {h}]}, left' = left
      PROVE  TurnInv' /\ LeftInv' /\ StrayOnlyDetached'
  <2>1. PICK t : t = [Arrived(s) EXCEPT !.ran = @ \cup {h}]
    OBVIOUS
  <2>2. s \in Skbs /\ TurnOf(s) /\ TurnOf(s)'
    BY <1>0, <1>1, TurnStays
  <2>3. /\ t.pkt = s.pkt /\ t.at = s.at /\ t.by = s.by /\ t.dir = s.dir /\ t.ran = s.ran \cup {h}
        /\ t.mark = s.mark \/ t.mark = "loop"
    BY <2>1, <2>2 DEF Arrived, Skbs
  <2>4. RanInOrder(t)'
    <3> SUFFICES ASSUME NEW g \in Handles, Attached(g, t.at)', g \notin t.ran, NEW f \in t.ran
                 PROVE  Prio[f] <= Prio[g]
      BY DEF RanInOrder
    <3>1. Attached(g, s.at) /\ g \notin s.ran
      BY <1>1, <2>3 DEF Attached, Later
    <3>2. \A x \in s.ran : Prio[x] <= Prio[g]
      BY <2>2, <3>1 DEF TurnOf, RanInOrder
    <3>3. g \in Ahead(s)
      BY <3>1, <3>2 DEF Ahead
    <3>4. Prio[h] <= Prio[g]
      BY <1>8, <3>3 DEF IsNext
    <3> QED
      BY <2>3, <3>2, <3>4
  <2>5. Exempt(t) \/ TurnsTaken(t)'
    <3> SUFFICES ASSUME ~Exempt(t), NEW g \in Handles, Watches(g, t.pkt)',
                        PastHook(t) \/ (AtHook(t) /\ g \in t.ran)
                 PROVE  HadTurn(g, t)'
      BY DEF TurnsTaken, PastHook, AtHook
    <3>1. Watches(g, s.pkt)' /\ ~Exempt(s) /\ (PastHook(s) \/ (AtHook(s) /\ g \in t.ran))
      BY <2>3 DEF Watches, Exempt, PastHook, AtHook
    <3>2. CASE PastHook(s) \/ (AtHook(s) /\ g \in s.ran)
      <4>1. HadTurn(g, s)'
        BY <2>2, <3>1, <3>2 DEF TurnOf, TurnsTaken, Exempt, PastHook, AtHook
      <4> QED
        BY <2>3, <4>1 DEF HadTurn
    <3>3. CASE AtHook(s) /\ g = h
      <4>1. Watches(h, s.pkt)
        BY <1>1, <3>1, <3>3, StillWatches
      <4>2. HadTurn(h, s)'
        BY <1>8, <3>1, <3>3, <4>1
      <4> QED
        BY <2>3, <3>3, <4>2 DEF HadTurn
    <3> QED
      BY <2>3, <3>1, <3>2, <3>3
  <2>6. TurnOf(t)'
    BY <1>8, <2>3, <2>4, <2>5 DEF TurnOf, Exempt
  <2> QED
    BY <1>2, <1>3, <1>8, <2>1, <2>6
<1>9. ASSUME NEW s \in skbs, NEW h \in Handles, Pass(h, s) PROVE TurnInv' /\ LeftInv' /\ StrayOnlyDetached'
  <2>1. /\ IsNext(h, s) /\ ~(s.dir = "ingress" /\ s.mark = "redirect") /\ left' = left
        /\ Skips(h, Arrived(s)) \/ h \in MayFail
        /\ skbs' = (skbs \ {s}) \cup {[Arrived(s) EXCEPT !.ran = @ \cup {h}]}
    BY <1>9 DEF Pass, Move
  <2>2. Watches(h, s.pkt) /\ AtHook(s) /\ ~Exempt(s) => HadTurn(h, s)
    BY <1>0, <2>1, SkippedHadTurn DEF Watches
  <2>3. HadTurn(h, s) => HadTurn(h, s)'
    BY <1>1, StillWatches
  <2> QED
    BY <1>8, <2>1, <2>2, <2>3
<1>10. ASSUME NEW s \in skbs, NEW h \in Handles, Match(h, s) PROVE TurnInv' /\ LeftInv' /\ StrayOnlyDetached'
  <2>1. /\ IsNext(h, s) /\ ~(s.dir = "ingress" /\ s.mark = "redirect") /\ left' = left
        /\ seen' = seen \cup {Capture(h, Arrived(s))}
        /\ skbs' \subseteq skbs \cup {[Arrived(s) EXCEPT !.ran = @ \cup {h}]}
    BY <1>10 DEF Match, Move
  <2>2. Arrived(s).pkt = s.pkt
    BY <1>0, ArrivedSkb
  <2>3. \E c \in seen' : c.who = h /\ c.pkt = s.pkt
    <3>1. Capture(h, Arrived(s)).who = h /\ Capture(h, Arrived(s)).pkt = s.pkt
      BY <2>2 DEF Capture
    <3> QED
      BY <2>1, <3>1
  <2>4. HadTurn(h, s)'
    BY <2>3 DEF HadTurn
  <2> QED
    BY <1>8, <2>1, <2>4
<1>11. ASSUME NEW h \in Handles, NEW s \in held[h], Send(h, s) PROVE TurnInv' /\ LeftInv' /\ StrayOnlyDetached'
  <2>1. PICK t : t = Injected(h, s)
    OBVIOUS
  <2>2. s.pkt \in Packets /\ s.at \in Ifaces /\ s.by \in SUBSET Handles
    BY <1>0 DEF Skbs
  <2>3. t.ran = {} /\ t.dir = "egress"
    BY <2>1, <2>2, InjectedPlace
  <2>4. skbs' = skbs \cup {t} /\ left' = left
    BY <1>11, <2>1 DEF Send
  <2> QED
    BY <1>4, <2>3, <2>4 DEF PastHook
<1>12. ASSUME NEW h \in Handles, NEW p \in Packets, SendBuilt(h, p) PROVE TurnInv' /\ LeftInv' /\ StrayOnlyDetached'
  <2>1. PICK s : s = Skb(p, Eth, "ingress")
    OBVIOUS
  <2>2. s.pkt \in Packets /\ s.at \in Ifaces /\ s.by \in SUBSET Handles
    BY <2>1 DEF Skb, Ifaces
  <2>3. PICK t : t = Injected(h, s)
    OBVIOUS
  <2>4. t.ran = {} /\ t.dir = "egress"
    BY <2>2, <2>3, InjectedPlace
  <2>5. skbs' = skbs \cup {t} /\ left' = left
    BY <1>12, <2>1, <2>3 DEF SendBuilt
  <2> QED
    BY <1>4, <2>4, <2>5 DEF PastHook
<1>13. ASSUME NEW h \in Mortal, Ends(h) PROVE TurnInv' /\ LeftInv' /\ StrayOnlyDetached'
  <2>1. skbs' = skbs /\ left' = left
    BY <1>13 DEF Ends, Shutdown, OwnerDies, GoesStale, Detach
  <2> QED
    BY <1>2, <1>3, <2>1
<1>14. CASE Idle
  BY <1>2, <1>3, <1>14 DEF Idle, vars
<1> QED
  BY <1>5, <1>6, <1>7, <1>9, <1>10, <1>11, <1>12, <1>13, <1>14 DEF Next, Kernel, Application

-----------------------------------------------------------------------------
\* The whole of PathInv is inductive: marks, places, the order of the
\* programs and the turns of the handles.
THEOREM PathInvariant == Spec => []PathInv
<1> DEFINE Inv == PlaceInv /\ TurnInv /\ LeftInv /\ StrayOnlyDetached
<1>1. Init => Inv
  BY PathAssumption DEF Init, PlaceInv, TurnInv, LeftInv, StrayOnlyDetached
<1>2. MarkedInv /\ Inv /\ [Next]_vars => Inv'
  <2>1. MarkedInv => TypeOK /\ Good(skbs, held, seen)
    BY MarkedInvIs
  <2>2. MarkedInv /\ Inv /\ Next => Inv'
    BY <2>1, PlaceStep, TurnStep
  <2>3. Inv /\ UNCHANGED vars => Inv'
    <3> SUFFICES ASSUME Inv, UNCHANGED vars PROVE Inv'
      OBVIOUS
    <3>1. skbs' = skbs /\ held' = held /\ left' = left /\ seen' = seen /\ open' = open /\ halted' = halted
      BY DEF vars
    <3>2. PlaceInv'
      BY <3>1 DEF PlaceInv, KernelPlace, NumberOf, HeldPlace
    <3>3. TurnInv'
      <4>1. ASSUME NEW s \in skbs PROVE RanInOrder(s)'
        BY <3>1 DEF TurnInv, RanInOrder, Attached
      <4>2. ASSUME NEW s \in skbs PROVE Exempt(s) \/ TurnsTaken(s)'
        <5>1. CASE Exempt(s)
          BY <5>1
        <5>2. CASE TurnsTaken(s)
          BY <3>1, <5>2 DEF TurnsTaken, Watches, HadTurn
        <5> QED
          BY <5>1, <5>2 DEF TurnInv
      <4> QED
        BY <3>1, <4>1, <4>2 DEF TurnInv, Exempt
    <3>4. LeftInv' /\ StrayOnlyDetached'
      BY <3>1 DEF LeftInv, StrayOnlyDetached, Exempt, Watches, HadTurn
    <3> QED
      BY <3>2, <3>3, <3>4
  <2> QED
    BY <2>2, <2>3
<1>3. MarkedInv /\ Inv => PathInv
  BY DEF PathInv
<1> HIDE DEF Inv
<1> QED
  BY MarkedInvariant, <1>1, <1>2, <1>3, PTL DEF Spec

\* tc_divert_ingress on lo sends every inbound injection on to its target as
\* long as its sender is attached, since attach_interfaces always takes lo.
THEOREM StraysAreDetached == Spec => []StrayOnlyDetached
<1>1. PathInv => StrayOnlyDetached
  BY DEF PathInv
<1> QED
  BY PathInvariant, <1>1, PTL

\* process_packet lets every handle after the injectors see a packet before it
\* leaves, for any handles of which none diverts forwarded packets; what a
\* forward handle injects is the exception (run forward).
THEOREM LowerHandlesGetTheirTurn ==
    ASSUME ~ForwardDiverts
    PROVE  Spec => []LowerHandlesSee
<1> DEFINE Inv == \A s \in left : ~Exempt(s)
<1>1. Init => Inv
  BY DEF Init
<1>2. PathInv /\ Inv /\ [Next]_vars => Inv'
  <2> SUFFICES ASSUME PathInv, Inv, [Next]_vars PROVE Inv'
    OBVIOUS
  <2>1. \A s \in skbs : ~Exempt(s)
    BY DEF PathInv, PlaceInv, KernelPlace, Exempt
  <2>2. left' \subseteq left \cup skbs
    <3>1. ASSUME NEW s \in skbs, Travel(s) PROVE left' \subseteq left \cup skbs
      BY <3>1 DEF Travel
    <3>2. ASSUME NEW s \in skbs, NEW h \in Handles, Redirect(h, s) \/ Pass(h, s) \/ Match(h, s)
          PROVE  left' \subseteq left \cup skbs
      BY <3>2 DEF Redirect, Pass, Match
    <3>3. ASSUME NEW p \in Packets, Enter(p) PROVE left' \subseteq left \cup skbs
      BY <3>3 DEF Enter
    <3>4. ASSUME NEW h \in Handles, Application(h) PROVE left' \subseteq left \cup skbs
      BY <3>4 DEF Application, Send, SendBuilt
    <3>5. ASSUME NEW h \in Mortal, Ends(h) PROVE left' \subseteq left \cup skbs
      BY <3>5 DEF Ends, Shutdown, OwnerDies, GoesStale, Detach
    <3>6. CASE Idle \/ UNCHANGED vars
      BY <3>6 DEF Idle, vars
    <3> QED
      BY <3>1, <3>2, <3>3, <3>4, <3>5, <3>6 DEF Next, Kernel
  <2> QED
    BY <2>1, <2>2 DEF Exempt
<1>3. PathInv /\ Inv => LowerHandlesSee
  BY DEF PathInv, LeftInv, LowerHandlesSee
<1> HIDE DEF Inv
<1> QED
  BY PathInvariant, <1>1, <1>2, <1>3, PTL DEF Spec
=============================================================================
