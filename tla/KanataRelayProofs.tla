-------------------------- MODULE KanataRelayProofs -------------------------
(***************************************************************************)
(* The invariants of the relay for any number of faults of any kinds and   *)
(* any number of commands under way.  Whoever writes to the dial's Kanata  *)
(* knows only what was written before; the invariant says what the last    *)
(* key command under way is in each phase of the session and of a reset,   *)
(* and that no query is open but the one a phase waits for.                *)
(***************************************************************************)
EXTENDS KanataRelayProperties, SequenceTheorems, TLAPS

-----------------------------------------------------------------------------
(* The inductive invariant.                                                *)

IsQuery(m, c) == m.conn = c /\ m.cmd \in Queries
NoQuery(w, c) == \A i \in DOMAIN w : ~IsQuery(w[i], c)
OneQuery(w, c) ==
    \A i, j \in DOMAIN w : IsQuery(w[i], c) /\ IsQuery(w[j], c) => i = j

(* The last key command of w is for h.                                     *)
LastKey(w, h) ==
    \E i \in DOMAIN w :
        /\ w[i].cmd = KeyCommand(h)
        /\ \A j \in DOMAIN w : j > i => w[j].cmd \notin KeyCommands
NoKey(w) == \A i \in DOMAIN w : w[i].cmd \notin KeyCommands
NoPress(w) == \A i \in DOMAIN w : w[i].cmd # "press"

(* What the key will be of what the daemon has taken, and of everything.   *)
Drained == IF pending # <<>> THEN pending[Len(pending)] ELSE key
Will(h) == LastKey(wire, h) \/ (NoKey(wire) /\ Drained = h)
Released == NoPress(wire) /\ ~Drained

(* The release of resetTarget is under way, its query behind it and no     *)
(* press.                                                                  *)
Releasing(w) ==
    \E i, k \in DOMAIN w :
        /\ i < k
        /\ w[i] = [conn |-> "reset", cmd |-> "release"]
        /\ IsQuery(w[k], "reset")
        /\ \A j \in DOMAIN w : j > i => w[j].cmd # "press"

Awaits(c) == IF c = "session" THEN session \in {"names", "resetting"}
             ELSE reset \in {"names", "barrier"}

(* One query at most is open, and only where an answer is waited for.      *)
Open(c) ==
    /\ OneQuery(wire, c) /\ Len(replies[c]) <= 1
    /\ replies[c] # <<>> => NoQuery(wire, c)
    /\ ~Awaits(c) => NoQuery(wire, c) /\ replies[c] = <<>>

Believed ==
    /\ session = "resetting" => Will(FALSE)
    /\ session = "ready" => target /\ Will(sentHeld) /\ (Stopping => ~sentHeld)

Barred ==
    /\ reset = "barrier" => Released \/ Releasing(wire)
    /\ life = "stopped" \/ reset = "done" => Released
    /\ life \in {"stopped", "failed", "dead"} => session \in {"down", "closing"}
    /\ life = "up" => reset = "none"
    /\ life = "stopping" => reset \in {"names", "barrier"}

IInv == TypeOK /\ Open("session") /\ Open("reset") /\ Believed /\ Barred

-----------------------------------------------------------------------------
(* What is under way when a command is written, taken or lost.             *)

LEMMA MessageTypes ==
    ASSUME NEW w \in Seq(Messages)
    PROVE  /\ Len(w) \in Nat /\ DOMAIN w = 1..Len(w)
           /\ \A i \in DOMAIN w : /\ w[i] \in Messages
                                  /\ w[i].cmd # "none" => w[i] # Lost
                                  /\ w[i].cmd = "none" => w[i] = Lost
                                  /\ w[i].conn \in Conns \cup {"gone"}
                                  /\ w[i].cmd \in KeyCommands \cup Queries \cup {"none"}
<1>1. Len(w) \in Nat /\ DOMAIN w = 1..Len(w)
  OBVIOUS
<1>2. ASSUME NEW m \in Messages
      PROVE  /\ m.cmd # "none" => m # Lost
             /\ m.cmd = "none" => m = Lost
             /\ m.conn \in Conns \cup {"gone"}
             /\ m.cmd \in KeyCommands \cup Queries \cup {"none"}
  BY DEF Messages, Lost, KeyCommands, Queries, Conns
<1> QED BY <1>1, <1>2

(* A command more.                                                         *)
LEMMA AppendKeeps ==
    ASSUME NEW w \in Seq(Messages), NEW m \in Messages, NEW v, v = Append(w, m)
    PROVE  /\ v \in Seq(Messages)
           /\ \A c \in Conns :
                 /\ NoQuery(w, c) => OneQuery(v, c)
                 /\ ~IsQuery(m, c) => /\ NoQuery(w, c) => NoQuery(v, c)
                                      /\ OneQuery(w, c) => OneQuery(v, c)
           /\ m.cmd # "press" => /\ NoPress(w) => NoPress(v)
                                 /\ Releasing(w) => Releasing(v)
           /\ \A h \in BOOLEAN :
                 /\ m.cmd = KeyCommand(h) => LastKey(v, h)
                 /\ m.cmd \notin KeyCommands => /\ LastKey(w, h) => LastKey(v, h)
                                                /\ NoKey(w) => NoKey(v)
<1>1. /\ v \in Seq(Messages) /\ DOMAIN v = 1..Len(w) + 1
      /\ v[Len(w) + 1] = m /\ \A i \in DOMAIN w : v[i] = w[i] /\ i \in DOMAIN v
      /\ \A i \in DOMAIN v : i = Len(w) + 1 \/ i \in DOMAIN w
      /\ Len(w) \in Nat /\ DOMAIN w = 1..Len(w) /\ Len(w) + 1 \in DOMAIN v
      /\ \A i \in DOMAIN w : i \in Nat /\ i < Len(w) + 1
  BY AppendProperties
<1> HIDE DEF Messages
<1>2. ASSUME NEW c \in Conns
      PROVE  /\ NoQuery(w, c) => OneQuery(v, c)
             /\ ~IsQuery(m, c) => /\ NoQuery(w, c) => NoQuery(v, c)
                                  /\ OneQuery(w, c) => OneQuery(v, c)
  BY <1>1 DEF NoQuery, OneQuery
<1>3. m.cmd # "press" => (NoPress(w) => NoPress(v))
  BY <1>1 DEF NoPress
<1>4. m.cmd # "press" => (Releasing(w) => Releasing(v))
  BY <1>1 DEF Releasing
<1>5. ASSUME NEW h \in BOOLEAN
      PROVE  /\ m.cmd = KeyCommand(h) => LastKey(v, h)
             /\ m.cmd \notin KeyCommands => /\ LastKey(w, h) => LastKey(v, h)
                                            /\ NoKey(w) => NoKey(v)
  <2>1. m.cmd = KeyCommand(h) => LastKey(v, h)
    BY <1>1 DEF LastKey
  <2>2. m.cmd \notin KeyCommands => (LastKey(w, h) => LastKey(v, h))
    BY <1>1 DEF LastKey
  <2>3. m.cmd \notin KeyCommands => (NoKey(w) => NoKey(v))
    BY <1>1 DEF NoKey
  <2> QED BY <2>1, <2>2, <2>3
<1> QED BY <1>1, <1>2, <1>3, <1>4, <1>5

(* The first command is taken.                                             *)
LEMMA TailKeeps ==
    ASSUME NEW w \in Seq(Messages), w # <<>>, NEW v, v = Tail(w),
           NEW m, m = Head(w)
    PROVE  /\ v \in Seq(Messages) /\ m \in Messages
           /\ \A c \in Conns :
                 /\ NoQuery(w, c) => NoQuery(v, c) /\ ~IsQuery(m, c)
                 /\ OneQuery(w, c) => OneQuery(v, c)
                 /\ OneQuery(w, c) /\ IsQuery(m, c) => NoQuery(v, c)
           /\ NoPress(w) => NoPress(v) /\ m.cmd # "press"
           /\ NoKey(w) => NoKey(v) /\ m.cmd \notin KeyCommands
           /\ Releasing(w) => Releasing(v) \/ (m.cmd = "release" /\ NoPress(v))
           /\ \A h \in BOOLEAN :
                 LastKey(w, h) => LastKey(v, h) \/ (m.cmd = KeyCommand(h) /\ NoKey(v))
<1>1. /\ v \in Seq(Messages) /\ m \in Messages /\ m = w[1]
      /\ Len(w) \in Nat /\ Len(w) >= 1
      /\ DOMAIN w = 1..Len(w) /\ DOMAIN v = 1..Len(w) - 1
      /\ \A i \in DOMAIN v : v[i] = w[i + 1]
  BY HeadTailProperties DEF Messages
<1>2. /\ 1 \in DOMAIN w /\ \A i \in DOMAIN w : i \in Nat /\ i >= 1
      /\ \A i \in DOMAIN v : i \in Nat /\ i + 1 \in DOMAIN w /\ i + 1 # 1
      /\ \A i \in DOMAIN w : i # 1 => i - 1 \in DOMAIN v /\ v[i - 1] = w[i]
  BY <1>1
<1>3. ASSUME NEW c \in Conns
      PROVE  /\ NoQuery(w, c) => NoQuery(v, c) /\ ~IsQuery(m, c)
             /\ OneQuery(w, c) => OneQuery(v, c)
             /\ OneQuery(w, c) /\ IsQuery(m, c) => NoQuery(v, c)
  <2>1. NoQuery(w, c) => NoQuery(v, c) /\ ~IsQuery(m, c)
    BY <1>1, <1>2 DEF NoQuery
  <2>2. OneQuery(w, c) => OneQuery(v, c)
    <3> SUFFICES ASSUME OneQuery(w, c), NEW i \in DOMAIN v, NEW j \in DOMAIN v,
                        IsQuery(v[i], c), IsQuery(v[j], c)
                 PROVE  i = j
      BY DEF OneQuery
    <3>1. i + 1 = j + 1
      BY <1>1, <1>2 DEF OneQuery
    <3> QED BY <1>2, <3>1
  <2>3. OneQuery(w, c) /\ IsQuery(m, c) => NoQuery(v, c)
    BY <1>1, <1>2 DEF OneQuery, NoQuery
  <2> QED BY <2>1, <2>2, <2>3
<1>4. NoPress(w) => NoPress(v) /\ m.cmd # "press"
  BY <1>1, <1>2 DEF NoPress
<1>5. NoKey(w) => NoKey(v) /\ m.cmd \notin KeyCommands
  BY <1>1, <1>2 DEF NoKey
<1>6. Releasing(w) => Releasing(v) \/ (m.cmd = "release" /\ NoPress(v))
  <2> SUFFICES ASSUME Releasing(w)
               PROVE  Releasing(v) \/ (m.cmd = "release" /\ NoPress(v))
    OBVIOUS
  <2>1. PICK i \in DOMAIN w, k \in DOMAIN w :
            /\ i < k
            /\ w[i] = [conn |-> "reset", cmd |-> "release"]
            /\ IsQuery(w[k], "reset")
            /\ \A j \in DOMAIN w : j > i => w[j].cmd # "press"
    BY DEF Releasing
  <2>2. CASE i = 1
    <3>1. m.cmd = "release"
      BY <1>1, <2>1, <2>2
    <3>2. ASSUME NEW j \in DOMAIN v PROVE v[j].cmd # "press"
      <4>1. j + 1 \in DOMAIN w /\ j + 1 > i /\ v[j] = w[j + 1]
        BY <1>1, <1>2, <2>2
      <4> QED BY <2>1, <4>1
    <3> QED BY <3>1, <3>2 DEF NoPress
  <2>3. CASE i # 1
    <3>1. /\ i - 1 \in DOMAIN v /\ v[i - 1] = w[i]
          /\ k - 1 \in DOMAIN v /\ v[k - 1] = w[k] /\ i - 1 < k - 1
      BY <1>2, <2>1, <2>3
    <3>2. ASSUME NEW j \in DOMAIN v, j > i - 1 PROVE v[j].cmd # "press"
      <4>1. j + 1 \in DOMAIN w /\ j + 1 > i /\ v[j] = w[j + 1]
        BY <1>1, <1>2, <3>2
      <4> QED BY <2>1, <4>1
    <3> QED BY <2>1, <3>1, <3>2 DEF Releasing
  <2> QED BY <2>2, <2>3
<1>7. ASSUME NEW h \in BOOLEAN, LastKey(w, h)
      PROVE  LastKey(v, h) \/ (m.cmd = KeyCommand(h) /\ NoKey(v))
  <2>1. PICK i \in DOMAIN w :
            /\ w[i].cmd = KeyCommand(h)
            /\ \A j \in DOMAIN w : j > i => w[j].cmd \notin KeyCommands
    BY <1>7 DEF LastKey
  <2>2. ASSUME NEW j \in DOMAIN v, j > i - 1 PROVE v[j].cmd \notin KeyCommands
    <3>1. j + 1 \in DOMAIN w /\ j + 1 > i /\ v[j] = w[j + 1]
      BY <1>1, <1>2, <2>2
    <3> QED BY <2>1, <3>1
  <2>3. CASE i = 1
    <3>1. \A j \in DOMAIN v : j > i - 1
      BY <1>1, <2>3
    <3> QED BY <1>1, <2>1, <2>2, <2>3, <3>1 DEF NoKey
  <2>4. CASE i # 1
    <3>1. i - 1 \in DOMAIN v /\ v[i - 1] = w[i]
      BY <1>2, <2>4
    <3> QED BY <2>1, <2>2, <3>1 DEF LastKey
  <2> QED BY <2>3, <2>4
<1> QED BY <1>1, <1>3, <1>4, <1>5, <1>6, <1>7

(* A connection dies.                                                      *)
LEMMA RemainsKeeps ==
    ASSUME NEW c \in Conns, NEW w \in Seq(Messages), NEW v \in Remains(c, w)
    PROVE  /\ v \in Seq(Messages) /\ NoQuery(v, c)
           /\ \A d \in Conns :
                 /\ NoQuery(w, d) => NoQuery(v, d)
                 /\ OneQuery(w, d) => OneQuery(v, d)
           /\ NoPress(w) => NoPress(v)
           /\ c = "session" /\ Releasing(w) => Releasing(v)
<1> DEFINE Arrived(n) == [i \in 1..Len(w) |->
                             IF w[i].conn = c THEN Fate(w[i], i <= n) ELSE w[i]]
<1>1. PICK n \in 0..Len(w), k \in 0..Len(w) :
          /\ v = SubSeq(Arrived(n), 1, k)
          /\ \A i \in k + 1..Len(w) : Arrived(n)[i] = Lost
  <2>1. \A x \in 0..Len(w) : Len(Arrived(x)) = Len(w)
    BY LenProperties
  <2> QED BY <2>1 DEF Remains
<1> DEFINE a == Arrived(n)
<1>2. /\ Len(w) \in Nat /\ DOMAIN w = 1..Len(w)
      /\ \A i \in DOMAIN w : a[i] = IF w[i].conn = c THEN Fate(w[i], i <= n) ELSE w[i]
  OBVIOUS
<1>3. ASSUME NEW i \in DOMAIN w
      PROVE  /\ a[i] \in Messages
             /\ w[i].conn # c => a[i] = w[i]
             /\ w[i].conn = c => /\ a[i].conn = "gone"
                                 /\ a[i].cmd \in {w[i].cmd, "none"}
  <2>1. Fate(w[i], i <= n) \in {[conn |-> "gone", cmd |-> w[i].cmd], Lost}
    BY DEF Fate
  <2>2. Fate(w[i], i <= n) \in Messages
    BY DEF Fate, Lost, Messages
  <2> QED BY <1>2, <2>1, <2>2 DEF Lost
<1>4. a \in Seq(Messages) /\ Len(a) = Len(w)
  BY <1>2, <1>3
<1> HIDE DEF a, Arrived
<1>5. /\ v \in Seq(Messages) /\ DOMAIN v = 1..k
      /\ \A i \in DOMAIN v : v[i] = a[i] /\ i \in DOMAIN w
  BY <1>1, <1>2, <1>4, SubSeqProperties DEF a
<1>6. \A i \in DOMAIN v : /\ w[i].conn # c => v[i] = w[i]
                          /\ w[i].conn = c => /\ v[i].conn = "gone"
                                              /\ v[i].cmd \in {w[i].cmd, "none"}
  BY <1>3, <1>5
<1>7. \A d \in Conns : d # "gone"
  BY DEF Conns
<1>8. \A d \in Conns, i \in DOMAIN v : IsQuery(v[i], d) => IsQuery(w[i], d) /\ d # c
  BY <1>6, <1>7 DEF IsQuery
<1>9. NoPress(w) => NoPress(v)
  BY <1>5, <1>6 DEF NoPress
<1>10. ASSUME c = "session", Releasing(w) PROVE Releasing(v)
  <2>1. PICK i \in DOMAIN w, j \in DOMAIN w :
            /\ i < j
            /\ w[i] = [conn |-> "reset", cmd |-> "release"]
            /\ IsQuery(w[j], "reset")
            /\ \A x \in DOMAIN w : x > i => w[x].cmd # "press"
    BY <1>10 DEF Releasing
  <2>2. a[i] = w[i] /\ a[j] = w[j]
    BY <1>3, <1>10, <2>1 DEF IsQuery
  <2>3. a[j] # Lost
    BY <2>1, <2>2 DEF IsQuery, Lost
  <2>4. j \in DOMAIN v /\ i \in DOMAIN v
    BY <1>1, <1>2, <1>5, <2>1, <2>3 DEF a
  <2>5. v[i] = w[i] /\ v[j] = w[j]
    BY <1>5, <2>2, <2>4
  <2>6. \A x \in DOMAIN v : x > i => v[x].cmd # "press"
    BY <1>5, <1>6, <2>1
  <2> QED BY <2>1, <2>4, <2>5, <2>6 DEF Releasing
<1>11. NoQuery(v, c)
  BY <1>8 DEF NoQuery
<1>12. ASSUME NEW d \in Conns
       PROVE  /\ NoQuery(w, d) => NoQuery(v, d)
              /\ OneQuery(w, d) => OneQuery(v, d)
  BY <1>5, <1>8 DEF NoQuery, OneQuery
<1> QED BY <1>5, <1>9, <1>10, <1>11, <1>12

-----------------------------------------------------------------------------
(* What a step does to what is under way.                                  *)

LEMMA TwoAppended ==
    ASSUME NEW S, NEW w \in Seq(S), NEW a \in S, NEW b \in S
    PROVE  w \o <<a, b>> = Append(Append(w, a), b)
<1>1. Append(Append(w, a), b) = (w \o <<a>>) \o <<b>>
  BY AppendIsConcat, AppendProperties
<1>2. (w \o <<a>>) \o <<b>> = w \o (<<a>> \o <<b>>)
  BY ConcatAssociative
<1>3. <<a>> \o <<b>> = <<a, b>>
  <2>1. /\ <<a>> \in Seq(S) /\ <<b>> \in Seq(S) /\ <<a, b>> \in Seq(S)
        /\ Len(<<a>>) = 1 /\ Len(<<b>>) = 1 /\ Len(<<a, b>>) = 2
        /\ <<a>>[1] = a /\ <<b>>[1] = b /\ <<a, b>>[1] = a /\ <<a, b>>[2] = b
    OBVIOUS
  <2> DEFINE p == <<a>>
             q == <<b>>
             pq == <<a, b>>
  <2> HIDE DEF p, q, pq
  <2>2. /\ p \o q \in Seq(S) /\ Len(p \o q) = 2
        /\ (p \o q)[1] = a /\ (p \o q)[2] = b
    <3>1. p \in Seq(S) /\ q \in Seq(S) /\ Len(p) = 1 /\ Len(q) = 1
             /\ p[1] = a /\ q[1] = b
      BY <2>1 DEF p, q
    <3> QED BY <3>1, ConcatProperties
  <2>3. pq \in Seq(S) /\ Len(pq) = 2 /\ pq[1] = a /\ pq[2] = b
    BY <2>1 DEF pq
  <2>4. p \o q = pq
    BY <2>2, <2>3, SeqEqual
  <2> QED BY <2>4 DEF p, q, pq
<1> QED BY <1>1, <1>2, <1>3

LEMMA Written ==
    ASSUME TypeOK, NEW c \in Conns, NEW x \in KeyCommands \cup Queries,
           NEW y \in KeyCommands \cup Queries
    PROVE  /\ Write(c, <<x>>) = Append(wire, [conn |-> c, cmd |-> x])
           /\ Write(c, <<x, y>>) = Append(Append(wire, [conn |-> c, cmd |-> x]),
                                         [conn |-> c, cmd |-> y])
           /\ [conn |-> c, cmd |-> x] \in Messages
<1>1. wire \in Seq(Messages)
  BY DEF TypeOK
<1>2. [conn |-> c, cmd |-> x] \in Messages /\ [conn |-> c, cmd |-> y] \in Messages
  BY DEF Messages
<1>3. Write(c, <<x>>) = wire \o <<[conn |-> c, cmd |-> x]>>
  <2>1. [i \in 1..Len(<<x>>) |-> [conn |-> c, cmd |-> <<x>>[i]]]
           = <<[conn |-> c, cmd |-> x]>>
    OBVIOUS
  <2> QED BY <2>1 DEF Write
<1>4. Write(c, <<x, y>>)
         = wire \o <<[conn |-> c, cmd |-> x], [conn |-> c, cmd |-> y]>>
  <2>1. [i \in 1..Len(<<x, y>>) |-> [conn |-> c, cmd |-> <<x, y>>[i]]]
           = <<[conn |-> c, cmd |-> x], [conn |-> c, cmd |-> y]>>
    OBVIOUS
  <2> QED BY <2>1 DEF Write
<1> HIDE DEF Messages
<1>5. Write(c, <<x>>) = Append(wire, [conn |-> c, cmd |-> x])
  BY <1>1, <1>2, <1>3
<1>6. Write(c, <<x, y>>) = Append(Append(wire, [conn |-> c, cmd |-> x]),
                                  [conn |-> c, cmd |-> y])
  <2> DEFINE p == [conn |-> c, cmd |-> x]
             q == [conn |-> c, cmd |-> y]
  <2>1. p \in Messages /\ q \in Messages /\ Write(c, <<x, y>>) = wire \o <<p, q>>
    BY <1>2, <1>4
  <2> HIDE DEF p, q
  <2>2. wire \o <<p, q>> = Append(Append(wire, p), q)
    BY <1>1, <2>1, TwoAppended
  <2> QED BY <2>1, <2>2 DEF p, q
<1> QED BY <1>2, <1>5, <1>6

(* A key command written decides what the key will be; a query does not.   *)
LEMMA WriteDecides ==
    ASSUME NEW w \in Seq(Messages), NEW m \in Messages,
           wire' = Append(w, m), UNCHANGED daemonVars
    PROVE  /\ wire' \in Seq(Messages)
           /\ \A h \in BOOLEAN :
                 /\ m.cmd = KeyCommand(h) => Will(h)'
                 /\ m.cmd \notin KeyCommands /\ w = wire /\ Will(h) => Will(h)'
           /\ m.cmd # "press" /\ NoPress(w) /\ ~Drained => Released'
           /\ m.cmd # "press" /\ Releasing(w) => Releasing(wire')
<1>1. Drained' = Drained
  BY DEF Drained, daemonVars
<1> QED BY <1>1, AppendKeeps DEF Will, Released

(* The death of a connection presses nothing.                              *)
LEMMA CutDecides ==
    ASSUME NEW c \in Conns, NEW w \in Seq(Messages), wire' \in Remains(c, w),
           UNCHANGED daemonVars
    PROVE  NoPress(w) /\ ~Drained => Released'
<1>1. Drained' = Drained
  BY DEF Drained, daemonVars
<1> QED BY <1>1, RemainsKeeps DEF Released

LEMMA TakeDecides ==
    ASSUME TypeOK, Take
    PROVE  /\ wire' \in Seq(Messages) /\ pending' \in Seq(BOOLEAN)
           /\ \A h \in BOOLEAN : Will(h) => Will(h)'
           /\ Released => Released'
           /\ Releasing(wire) => Released' \/ Releasing(wire')
<1> DEFINE m == Head(wire)
<1>0. wire \in Seq(Messages) /\ pending \in Seq(BOOLEAN) /\ key \in BOOLEAN
  BY DEF TypeOK
<1>1. /\ wire # <<>> /\ wire' = Tail(wire) /\ key' = key
      /\ pending' = IF m.cmd \in KeyCommands
                    THEN Append(pending, m.cmd = "press") ELSE pending
  BY DEF Take
<1> HIDE DEF m
<1>2. CASE m.cmd \notin KeyCommands
  <2>1. Drained' = Drained
    BY <1>1, <1>2 DEF Drained
  <2>2. m.cmd # "release" /\ \A h \in BOOLEAN : m.cmd # KeyCommand(h)
    BY <1>2 DEF KeyCommands, KeyCommand
  <2> QED BY <1>0, <1>1, <1>2, <2>1, <2>2, TailKeeps DEF Will, Released, m
<1>3. CASE m.cmd \in KeyCommands
  <2>1. Drained' = (m.cmd = "press") /\ pending' \in Seq(BOOLEAN)
    <3>1. pending' = Append(pending, m.cmd = "press") /\ (m.cmd = "press") \in BOOLEAN
      BY <1>1, <1>3
    <3>2. /\ pending' \in Seq(BOOLEAN) /\ pending' # <<>>
          /\ pending'[Len(pending')] = (m.cmd = "press")
      BY <1>0, <3>1, AppendProperties
    <3> QED BY <3>2 DEF Drained
  <2>2. \A h \in BOOLEAN : m.cmd = KeyCommand(h) => Drained' = h
    BY <2>1 DEF KeyCommand
  <2>3. ~NoKey(wire)
    BY <1>0, <1>1, <1>3, TailKeeps DEF m
  <2>4. ASSUME NEW h \in BOOLEAN, Will(h) PROVE Will(h)'
    <3>1. LastKey(wire, h)
      BY <2>3, <2>4 DEF Will
    <3>2. LastKey(wire', h) \/ (m.cmd = KeyCommand(h) /\ NoKey(wire'))
      BY <1>0, <1>1, <3>1, TailKeeps DEF m
    <3> QED BY <2>2, <3>2 DEF Will
  <2>5. m.cmd = "release" \/ m.cmd = "press"
    BY <1>3 DEF KeyCommands
  <2>6. Released => Released'
    BY <1>0, <1>1, <2>1, <2>5, TailKeeps DEF Released, m
  <2>7. Releasing(wire) => Released' \/ Releasing(wire')
    BY <1>0, <1>1, <2>1, TailKeeps DEF Released, m
  <2> QED BY <1>0, <1>1, <2>1, <2>4, <2>6, <2>7, TailKeeps DEF m
<1> QED BY <1>2, <1>3

-----------------------------------------------------------------------------
(* What the sessions do with replies.                                      *)

Answers == {"names", "base", "precision"}

LEMMA ConsumedFacts ==
    ASSUME TypeOK, NEW c \in Conns, replies[c] # <<>>, replies' = Consumed(c)
    PROVE  /\ replies' \in [Conns -> Seq(Answers)] /\ replies'[c] = <<>>
           /\ \A d \in Conns : d # c => replies'[d] = replies[d]
           /\ \A d \in Conns : Len(replies'[d]) <= 1
<1>1. /\ replies \in [Conns -> Seq(Answers)]
      /\ \A d \in Conns : Len(replies[d]) <= 1
  BY DEF TypeOK, Answers
<1>2. Tail(replies[c]) = <<>> /\ Len(<<>>) = 0 /\ <<>> \in Seq(Answers)
  <2>1. replies[c] \in Seq(Answers) /\ Len(replies[c]) = 1
    <3> DEFINE q == replies[c]
    <3>1. q \in Seq(Answers) /\ Len(q) <= 1 /\ q # <<>>
      BY <1>1
    <3> HIDE DEF q
    <3>2. Len(q) \in Nat /\ Len(q) # 0
      BY <3>1, EmptySeq
    <3>3. \A n \in Nat : n # 0 /\ n <= 1 => n = 1
      OBVIOUS
    <3>4. Len(q) = 1
      BY <3>1, <3>2, <3>3, Zenon
    <3> QED BY <3>1, <3>4, Zenon DEF q
  <2>2. Tail(replies[c]) \in Seq(Answers) /\ Len(Tail(replies[c])) = 0
    BY <2>1, HeadTailProperties
  <2> QED BY <2>2, EmptySeq
<1> QED BY <1>1, <1>2 DEF Consumed

LEMMA ClearedFacts ==
    ASSUME TypeOK, NEW C \in SUBSET Conns,
           replies' = [c \in Conns |-> IF c \in C THEN <<>> ELSE replies[c]]
    PROVE  /\ replies' \in [Conns -> Seq(Answers)]
           /\ \A c \in C : replies'[c] = <<>>
           /\ \A d \in Conns \ C : replies'[d] = replies[d]
           /\ \A d \in Conns : Len(replies'[d]) <= 1
<1>1. /\ replies \in [Conns -> Seq(Answers)]
      /\ \A d \in Conns : Len(replies[d]) <= 1
  BY DEF TypeOK, Answers
<1>2. Len(<<>>) = 0 /\ <<>> \in Seq(Answers)
  OBVIOUS
<1> QED BY <1>1, <1>2

LEMMA DropsSession ==
    ASSUME TypeOK, replies' = [replies EXCEPT !["session"] = <<>>]
    PROVE  /\ replies' \in [Conns -> Seq(Answers)] /\ replies'["session"] = <<>>
           /\ replies'["reset"] = replies["reset"]
           /\ \A d \in Conns : Len(replies'[d]) <= 1
<1>1. replies' = [c \in Conns |-> IF c \in {"session"} THEN <<>> ELSE replies[c]]
  BY DEF TypeOK, Conns
<1> QED BY <1>1, ClearedFacts DEF Conns

-----------------------------------------------------------------------------
(* The steps.                                                              *)

relayVars == <<session, target, sentHeld, life, reset, wire, replies>>

LEMMA ElsewhereKeeps ==
    ASSUME IInv, UNCHANGED relayVars, UNCHANGED daemonVars
    PROVE  Open("session")' /\ Open("reset")' /\ Believed' /\ Barred'
BY DEF IInv, relayVars, daemonVars, Open, Believed, Barred, Will, Released,
       Drained, Awaits, Stopping

LEMMA KeyboardKeeps ==
    ASSUME IInv, \/ ChangeLayer \/ Hang \/ Recover \/ SourceConnect
                 \/ SourceLost \/ SourceDeadline
    PROVE  IInv'
<1>1. UNCHANGED relayVars /\ UNCHANGED daemonVars
  BY DEF ChangeLayer, Hang, Recover, SourceConnect, SourceLost, SourceDeadline,
         relayVars, beliefs, lifeVars
<1>2. TypeOK'
  <2>1. /\ keyboard' \in BOOLEAN /\ hung' \in BOOLEAN
        /\ updates' \in Seq(BOOLEAN) /\ source' \in {"down", "up", "closing"}
        /\ faults' \in 0..MaxFaults /\ sourceHeld' = sourceHeld
    <3>1. /\ keyboard \in BOOLEAN /\ hung \in BOOLEAN /\ updates \in Seq(BOOLEAN)
          /\ source \in {"down", "up", "closing"} /\ faults \in 0..MaxFaults
      BY DEF IInv, TypeOK
    <3>2. CASE ChangeLayer
      <4>1. (~keyboard) \in BOOLEAN
        OBVIOUS
      <4>2. Append(updates, ~keyboard) \in Seq(BOOLEAN)
        BY <3>1, <4>1, AppendProperties
      <4> QED BY <3>1, <3>2, <4>1, <4>2 DEF ChangeLayer, beliefs
    <3>3. CASE Hang
      BY <3>1, <3>3, BoundAssumption DEF Hang, Fault, beliefs
    <3>4. CASE Recover \/ SourceConnect
      <4>1. <<>> \in Seq(BOOLEAN) /\ <<keyboard>> \in Seq(BOOLEAN)
            /\ Append(updates, keyboard) \in Seq(BOOLEAN)
        BY <3>1
      <4> QED BY <3>1, <3>4, <4>1
              DEF Recover, SourceConnect, keyboardVars, lifeVars, beliefs
    <3>5. CASE SourceLost \/ SourceDeadline
      <4>1. updates' = <<>> /\ source' = "closing" /\ <<>> \in Seq(BOOLEAN)
        BY <3>5 DEF SourceLost, SourceDeadline, Destroyed
      <4>2. faults' \in 0..MaxFaults
        BY <3>1, <3>5, BoundAssumption DEF SourceLost, SourceDeadline, Fault
      <4> QED BY <3>1, <3>5, <4>1, <4>2
              DEF SourceLost, SourceDeadline, keyboardVars, lifeVars, beliefs
    <3> QED BY <3>2, <3>3, <3>4, <3>5
  <2> QED BY <1>1, <2>1 DEF IInv, TypeOK, relayVars, daemonVars
<1> QED BY <1>1, <1>2, ElsewhereKeeps DEF IInv

LEMMA ProcessKeeps ==
    ASSUME IInv, Process
    PROVE  IInv'
<1>1. /\ pending \in Seq(BOOLEAN) /\ pending # <<>> /\ key' = Head(pending)
      /\ pending' = Tail(pending)
  BY DEF IInv, TypeOK, Process
<1>2. pending' \in Seq(BOOLEAN) /\ key' \in BOOLEAN /\ Drained' = Drained
  <2>1. /\ pending' \in Seq(BOOLEAN) /\ Len(pending') = Len(pending) - 1
        /\ key' = pending[1] /\ Len(pending) >= 1 /\ Len(pending) \in Nat
        /\ \A i \in 1..Len(pending) - 1 : pending'[i] = pending[i + 1]
    BY <1>1, HeadTailProperties
  <2>2. key' \in BOOLEAN
    BY <1>1, <2>1
  <2>3. CASE pending' = <<>>
    <3>1. Len(pending) = 1
      BY <2>1, <2>3
    <3> QED BY <1>1, <2>1, <2>2, <2>3, <3>1 DEF Drained
  <2>4. CASE pending' # <<>>
    <3>1. Len(pending') >= 1 /\ Len(pending') \in Nat
      BY <2>1, <2>4
    <3>2. pending'[Len(pending')] = pending[Len(pending)]
      BY <2>1, <3>1
    <3> QED BY <1>1, <2>1, <2>2, <2>4, <3>2 DEF Drained
  <2> QED BY <2>3, <2>4
<1>3. UNCHANGED <<keyboard, hung, updates, source, session, target, sourceHeld,
                  sentHeld, life, reset, wire, replies, faults>>
  BY DEF Process, keyboardVars, lifeVars, beliefs
<1>4. TypeOK'
  BY <1>2, <1>3 DEF IInv, TypeOK
<1>5. Open("session")' /\ Open("reset")' /\ Believed' /\ Barred'
  BY <1>2, <1>3
     DEF IInv, Open, Believed, Barred, Will, Released, Awaits, Stopping
<1> QED BY <1>4, <1>5 DEF IInv

Typed ==
    /\ wire' \in Seq(Messages) /\ sentHeld' \in BOOLEAN /\ session' \in Phases
    /\ replies' \in [Conns -> Seq(Answers)]
    /\ \A c \in Conns : Len(replies'[c]) <= 1
    /\ faults' \in 0..MaxFaults

LEMMA TypesHeld ==
    ASSUME TypeOK
    PROVE  /\ wire \in Seq(Messages) /\ sentHeld \in BOOLEAN /\ session \in Phases
           /\ replies \in [Conns -> Seq(Answers)]
           /\ \A c \in Conns : Len(replies[c]) <= 1
           /\ faults \in 0..MaxFaults /\ life \in Lives /\ reset \in Resets
           /\ {keyboard, hung, target, sourceHeld, key} \subseteq BOOLEAN
           /\ updates \in Seq(BOOLEAN) /\ pending \in Seq(BOOLEAN)
           /\ source \in {"down", "up", "closing"}
BY DEF TypeOK, Answers

LEMMA FaultCounts ==
    ASSUME TypeOK, NEW kind, Fault(kind)
    PROVE  faults' \in 0..MaxFaults
BY BoundAssumption DEF TypeOK, Fault

(* apply() sends a key command on a ready session only, and while the      *)
(* relay stops no press.                                                   *)
LEMMA ApplyKeeps ==
    ASSUME IInv, NEW held \in BOOLEAN, Apply(held), held => ~Stopping,
           UNCHANGED <<target, life, reset>>, UNCHANGED daemonVars
    PROVE  Typed /\ Open("session")' /\ Open("reset")' /\ Believed' /\ Barred'
<1> DEFINE m == [conn |-> "session", cmd |-> KeyCommand(held)]
           w == Append(wire, m)
<1>1. CASE UNCHANGED <<wire, sentHeld, session, replies, faults>>
  <2>1. UNCHANGED relayVars
    BY <1>1 DEF relayVars
  <2>2. Typed
    BY <1>1, TypesHeld DEF Typed, IInv
  <2> QED BY <2>1, <2>2, ElsewhereKeeps
<1>2. CASE session = "ready" /\ held # sentHeld
  <2>1. life = "up" /\ life' = "up" /\ reset = "none" /\ reset' = "none"
    BY <1>2, TypesHeld DEF IInv, Believed, Barred, Stopping
  <2>2. /\ KeyCommand(held) \in KeyCommands /\ "session" \in Conns /\ "reset" \in Conns
        /\ m \in Messages /\ ~IsQuery(m, "session") /\ ~IsQuery(m, "reset")
        /\ m.cmd = KeyCommand(held)
    BY DEF KeyCommand, KeyCommands, Conns, IsQuery, Queries, Messages
  <2>3. Write("session", <<KeyCommand(held)>>) = w
    BY <2>2, Written DEF IInv
  <2>4. w \in Seq(Messages) /\ wire \in Seq(Messages)
    BY <2>2, TypesHeld, AppendKeeps DEF IInv
  <2>5. /\ NoQuery(w, "session") /\ replies["session"] = <<>>
        /\ NoQuery(w, "reset") /\ replies["reset"] = <<>>
    <3>1. /\ NoQuery(wire, "session") /\ replies["session"] = <<>>
          /\ NoQuery(wire, "reset") /\ replies["reset"] = <<>>
      BY <1>2, <2>1 DEF IInv, Open, Awaits
    <3> HIDE DEF m
    <3>2. NoQuery(w, "session") /\ NoQuery(w, "reset")
      BY <2>2, <2>4, <3>1, AppendKeeps
    <3> QED BY <3>1, <3>2
  <2> HIDE DEF m, w
  <2>6. CASE /\ wire' = w /\ sentHeld' = held
             /\ UNCHANGED <<session, replies, faults>>
    <3>1. Typed
      BY <2>4, <2>6, TypesHeld DEF Typed, IInv
    <3>2. Open("session")' /\ Open("reset")'
      BY <2>5, <2>6, TypesHeld DEF Open, OneQuery, NoQuery, IInv, Conns
    <3>3. Will(held)'
      BY <2>2, <2>4, <2>6, WriteDecides DEF w
    <3>4. Believed' /\ Barred'
      BY <1>2, <2>1, <2>6, <3>3
         DEF IInv, Believed, Barred, Stopping, Will, Released, Drained
    <3> QED BY <3>1, <3>2, <3>4
  <2>7. CASE /\ Fault("backpressure") /\ wire' \in Remains("session", w)
             /\ session' = "closing"
             /\ replies' = [replies EXCEPT !["session"] = <<>>]
             /\ UNCHANGED sentHeld
    <3>1. /\ wire' \in Seq(Messages) /\ NoQuery(wire', "session")
          /\ NoQuery(wire', "reset")
      <4>1. PICK v \in Remains("session", w) : v = wire'
        BY <2>7
      <4>2. v \in Seq(Messages) /\ NoQuery(v, "session") /\ NoQuery(v, "reset")
        BY <2>2, <2>4, <2>5, RemainsKeeps
      <4> QED BY <4>1, <4>2
    <3>2. Typed
      BY <2>7, <3>1, TypesHeld, DropsSession, FaultCounts
         DEF Typed, IInv, Phases
    <3>3. replies'["session"] = <<>> /\ replies'["reset"] = <<>>
      BY <2>5, <2>7, DropsSession DEF IInv
    <3>4. Open("session")' /\ Open("reset")'
      BY <3>1, <3>2, <3>3 DEF Open, OneQuery, NoQuery, Typed, Conns
    <3>5. Believed' /\ Barred'
      BY <2>1, <2>7 DEF Believed, Barred
    <3> QED BY <3>2, <3>4, <3>5
  <2> QED BY <1>1, <2>3, <2>6, <2>7 DEF Apply
<1> QED BY <1>1, <1>2 DEF Apply

LEMMA SourceKeeps ==
    ASSUME IInv, SourceData \/ SourceClose
    PROVE  IInv'
<1> DEFINE held == SourceData /\ ~Stopping /\ Head(updates)
<1>1. /\ TypeOK /\ updates \in Seq(BOOLEAN)
      /\ UNCHANGED <<target, life, reset, keyboard, hung>> /\ UNCHANGED daemonVars
  BY DEF IInv, TypeOK, SourceData, SourceClose, keyboardVars, lifeVars
<1>2. \E h \in BOOLEAN : Apply(h) /\ (h => ~Stopping)
  <2>1. SourceData => Apply(~Stopping /\ Head(updates))
    BY DEF SourceData
  <2>2. SourceClose => Apply(FALSE)
    BY DEF SourceClose
  <2>3. updates # <<>> => (~Stopping /\ Head(updates)) \in BOOLEAN
    BY <1>1
  <2> QED BY <2>1, <2>2, <2>3, Zenon DEF SourceData
<1>3. Typed /\ Open("session")' /\ Open("reset")' /\ Believed' /\ Barred'
  BY <1>1, <1>2, ApplyKeeps
<1>4. /\ updates' \in Seq(BOOLEAN) /\ sourceHeld' \in BOOLEAN
      /\ source' \in {"down", "up", "closing"}
  <2>1. CASE SourceData
    <3>1. updates # <<>> /\ updates' = Tail(updates) /\ sourceHeld' = Head(updates)
             /\ source' = source
      BY <2>1 DEF SourceData
    <3> QED BY <1>1, <3>1, HeadTailProperties, TypesHeld
  <2>2. CASE SourceClose
    BY <1>1, <2>2, TypesHeld DEF SourceClose
  <2> QED BY <2>1, <2>2
<1>5. TypeOK'
  BY <1>1, <1>3, <1>4, TypesHeld DEF TypeOK, Typed, Answers, daemonVars
<1> QED BY <1>3, <1>5 DEF IInv

(* The steps of the target session.                                        *)
LEMMA TypeAgain ==
    ASSUME TypeOK, Typed, target' \in BOOLEAN,
           UNCHANGED <<keyboard, hung, updates, source, sourceHeld, life, reset>>,
           UNCHANGED daemonVars
    PROVE  TypeOK'
BY TypesHeld DEF TypeOK, Typed, Answers, daemonVars

LEMMA ConnectKeeps ==
    ASSUME IInv, TargetConnect
    PROVE  IInv'
<1> DEFINE m == [conn |-> "session", cmd |-> "names"]
<1>1. /\ TypeOK /\ session = "down" /\ session' = "names"
      /\ life = "up" /\ reset = "none"
      /\ wire' = Write("session", <<"names">>)
      /\ UNCHANGED <<keyboard, hung, updates, source, target, sourceHeld, sentHeld,
                     life, reset, replies, faults>>
      /\ UNCHANGED daemonVars
  BY DEF IInv, Barred, TargetConnect, keyboardVars, lifeVars, beliefs
<1>2. /\ "session" \in Conns /\ "names" \in KeyCommands \cup Queries
      /\ ~IsQuery(m, "reset") /\ "reset" \in Conns
  BY DEF Conns, Queries, IsQuery
<1>3. wire' = Append(wire, m) /\ m \in Messages
  BY <1>1, <1>2, Written
<1> HIDE DEF m
<1>4. wire \in Seq(Messages)
  BY <1>1, TypesHeld
<1>5. /\ NoQuery(wire, "session") /\ replies["session"] = <<>>
      /\ NoQuery(wire, "reset") /\ replies["reset"] = <<>>
  BY <1>1 DEF IInv, Open, Awaits
<1>6. /\ wire' \in Seq(Messages)
      /\ OneQuery(wire', "session") /\ NoQuery(wire', "reset")
      /\ OneQuery(wire', "reset")
  BY <1>2, <1>3, <1>4, <1>5, AppendKeeps
<1>7. Typed
  BY <1>1, <1>6, TypesHeld DEF Typed, Phases
<1>8. Open("session")' /\ Open("reset")'
  BY <1>1, <1>2, <1>5, <1>6, <1>7 DEF Open, Awaits, Typed
<1>9. Believed' /\ Barred'
  BY <1>1 DEF Believed, Barred
<1>10. TypeOK'
  BY <1>1, <1>7, TypesHeld, TypeAgain
<1> QED BY <1>8, <1>9, <1>10 DEF IInv

(* A layer query on a connection that consumed its answer.                 *)
LEMMA AskAgain ==
    ASSUME IInv, NEW c \in Conns, replies[c] # <<>>, replies' = Consumed(c),
           wire' = Write(c, <<"layer">>), UNCHANGED daemonVars,
           UNCHANGED <<session, life, reset, target, sentHeld>>, Awaits(c)
    PROVE  /\ wire' \in Seq(Messages)
           /\ Open("session")' /\ Open("reset")' /\ Believed' /\ Barred'
<1> DEFINE m == [conn |-> c, cmd |-> "layer"]
<1>1. /\ TypeOK /\ wire \in Seq(Messages)
  BY TypesHeld DEF IInv
<1>2. /\ "layer" \in KeyCommands \cup Queries /\ m.cmd \notin KeyCommands
      /\ m.cmd # "press" /\ \A d \in Conns : d # c => ~IsQuery(m, d)
  BY DEF KeyCommands, Queries, IsQuery
<1>3. wire' = Append(wire, m) /\ m \in Messages
  BY <1>1, <1>2, Written
<1> HIDE DEF m
<1>4. NoQuery(wire, c)
  BY DEF IInv, Open, Conns
<1>5. /\ wire' \in Seq(Messages) /\ OneQuery(wire', c)
      /\ \A d \in Conns : d # c => /\ NoQuery(wire, d) => NoQuery(wire', d)
                                   /\ OneQuery(wire, d) => OneQuery(wire', d)
  BY <1>1, <1>2, <1>3, <1>4, AppendKeeps
<1>6. /\ replies'[c] = <<>> /\ \A d \in Conns : d # c => replies'[d] = replies[d]
      /\ \A d \in Conns : Len(replies'[d]) <= 1
  BY <1>1, ConsumedFacts
<1>7. "session" \in Conns /\ "reset" \in Conns
  BY DEF Conns
<1>8. ASSUME NEW d \in Conns, Open(d), Awaits(d)' <=> Awaits(d)
      PROVE  Open(d)'
  BY <1>5, <1>6, <1>8 DEF Open
<1>9. Open("session")' /\ Open("reset")'
  BY <1>7, <1>8 DEF IInv, Awaits
<1>10. /\ \A h \in BOOLEAN : Will(h) => Will(h)'
       /\ Released => Released'
       /\ Releasing(wire) => Releasing(wire')
  BY <1>1, <1>2, <1>3, WriteDecides DEF Released
<1>11. Believed' /\ Barred'
  BY <1>1, <1>10, TypesHeld DEF IInv, Believed, Barred, Stopping
<1> QED BY <1>5, <1>9, <1>11

LEMMA WaitsKeeps ==
    ASSUME IInv, TargetWaits \/ ResetWaits
    PROVE  IInv'
<1>1. \E c \in Conns :
          /\ replies[c] # <<>> /\ replies' = Consumed(c)
          /\ wire' = Write(c, <<"layer">>) /\ Awaits(c)
  BY DEF TargetWaits, ResetWaits, Received, Conns, Awaits
<1>2. /\ TypeOK /\ UNCHANGED daemonVars
      /\ UNCHANGED <<keyboard, hung, updates, source, sourceHeld, session, life, reset,
                     target, sentHeld, faults>>
  BY DEF IInv, TargetWaits, ResetWaits, keyboardVars, lifeVars, beliefs
<1>3. /\ wire' \in Seq(Messages)
      /\ Open("session")' /\ Open("reset")' /\ Believed' /\ Barred'
  BY <1>1, <1>2, AskAgain
<1>4. Typed
  BY <1>1, <1>2, <1>3, TypesHeld, ConsumedFacts DEF Typed
<1>5. TypeOK'
  BY <1>2, <1>4, TypesHeld, TypeAgain
<1> QED BY <1>3, <1>5 DEF IInv

(* The release and the query of a reset, on either connection.             *)
LEMMA ResetWritten ==
    ASSUME IInv, NEW c \in Conns, replies[c] # <<>>, replies' = Consumed(c),
           wire' = Write(c, <<"release", "layer">>), UNCHANGED daemonVars
    PROVE  /\ wire' \in Seq(Messages) /\ OneQuery(wire', c)
           /\ \A d \in Conns :
                 d # c => /\ NoQuery(wire, d) => NoQuery(wire', d)
                          /\ OneQuery(wire, d) => OneQuery(wire', d)
           /\ replies'[c] = <<>> /\ replies' \in [Conns -> Seq(Answers)]
           /\ \A d \in Conns : d # c => replies'[d] = replies[d]
           /\ \A d \in Conns : Len(replies'[d]) <= 1
           /\ Will(FALSE)'
           /\ Released => Released'
           /\ Releasing(wire) => Releasing(wire')
           /\ c = "reset" => Releasing(wire')
<1> DEFINE m == [conn |-> c, cmd |-> "release"]
           q == [conn |-> c, cmd |-> "layer"]
           w == Append(wire, m)
<1>1. TypeOK /\ wire \in Seq(Messages)
  BY TypesHeld DEF IInv
<1>2. /\ "layer" \in KeyCommands \cup Queries
      /\ "release" \in KeyCommands \cup Queries
      /\ m.cmd = KeyCommand(FALSE) /\ m.cmd # "press"
      /\ q.cmd \notin KeyCommands /\ q.cmd # "press" /\ IsQuery(q, c)
      /\ \A d \in Conns : ~IsQuery(m, d) /\ (d # c => ~IsQuery(q, d))
  BY DEF KeyCommands, Queries, IsQuery, KeyCommand
<1>3. wire' = Append(w, q) /\ m \in Messages /\ q \in Messages
  BY <1>1, <1>2, Written
<1>4. c = "reset" => m = [conn |-> "reset", cmd |-> "release"]
  OBVIOUS
<1> HIDE DEF m, q, w
<1>5. NoQuery(wire, c)
  BY DEF IInv, Open, Conns
<1>6. /\ w \in Seq(Messages) /\ NoQuery(w, c)
      /\ \A d \in Conns : /\ NoQuery(wire, d) => NoQuery(w, d)
                          /\ OneQuery(wire, d) => OneQuery(w, d)
      /\ NoPress(wire) => NoPress(w)
      /\ Releasing(wire) => Releasing(w)
      /\ LastKey(w, FALSE)
  BY <1>1, <1>2, <1>3, <1>5, AppendKeeps DEF w
<1>7. /\ wire' \in Seq(Messages) /\ OneQuery(wire', c)
      /\ \A d \in Conns :
            d # c => /\ NoQuery(wire, d) => NoQuery(wire', d)
                     /\ OneQuery(wire, d) => OneQuery(wire', d)
      /\ NoPress(wire) => NoPress(wire')
      /\ Releasing(wire) => Releasing(wire')
      /\ LastKey(wire', FALSE)
  BY <1>2, <1>3, <1>6, AppendKeeps
<1>8. Drained' = Drained
  BY DEF Drained, daemonVars
<1>9. /\ replies'[c] = <<>> /\ replies' \in [Conns -> Seq(Answers)]
      /\ \A d \in Conns : d # c => replies'[d] = replies[d]
      /\ \A d \in Conns : Len(replies'[d]) <= 1
  BY <1>1, ConsumedFacts
<1>10. c = "reset" => Releasing(wire')
  <2>1. /\ DOMAIN wire' = 1..Len(wire) + 2 /\ Len(wire) \in Nat
        /\ wire'[Len(wire) + 1] = m /\ wire'[Len(wire) + 2] = q
    BY <1>1, <1>3, <1>6, AppendProperties DEF w
  <2>2. \A j \in DOMAIN wire' : j > Len(wire) + 1 => j = Len(wire) + 2
    BY <2>1
  <2>3. /\ Len(wire) + 1 \in DOMAIN wire' /\ Len(wire) + 2 \in DOMAIN wire'
        /\ Len(wire) + 1 < Len(wire) + 2
    BY <2>1
  <2> QED BY <1>2, <1>4, <2>1, <2>2, <2>3 DEF Releasing
<1> QED BY <1>7, <1>8, <1>9, <1>10 DEF Will, Released

LEMMA NamesKeeps ==
    ASSUME IInv, TargetNames
    PROVE  IInv'
<1>1. /\ TypeOK /\ session = "names" /\ session' = "resetting"
      /\ "session" \in Conns /\ "reset" \in Conns
      /\ replies["session"] # <<>> /\ replies' = Consumed("session")
      /\ wire' = Write("session", <<"release", "layer">>)
      /\ UNCHANGED <<keyboard, hung, updates, source, target, sourceHeld, sentHeld,
                     life, reset, faults>>
      /\ UNCHANGED daemonVars
  BY DEF IInv, TargetNames, keyboardVars, lifeVars, beliefs, Received, Conns
<1>2. /\ wire' \in Seq(Messages) /\ OneQuery(wire', "session")
      /\ NoQuery(wire, "reset") => NoQuery(wire', "reset")
      /\ OneQuery(wire, "reset") => OneQuery(wire', "reset")
      /\ replies'["session"] = <<>> /\ replies' \in [Conns -> Seq(Answers)]
      /\ replies'["reset"] = replies["reset"]
      /\ \A d \in Conns : Len(replies'[d]) <= 1
      /\ Will(FALSE)'
      /\ Released => Released'
      /\ Releasing(wire) => Releasing(wire')
  BY <1>1, ResetWritten
<1>3. Typed
  BY <1>1, <1>2, TypesHeld DEF Typed, Phases
<1>4. Open("session")' /\ Open("reset")'
  BY <1>1, <1>2 DEF IInv, Open, Awaits
<1>5. Believed' /\ Barred'
  BY <1>1, <1>2 DEF IInv, Believed, Barred
<1>6. TypeOK'
  BY <1>1, <1>3, TypesHeld, TypeAgain
<1> QED BY <1>4, <1>5, <1>6 DEF IInv

LEMMA ResetNamesKeeps ==
    ASSUME IInv, ResetNames
    PROVE  IInv'
<1>1. /\ TypeOK /\ reset = "names" /\ reset' = "barrier" /\ life' = life /\ life # "up"
      /\ "session" \in Conns /\ "reset" \in Conns
      /\ replies["reset"] # <<>> /\ replies' = Consumed("reset")
      /\ wire' = Write("reset", <<"release", "layer">>)
      /\ UNCHANGED <<keyboard, hung, updates, source, target, sourceHeld, sentHeld,
                     session, faults>>
      /\ UNCHANGED daemonVars
  BY DEF IInv, Barred, ResetNames, keyboardVars, lifeVars, beliefs, Received, Conns
<1>2. /\ wire' \in Seq(Messages) /\ OneQuery(wire', "reset")
      /\ NoQuery(wire, "session") => NoQuery(wire', "session")
      /\ OneQuery(wire, "session") => OneQuery(wire', "session")
      /\ replies'["reset"] = <<>> /\ replies' \in [Conns -> Seq(Answers)]
      /\ replies'["session"] = replies["session"]
      /\ \A d \in Conns : Len(replies'[d]) <= 1
      /\ Will(FALSE)'
      /\ Released => Released'
      /\ Releasing(wire')
  BY <1>1, ResetWritten
<1>3. Open("session")' /\ Open("reset")'
  BY <1>1, <1>2 DEF IInv, Open, Awaits
<1>4. Believed' /\ Barred'
  BY <1>1, <1>2, TypesHeld DEF IInv, Believed, Barred, Stopping
<1>5. TypeOK'
  BY <1>1, <1>2, TypesHeld DEF TypeOK, Answers, daemonVars, Lives, Resets
<1> QED BY <1>3, <1>4, <1>5 DEF IInv

LEMMA ReadyKeeps ==
    ASSUME IInv, TargetReady
    PROVE  IInv'
<1> DEFINE held == sourceHeld /\ ~Stopping
           m == [conn |-> "session", cmd |-> "press"]
<1>1. /\ TypeOK /\ session = "resetting" /\ session' = "ready"
      /\ "session" \in Conns /\ "reset" \in Conns
      /\ replies["session"] # <<>> /\ replies' = Consumed("session")
      /\ target' = TRUE /\ sentHeld' = held /\ held \in BOOLEAN
      /\ wire' = IF held THEN Write("session", <<"press">>) ELSE wire
      /\ UNCHANGED <<keyboard, hung, updates, source, sourceHeld, life, reset, faults>>
      /\ UNCHANGED daemonVars
  BY TypesHeld DEF IInv, TargetReady, keyboardVars, lifeVars, Received, Conns
<1>2. Will(FALSE) /\ NoQuery(wire, "session") /\ wire \in Seq(Messages)
  BY <1>1, TypesHeld DEF IInv, Believed, Open
<1>3. /\ replies'["session"] = <<>> /\ replies' \in [Conns -> Seq(Answers)]
      /\ replies'["reset"] = replies["reset"]
      /\ \A d \in Conns : Len(replies'[d]) <= 1
  BY <1>1, ConsumedFacts
<1>4. /\ wire' \in Seq(Messages) /\ NoQuery(wire', "session")
      /\ NoQuery(wire, "reset") => NoQuery(wire', "reset")
      /\ OneQuery(wire, "reset") => OneQuery(wire', "reset")
      /\ Will(sentHeld)'
      /\ held \/ wire' = wire
  <2>1. CASE held
    <3>1. /\ "press" \in KeyCommands \cup Queries /\ m.cmd = KeyCommand(TRUE)
          /\ ~IsQuery(m, "session") /\ ~IsQuery(m, "reset")
      BY DEF KeyCommands, KeyCommand, IsQuery, Queries
    <3>2. wire' = Append(wire, m) /\ m \in Messages /\ sentHeld' = TRUE
      BY <1>1, <2>1, <3>1, Written
    <3> HIDE DEF m
    <3>3. wire' \in Seq(Messages) /\ LastKey(wire', TRUE)
      BY <1>2, <3>1, <3>2, AppendKeeps
    <3>4. /\ NoQuery(wire', "session")
          /\ NoQuery(wire, "reset") => NoQuery(wire', "reset")
          /\ OneQuery(wire, "reset") => OneQuery(wire', "reset")
      BY <1>1, <1>2, <3>1, <3>2, AppendKeeps
    <3> QED BY <2>1, <3>2, <3>3, <3>4 DEF Will
  <2>2. CASE ~held
    <3>1. wire' = wire /\ sentHeld' = FALSE /\ Drained' = Drained
      BY <1>1, <2>2 DEF Drained, daemonVars
    <3> QED BY <1>2, <3>1 DEF Will
  <2> QED BY <2>1, <2>2
<1>5. held => life' = "up"
  BY <1>1 DEF Stopping
<1>6. Drained' = Drained
  BY <1>1 DEF Drained, daemonVars
<1> HIDE DEF held
<1>7. Typed
  BY <1>1, <1>3, <1>4, TypesHeld DEF Typed, Phases
<1>8. Open("session")' /\ Open("reset")'
  BY <1>1, <1>3, <1>4 DEF IInv, Open, Awaits, OneQuery, NoQuery
<1>9. Believed' /\ Barred'
  <2>1. Believed'
    BY <1>1, <1>4, <1>5 DEF Believed, Stopping
  <2>2. Barred'
    BY <1>1, <1>4, <1>5, <1>6 DEF IInv, Barred, Released
  <2> QED BY <2>1, <2>2
<1>10. TypeOK'
  BY <1>1, <1>7, TypesHeld, TypeAgain
<1> QED BY <1>8, <1>9, <1>10 DEF IInv

LEMMA TargetEndsKeeps ==
    ASSUME IInv, TargetLost \/ TargetClose
    PROVE  IInv'
<1>1. /\ TypeOK /\ UNCHANGED daemonVars
      /\ UNCHANGED <<keyboard, hung, updates, source, sourceHeld, life, reset>>
      /\ "session" \in Conns /\ "reset" \in Conns /\ target' \in BOOLEAN
  BY TypesHeld DEF IInv, TargetLost, TargetClose, keyboardVars, lifeVars, beliefs, Conns
<1>2. /\ session' \in {"closing", "down"} /\ sentHeld' \in BOOLEAN
      /\ faults' \in 0..MaxFaults
  BY <1>1, FaultCounts, TypesHeld DEF IInv, TargetLost, TargetClose, beliefs
<1>3. /\ wire' \in Seq(Messages) /\ NoQuery(wire', "session")
      /\ NoQuery(wire, "reset") => NoQuery(wire', "reset")
      /\ OneQuery(wire, "reset") => OneQuery(wire', "reset")
      /\ Released => Released'
      /\ Releasing(wire) => Releasing(wire')
      /\ replies' \in [Conns -> Seq(Answers)] /\ replies'["session"] = <<>>
      /\ replies'["reset"] = replies["reset"]
      /\ \A d \in Conns : Len(replies'[d]) <= 1
  <2>1. CASE TargetLost
    <3>1. PICK v \in Remains("session", wire) : v = wire'
      BY <2>1 DEF TargetLost
    <3>2. wire \in Seq(Messages)
      BY <1>1, TypesHeld
    <3>3. /\ v \in Seq(Messages) /\ NoQuery(v, "session")
          /\ NoQuery(wire, "reset") => NoQuery(v, "reset")
          /\ OneQuery(wire, "reset") => OneQuery(v, "reset")
          /\ NoPress(wire) => NoPress(v)
          /\ Releasing(wire) => Releasing(v)
      BY <1>1, <3>1, <3>2, RemainsKeeps
    <3>4. Released => Released'
      BY <1>1, <3>1, <3>3 DEF Released, Drained, daemonVars
    <3>5. replies' = [replies EXCEPT !["session"] = <<>>]
      BY <2>1 DEF TargetLost
    <3> QED BY <1>1, <3>1, <3>3, <3>4, <3>5, DropsSession
  <2>2. CASE TargetClose
    <3>1. UNCHANGED <<wire, replies>> /\ session = "closing"
      BY <2>2 DEF TargetClose
    <3>2. NoQuery(wire, "session") /\ replies["session"] = <<>>
      BY <3>1 DEF IInv, Open, Awaits
    <3>3. Released => Released'
      BY <1>1, <3>1 DEF Released, Drained, daemonVars
    <3> QED BY <1>1, <3>1, <3>2, <3>3, TypesHeld
  <2> QED BY <2>1, <2>2
<1>4. Typed
  BY <1>2, <1>3 DEF Typed, Phases
<1>5. Open("session")' /\ Open("reset")'
  BY <1>1, <1>2, <1>3 DEF IInv, Open, Awaits, OneQuery, NoQuery
<1>6. Believed' /\ Barred'
  BY <1>1, <1>2, <1>3 DEF IInv, Believed, Barred
<1>7. TypeOK'
  BY <1>1, <1>4, TypeAgain
<1> QED BY <1>5, <1>6, <1>7 DEF IInv

(* The daemon takes a command, and answers a query.                        *)
LEMMA TakeKeeps ==
    ASSUME IInv, Take
    PROVE  IInv'
<1> DEFINE m == Head(wire)
<1>1. /\ TypeOK /\ wire # <<>> /\ wire' = Tail(wire) /\ wire \in Seq(Messages)
      /\ UNCHANGED <<keyboard, hung, updates, source, target, sourceHeld, sentHeld,
                     session, life, reset, key, faults>>
      /\ "session" \in Conns /\ "reset" \in Conns
  BY TypesHeld DEF IInv, Take, keyboardVars, lifeVars, beliefs, Conns
<1>2. /\ wire' \in Seq(Messages) /\ pending' \in Seq(BOOLEAN)
      /\ \A h \in BOOLEAN : Will(h) => Will(h)'
      /\ Released => Released'
      /\ Releasing(wire) => Released' \/ Releasing(wire')
  BY <1>1, TakeDecides
<1>3. /\ m \in Messages
      /\ \A c \in Conns :
            /\ NoQuery(wire, c) => NoQuery(wire', c) /\ ~IsQuery(m, c)
            /\ OneQuery(wire, c) => OneQuery(wire', c)
            /\ OneQuery(wire, c) /\ IsQuery(m, c) => NoQuery(wire', c)
  BY <1>1, TailKeeps
<1>4. m.cmd \in Queries => m.conn \in Conns
  BY <1>3 DEF Messages, Queries, KeyCommands
<1>5. Answer(m.cmd) \in Answers
  BY DEF Answer, Answers
<1>6. replies' = IF m.cmd \in Queries
                 THEN [replies EXCEPT ![m.conn] = Append(@, Answer(m.cmd))]
                 ELSE replies
  BY DEF Take
<1> HIDE DEF m
<1>7. ASSUME NEW c \in Conns, Open(c)
      PROVE  /\ OneQuery(wire', c) /\ replies'[c] \in Seq(Answers)
             /\ Len(replies'[c]) <= 1
             /\ replies'[c] # <<>> => NoQuery(wire', c)
             /\ ~Awaits(c) => NoQuery(wire', c) /\ replies'[c] = <<>>
  <2>1. CASE IsQuery(m, c)
    <3>1. replies[c] = <<>> /\ Awaits(c) /\ OneQuery(wire, c)
      BY <1>3, <1>7, <2>1 DEF Open
    <3>2. replies'[c] = Append(<<>>, Answer(m.cmd))
      BY <1>1, <1>6, <2>1, <3>1, TypesHeld DEF IsQuery
    <3>3. replies'[c] \in Seq(Answers) /\ Len(replies'[c]) = 1
      BY <1>5, <3>2, AppendProperties, EmptySeq
    <3> QED BY <1>3, <2>1, <3>1, <3>3
  <2>2. CASE ~IsQuery(m, c)
    <3>1. replies'[c] = replies[c]
      BY <1>1, <1>4, <1>6, <2>2, TypesHeld DEF IsQuery
    <3> QED BY <1>1, <1>3, <1>7, <3>1, TypesHeld DEF Open
  <2> QED BY <2>1, <2>2
<1>8. \A c \in Conns : Awaits(c)' <=> Awaits(c)
  BY <1>1 DEF Awaits
<1>9. Open("session")' /\ Open("reset")'
  BY <1>1, <1>7, <1>8 DEF IInv, Open
<1>10. \A c \in Conns : /\ replies'[c] \in Seq(Answers)
                        /\ Len(replies'[c]) <= 1
  BY <1>7 DEF IInv, Conns
<1>11. replies' \in [Conns -> Seq(Answers)]
  <2>1. replies' = [c \in Conns |-> replies'[c]]
    BY <1>1, <1>6, TypesHeld
  <2> QED BY <1>10, <2>1
<1>12. Believed' /\ Barred'
  BY <1>1, <1>2, TypesHeld DEF IInv, Believed, Barred, Stopping
<1>13. TypeOK'
  BY <1>1, <1>2, <1>10, <1>11, TypesHeld DEF TypeOK, Answers
<1> QED BY <1>9, <1>12, <1>13 DEF IInv

(* stop() asks for a reset, on a connection nothing was asked of before,   *)
(* and from then on nothing is pressed.                                    *)
LEMMA StopKeeps ==
    ASSUME IInv, Stop
    PROVE  IInv'
<1> DEFINE m == [conn |-> "session", cmd |-> "release"]
           q == [conn |-> "reset", cmd |-> "names"]
           releases == target /\ session = "ready" /\ sentHeld
           w == IF releases THEN Append(wire, m) ELSE wire
<1>1. /\ TypeOK /\ wire \in Seq(Messages) /\ UNCHANGED daemonVars
      /\ life = "up" /\ life' = "stopping" /\ sourceHeld' = FALSE
      /\ reset = "none" /\ reset' = "names"
      /\ UNCHANGED <<keyboard, hung, updates, source, session, target, replies>>
      /\ sentHeld' = (sentHeld /\ session = "closing") /\ faults' \in 0..MaxFaults
      /\ "session" \in Conns /\ "reset" \in Conns
  BY TypesHeld, FaultCounts DEF IInv, Barred, Stop, keyboardVars, lifeVars, Conns
<1>2. /\ "release" \in KeyCommands \cup Queries
      /\ "names" \in KeyCommands \cup Queries
      /\ m.cmd = KeyCommand(FALSE) /\ q.cmd \notin KeyCommands
      /\ ~IsQuery(m, "session") /\ ~IsQuery(m, "reset") /\ ~IsQuery(q, "session")
  BY DEF KeyCommands, Queries, IsQuery, KeyCommand
<1>3. /\ Write("session", <<"release">>) = Append(wire, m)
      /\ m \in Messages /\ q \in Messages
  BY <1>1, <1>2, Written
<1>4. wire' = Append(w, q)
  BY <1>3 DEF Stop
<1>5. Drained' = Drained
  BY <1>1 DEF Drained, daemonVars
<1>6. /\ NoQuery(wire, "reset") /\ replies["reset"] = <<>>
  BY <1>1 DEF IInv, Open, Awaits
<1> HIDE DEF m, q
<1>7. /\ w \in Seq(Messages) /\ NoQuery(w, "reset")
      /\ NoQuery(wire, "session") => NoQuery(w, "session")
      /\ OneQuery(wire, "session") => OneQuery(w, "session")
      /\ releases => LastKey(w, FALSE)
  <2>1. CASE releases
    <3>1. w = Append(wire, m)
      BY <2>1
    <3> HIDE DEF w, releases
    <3> QED BY <1>1, <1>2, <1>3, <1>6, <3>1, AppendKeeps
  <2>2. CASE ~releases
    BY <1>1, <1>6, <2>2
  <2> QED BY <2>1, <2>2
<1>8. /\ ~releases => w = wire
      /\ session = "ready" => target
      /\ session' = "ready" => ~sentHeld'
      /\ session = "ready" /\ ~releases => Will(FALSE)
      /\ session = "resetting" => ~releases /\ Will(FALSE)
  <2>1. session = "ready" => target /\ Will(sentHeld)
    BY DEF IInv, Believed
  <2>2. session = "ready" /\ ~releases => sentHeld = FALSE
    BY <1>1, <2>1, TypesHeld
  <2> QED BY <1>1, <2>1, <2>2 DEF IInv, Believed
<1> HIDE DEF w, releases
<1>9. /\ wire' \in Seq(Messages) /\ OneQuery(wire', "reset")
      /\ NoQuery(w, "session") => NoQuery(wire', "session")
      /\ OneQuery(w, "session") => OneQuery(wire', "session")
      /\ \A h \in BOOLEAN : /\ LastKey(w, h) => LastKey(wire', h)
                            /\ NoKey(w) => NoKey(wire')
  <2>1. /\ w \in Seq(Messages) /\ q \in Messages /\ wire' = Append(w, q)
        /\ NoQuery(w, "reset") /\ ~IsQuery(q, "session")
        /\ q.cmd \notin KeyCommands /\ "session" \in Conns /\ "reset" \in Conns
    BY <1>1, <1>2, <1>3, <1>4, <1>7
  <2>2. /\ wire' \in Seq(Messages)
        /\ \A h \in BOOLEAN : /\ LastKey(w, h) => LastKey(wire', h)
                              /\ NoKey(w) => NoKey(wire')
    BY <2>1, AppendKeeps
  <2>3. /\ OneQuery(wire', "reset")
        /\ NoQuery(w, "session") => NoQuery(wire', "session")
        /\ OneQuery(w, "session") => OneQuery(wire', "session")
    BY <2>1, AppendKeeps
  <2> QED BY <2>2, <2>3
<1>10. Will(FALSE) /\ w = wire => Will(FALSE)'
  BY <1>5, <1>9 DEF Will
<1>11. session \in {"resetting", "ready"} => Will(FALSE)'
  BY <1>7, <1>8, <1>9, <1>10 DEF Will
<1>12. Believed' /\ Barred'
  <2>1. Believed'
    <3>1. session' = "ready" => target' /\ sentHeld' = FALSE
      BY <1>1, <1>8
    <3> QED BY <1>1, <1>11, <3>1 DEF Believed, Will
  <2> QED BY <1>1, <2>1 DEF Barred
<1>13. Open("session")' /\ Open("reset")'
  BY <1>1, <1>6, <1>7, <1>9, TypesHeld DEF IInv, Open, Awaits
<1>14. TypeOK'
  BY <1>1, <1>9, TypesHeld DEF TypeOK, Answers, Lives, Resets, daemonVars
<1> QED BY <1>12, <1>13, <1>14 DEF IInv

(* The fallback is the answer to a query behind the reset's own release.   *)
LEMMA AnsweredReleased ==
    ASSUME IInv, reset = "barrier", Received("reset", {"base"})
    PROVE  Released
<1>1. replies["reset"] # <<>>
  BY DEF Received
<1>2. NoQuery(wire, "reset")
  BY <1>1 DEF IInv, Open
<1>3. ~Releasing(wire)
  BY <1>2 DEF Releasing, NoQuery
<1> QED BY <1>3 DEF IInv, Barred

(* However the relay ends, nothing but key commands of its connections is  *)
(* left, and what was released stays so.                                   *)
LEMMA EndsKeeps ==
    ASSUME IInv, \/ Crash
                 \/ Running /\ (ResetDone \/ ResetFails)
    PROVE  IInv'
<1>1. /\ TypeOK /\ wire \in Seq(Messages) /\ UNCHANGED daemonVars
      /\ UNCHANGED <<keyboard, hung>>
      /\ target' \in BOOLEAN /\ sourceHeld' \in BOOLEAN /\ sentHeld' \in BOOLEAN
      /\ faults' \in 0..MaxFaults
      /\ "session" \in Conns /\ "reset" \in Conns
  BY TypesHeld, FaultCounts
     DEF IInv, ResetDone, ResetFails, Crash, keyboardVars, beliefs, Conns
<1>2. PICK end \in {"stopped", "failed", "dead"} : Ends(end)
  BY DEF ResetDone, ResetFails, Crash, StopEnding
<1>3. /\ life' = end /\ reset' = "none" /\ session' \in {"down", "closing"}
      /\ source' \in {"down", "closing"} /\ updates' = <<>>
      /\ replies' = [c \in Conns |-> <<>>]
  BY <1>2 DEF Ends, ResetDone, ResetFails, Crash, StopEnding
<1>4. PICK w \in Remains("session", wire) : wire' \in Remains("reset", w)
  BY <1>2 DEF Ends
<1>5. PICK v \in Remains("reset", w) : v = wire'
  BY <1>4
<1>6. /\ w \in Seq(Messages) /\ NoQuery(w, "session")
      /\ NoPress(wire) => NoPress(w)
  BY <1>1, <1>4, RemainsKeeps
<1>7. /\ v \in Seq(Messages) /\ NoQuery(v, "session") /\ NoQuery(v, "reset")
      /\ NoPress(w) => NoPress(v)
  BY <1>1, <1>5, <1>6, RemainsKeeps
<1>8. Released => Released'
  BY <1>1, <1>5, <1>6, <1>7 DEF Released, Drained, daemonVars
<1>9. life' = "stopped" => Released
  <2>1. ResetDone => Released
    BY AnsweredReleased DEF ResetDone
  <2>2. Crash => life' # "stopped"
    BY DEF Crash, Ends
  <2>3. Running /\ ResetFails => life' # "stopped"
    BY DEF ResetFails, StopEnding, Ends
  <2> QED BY <2>1, <2>2, <2>3
<1>10. replies'["session"] = <<>> /\ replies'["reset"] = <<>> /\ Len(<<>>) = 0
  BY <1>1, <1>3
<1>11. Open("session")' /\ Open("reset")'
  BY <1>5, <1>7, <1>10 DEF Open, OneQuery, NoQuery
<1>12. Believed' /\ Barred'
  BY <1>3, <1>8, <1>9 DEF Believed, Barred
<1>13. TypeOK'
  <2>1. /\ replies' \in [Conns -> Seq({"names", "base", "precision"})]
        /\ \A c \in Conns : Len(replies'[c]) <= 1
        /\ updates' \in Seq(BOOLEAN)
    BY <1>3
  <2> QED BY <1>1, <1>3, <1>5, <1>7, <2>1, TypesHeld
          DEF TypeOK, Phases, Lives, Resets, Resets, daemonVars
<1> QED BY <1>11, <1>12, <1>13 DEF IInv

(* ExecStopPost ends: with success only behind its own release.            *)
LEMMA PostEndsKeeps ==
    ASSUME IInv, ~Running, ResetDone \/ ResetFails
    PROVE  IInv'
<1>1. /\ TypeOK /\ wire \in Seq(Messages) /\ UNCHANGED daemonVars
      /\ UNCHANGED <<keyboard, hung, target, sourceHeld, sentHeld>>
      /\ faults' \in 0..MaxFaults /\ life \in {"stopped", "failed", "dead"}
      /\ "session" \in Conns /\ "reset" \in Conns
  BY TypesHeld, FaultCounts
     DEF IInv, ResetDone, ResetFails, keyboardVars, beliefs, Conns, Running, Lives
<1>2. PICK end \in {"done", "broken"} : PostEnds(end) /\ (end = "done" => ResetDone)
  BY DEF ResetDone, ResetFails
<1>3. /\ reset' = end /\ UNCHANGED <<updates, source, session, life>>
      /\ replies' = [replies EXCEPT !["reset"] = <<>>]
  BY <1>2 DEF PostEnds
<1>4. PICK v \in Remains("reset", wire) : v = wire'
  BY <1>2 DEF PostEnds
<1>5. session \in {"down", "closing"}
  BY <1>1 DEF IInv, Barred
<1>6. /\ v \in Seq(Messages) /\ NoQuery(v, "reset")
      /\ NoQuery(wire, "session") => NoQuery(v, "session")
      /\ NoPress(wire) => NoPress(v)
  BY <1>1, RemainsKeeps
<1>7. Released => Released'
  BY <1>1, <1>4, <1>6 DEF Released, Drained, daemonVars
<1>8. end = "done" => Released
  BY <1>2, AnsweredReleased DEF ResetDone
<1>9. /\ replies' \in [Conns -> Seq(Answers)] /\ replies'["reset"] = <<>>
      /\ replies'["session"] = replies["session"]
      /\ \A d \in Conns : Len(replies'[d]) <= 1
  <2>1. replies' = [c \in Conns |-> IF c \in {"reset"} THEN <<>> ELSE replies[c]]
    BY <1>1, <1>3, TypesHeld DEF Conns
  <2> QED BY <1>1, <2>1, ClearedFacts DEF Conns
<1>10. NoQuery(wire, "session") /\ replies["session"] = <<>>
  BY <1>5 DEF IInv, Open, Awaits
<1>11. Open("session")' /\ Open("reset")'
  BY <1>1, <1>4, <1>6, <1>9, <1>10 DEF Open, OneQuery, NoQuery
<1>12. Believed' /\ Barred'
  BY <1>1, <1>3, <1>5, <1>7, <1>8 DEF IInv, Believed, Barred
<1>13. TypeOK'
  BY <1>1, <1>3, <1>4, <1>6, <1>9, TypesHeld
     DEF TypeOK, Answers, Resets, daemonVars
<1> QED BY <1>11, <1>12, <1>13 DEF IInv

(* The relay's process is over and ExecStopPost asks for its reset: the    *)
(* dead connections have no query left.                                    *)
LEMMA StopPostKeeps ==
    ASSUME IInv, StopPost
    PROVE  IInv'
<1> DEFINE q == [conn |-> "reset", cmd |-> "names"]
<1>1. /\ TypeOK /\ wire \in Seq(Messages) /\ UNCHANGED daemonVars
      /\ life # "up" /\ life # "stopping" /\ session = "down"
      /\ reset = "none" /\ reset' = "names"
      /\ UNCHANGED <<keyboard, hung, updates, source, session, target, sourceHeld,
                     sentHeld, life, replies, faults>>
      /\ "session" \in Conns /\ "reset" \in Conns
  BY TypesHeld DEF IInv, StopPost, Running, keyboardVars, beliefs, Conns
<1>2. /\ "names" \in KeyCommands \cup Queries /\ q.cmd \notin KeyCommands
      /\ q.cmd # "press" /\ ~IsQuery(q, "session")
  BY DEF KeyCommands, Queries, IsQuery
<1>3. wire' = Append(wire, q) /\ q \in Messages
  BY <1>1, <1>2, Written DEF StopPost
<1> HIDE DEF q
<1>4. NoQuery(wire, "reset") /\ replies["reset"] = <<>>
  BY <1>1 DEF IInv, Open, Awaits
<1>5. /\ wire' \in Seq(Messages) /\ OneQuery(wire', "reset")
      /\ NoQuery(wire, "session") => NoQuery(wire', "session")
      /\ OneQuery(wire, "session") => OneQuery(wire', "session")
  BY <1>1, <1>2, <1>3, <1>4, AppendKeeps
<1>6. Released => Released'
  BY <1>1, <1>2, <1>3, WriteDecides DEF Released
<1>7. Open("session")' /\ Open("reset")'
  BY <1>1, <1>4, <1>5, TypesHeld DEF IInv, Open, Awaits
<1>8. Believed' /\ Barred'
  BY <1>1, <1>6 DEF IInv, Believed, Barred
<1>9. TypeOK'
  BY <1>1, <1>5, TypesHeld DEF TypeOK, Answers, Resets, daemonVars
<1> QED BY <1>7, <1>8, <1>9 DEF IInv

(* Whether the relay is started again or not, nothing is asked.            *)
LEMMA RestKeeps ==
    ASSUME IInv, SuppressRestart \/ Start
    PROVE  IInv'
<1>1. /\ TypeOK /\ UNCHANGED daemonVars
      /\ UNCHANGED <<keyboard, hung, updates, source, session, wire, replies>>
      /\ target' \in BOOLEAN /\ sourceHeld' \in BOOLEAN /\ sentHeld' \in BOOLEAN
      /\ faults' \in 0..MaxFaults /\ session \in {"down", "closing"}
      /\ \/ life = "dead" /\ life' = "failed" /\ reset' = reset
         \/ life' = "up" /\ reset' = "none" /\ reset \in {"done", "broken"}
  BY TypesHeld, FaultCounts
     DEF IInv, Barred, SuppressRestart, Start, Running, Lives,
         keyboardVars, beliefs
<1>2. Open("session")' /\ Open("reset")'
  BY <1>1 DEF IInv, Open, Awaits
<1>3. Believed' /\ Barred'
  BY <1>1 DEF IInv, Believed, Barred, Released, Drained, daemonVars
<1>4. TypeOK'
  BY <1>1, TypesHeld DEF TypeOK, Lives, Resets, daemonVars
<1> QED BY <1>2, <1>3, <1>4 DEF IInv

-----------------------------------------------------------------------------
(* The invariant, and what it says.                                        *)

LEMMA InitKeeps ==
    ASSUME Init
    PROVE  IInv
<1>1. TypeOK
  <2>1. /\ replies \in [Conns -> Seq({"names", "base", "precision"})]
        /\ \A c \in Conns : Len(replies[c]) <= 1
        /\ wire \in Seq(Messages) /\ updates \in Seq(BOOLEAN)
        /\ pending \in Seq(BOOLEAN)
    BY DEF Init
  <2>2. faults \in 0..MaxFaults
    BY BoundAssumption DEF Init
  <2> QED BY <2>1, <2>2 DEF Init, TypeOK, Phases, Lives, Resets
<1>2. /\ wire = <<>> /\ session = "down" /\ life = "up" /\ reset = "none"
      /\ \A c \in Conns : replies[c] = <<>>
  BY DEF Init
<1>3. Open("session") /\ Open("reset")
  BY <1>2 DEF Open, OneQuery, NoQuery, Conns
<1> QED BY <1>1, <1>2, <1>3 DEF IInv, Believed, Barred

LEMMA NextKeeps ==
    ASSUME IInv, [Next]_vars
    PROVE  IInv'
<1>1. CASE UNCHANGED vars
  <2>1. UNCHANGED relayVars /\ UNCHANGED daemonVars
    BY <1>1 DEF vars, relayVars, daemonVars
  <2>2. Open("session")' /\ Open("reset")' /\ Believed' /\ Barred'
    BY <2>1, ElsewhereKeeps
  <2>3. TypeOK'
    BY <1>1 DEF vars, IInv, TypeOK
  <2> QED BY <2>2, <2>3 DEF IInv
<1>2. ASSUME ChangeLayer \/ Hang \/ Recover \/ SourceConnect \/ SourceLost
             \/ SourceDeadline
      PROVE  IInv'
  BY <1>2, KeyboardKeeps
<1>3. ASSUME SourceData \/ SourceClose PROVE IInv'
  BY <1>3, SourceKeeps
<1>4. ASSUME TargetConnect \/ TargetNames \/ TargetReady PROVE IInv'
  BY <1>4, ConnectKeeps, NamesKeeps, ReadyKeeps
<1>5. ASSUME TargetWaits \/ ResetWaits \/ ResetNames PROVE IInv'
  BY <1>5, WaitsKeeps, ResetNamesKeeps
<1>6. ASSUME TargetLost \/ TargetClose PROVE IInv'
  BY <1>6, TargetEndsKeeps
<1>7. ASSUME Take \/ Process PROVE IInv'
  BY <1>7, TakeKeeps, ProcessKeeps
<1>8. ASSUME Stop \/ Crash \/ ResetDone \/ ResetFails PROVE IInv'
  <2>1. CASE ResetDone \/ ResetFails
    <3>1. CASE Running
      BY <2>1, <3>1, EndsKeeps DEF ResetDone, ResetFails
    <3>2. CASE ~Running
      BY <2>1, <3>2, PostEndsKeeps DEF ResetDone, ResetFails
    <3> QED BY <3>1, <3>2
  <2> QED BY <1>8, <2>1, StopKeeps, EndsKeeps
<1>9. ASSUME StopPost \/ SuppressRestart \/ Start PROVE IInv'
  BY <1>9, StopPostKeeps, RestKeeps
<1> QED BY <1>1, <1>2, <1>3, <1>4, <1>5, <1>6, <1>7, <1>8, <1>9
       DEF Next, Relay, Target

LEMMA OutcomeIsWill ==
    ASSUME TypeOK, NEW h \in BOOLEAN, Will(h)
    PROVE  Outcome = h
<1> DEFINE sent == {i \in DOMAIN wire : wire[i].cmd \in KeyCommands}
<1>1. /\ wire \in Seq(Messages) /\ DOMAIN wire = 1..Len(wire) /\ Len(wire) \in Nat
  BY TypesHeld
<1>2. CASE LastKey(wire, h)
  <2>1. PICK i \in DOMAIN wire :
            /\ wire[i].cmd = KeyCommand(h)
            /\ \A j \in DOMAIN wire : j > i => wire[j].cmd \notin KeyCommands
    BY <1>2 DEF LastKey
  <2>2. i \in sent /\ \A j \in sent : j <= i
    BY <1>1, <2>1 DEF KeyCommand, KeyCommands
  <2>3. \A k \in sent : (\A j \in sent : j <= k) => k = i
    BY <1>1, <2>2
  <2>4. (\E k \in sent : wire[k].cmd = "press" /\ \A j \in sent : j <= k)
           <=> wire[i].cmd = "press"
    BY <2>2, <2>3
  <2>5. (wire[i].cmd = "press") = h
    BY <2>1 DEF KeyCommand
  <2> QED BY <2>2, <2>4, <2>5 DEF Outcome
<1>3. CASE NoKey(wire) /\ Drained = h
  <2>1. sent = {}
    BY <1>3 DEF NoKey
  <2> QED BY <1>3, <2>1 DEF Outcome, Drained
<1> QED BY <1>2, <1>3 DEF Will

(* The inductive invariant: what is under way decides what the key will    *)
(* be, and no phase has a query open but the one it waits for.             *)
THEOREM Invariance == Spec => []IInv
BY InitKeeps, NextKeeps, PTL DEF Spec

(* Types; and one query at most is open on each connection, so an answer   *)
(* is never taken for that of another question.                            *)
THEOREM TypeCorrect == Spec => []TypeOK
<1>1. IInv => TypeOK
  BY DEF IInv
<1> QED BY <1>1, Invariance, PTL

(* "Reconnect resets uncertain state": once the session is ready, what the *)
(* relay believes it sent is what the key will be.                         *)
THEOREM BeliefsHold == Spec => []BeliefIsOutcome
<1>1. IInv => BeliefIsOutcome
  BY OutcomeIsWill, TypesHeld DEF IInv, Believed, BeliefIsOutcome
<1> QED BY <1>1, Invariance, PTL

(* A stop() that succeeds leaves nothing that could press the key again.   *)
THEOREM StopReleases == Spec => []StoppedIsReleased
<1>1. ASSUME TypeOK, Released PROVE ~Outcome
  <2>1. \A i \in DOMAIN wire : wire[i].cmd # "press"
    BY <1>1 DEF Released, NoPress
  <2> QED BY <1>1, <2>1 DEF Released, Outcome, Drained
<1>2. IInv => StoppedIsReleased
  BY <1>1 DEF IInv, Barred, StoppedIsReleased
<1> QED BY <1>2, Invariance, PTL
=============================================================================
