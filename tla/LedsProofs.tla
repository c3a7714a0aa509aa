------------------------------ MODULE LedsProofs ------------------------------
(***************************************************************************)
(* Proofs about module Leds: an LED shows what was last asked of it.  The  *)
(* argument is about the statements still to be executed: the last write   *)
(* to a pin and the last write to a flag decide, and no flag is written    *)
(* after the pin it would let the interrupt change.                        *)
(***************************************************************************)
EXTENDS Leds, SequenceTheorems, TLAPS

PinKinds  == {"light", "dark", "toggle"}
FlagKinds == {"flash", "unflash"}
Stmts     == [do : PinKinds \cup FlagKinds, led : Commanded]

(* The statements of a program p that write the pin, or the flag, of LED l.   *)
Pins(p, l)  == {i \in 1 .. Len(p) : p[i].led = l /\ p[i].do \in PinKinds}
Flags(p, l) == {i \in 1 .. Len(p) : p[i].led = l /\ p[i].do \in FlagKinds}

LastFlag(a) == IF a = "flash" THEN "flash" ELSE "unflash"
LastPin(a)  == IF a = "on" THEN "light" ELSE "dark"
LastDoes(p, S, do) == \A i \in S : (\A j \in S : j <= i) => p[i].do = do

(* What is left of a program still ends in action a for LED l.                *)
Pending(p, l, a) ==
  /\ LastDoes(p, Flags(p, l), LastFlag(a))
  /\ a # "flash" => LastDoes(p, Pins(p, l), LastPin(a))
  /\ a # "flash" => \A i \in Flags(p, l) : \E j \in Pins(p, l) : i < j

ProgramOK == program \in Seq(Stmts) /\ Len(program) <= 8

Follows(l) ==
  /\ Pending(program, l, wanted[l])
  /\ Flags(program, l) = {} => (flashing[l] <=> wanted[l] = "flash")
  /\ wanted[l] # "flash" /\ Pins(program, l) = {} => (lit[l] <=> wanted[l] = "on")

(* The inductive invariant.                                                   *)
IInv ==
  /\ TypeOK /\ ProgramOK
  /\ wanted["FLAT"] # "flash"
  /\ \A l \in LEDs : Follows(l)

-----------------------------------------------------------------------------
(***************************************************************************)
(* Programs.                                                               *)
(***************************************************************************)
Leaves(p, l)  == Flags(p, l) = {} /\ Pins(p, l) = {}
Does(p, l, a) == Pending(p, l, a) /\ Flags(p, l) # {} /\ (a # "flash" => Pins(p, l) # {})

(* Statements before others that act on an LED make no difference to it; nor  *)
(* do statements behind them that leave it alone.                             *)
LEMMA Concat ==
  ASSUME NEW p \in Seq(Stmts), NEW q \in Seq(Stmts), NEW l \in LEDs, NEW a \in Actions
  PROVE  /\ p \o q \in Seq(Stmts) /\ Len(p \o q) = Len(p) + Len(q)
         /\ Does(q, l, a) => Does(p \o q, l, a)
         /\ Does(p, l, a) /\ Leaves(q, l) => Does(p \o q, l, a)
         /\ Leaves(p, l) /\ Leaves(q, l) => Leaves(p \o q, l)
<1> DEFINE r == p \o q
           n == Len(p)
<1>1. /\ r \in Seq(Stmts) /\ Len(r) = n + Len(q) /\ n \in Nat /\ Len(q) \in Nat /\ Len(p) = n
      /\ \A i \in 1 .. n : r[i] = p[i]
      /\ \A i \in 1 .. Len(q) : r[n + i] = q[i]
  <2>1. \A i \in 1 .. Len(p) + Len(q) : r[i] = IF i <= Len(p) THEN p[i] ELSE q[i - Len(p)]
    BY ConcatProperties
  <2>2. r \in Seq(Stmts) /\ Len(r) = n + Len(q) /\ n \in Nat /\ Len(q) \in Nat
    BY ConcatProperties
  <2> HIDE DEF r
  <2>3. \A i \in 1 .. n : r[i] = p[i]
    BY <2>1, <2>2
  <2>4. ASSUME NEW i \in 1 .. Len(q) PROVE r[n + i] = q[i]
    <3>1. n + i \in 1 .. n + Len(q) /\ ~(n + i <= n) /\ (n + i) - n = i
      BY <2>2
    <3>2. QED
      BY <2>1, <3>1
  <2>5. QED
    BY <2>2, <2>3, <2>4
<1> HIDE DEF r, n
<1>2. \A i \in 1 .. Len(r) : i \in 1 .. n \/ (i - n \in 1 .. Len(q) /\ i = n + (i - n))
  BY <1>1
<1>3. /\ \A i \in Pins(r, l) : i \in Pins(p, l) \/ i - n \in Pins(q, l)
      /\ \A i \in Pins(p, l) : i \in Pins(r, l)
      /\ \A i \in Pins(q, l) : n + i \in Pins(r, l)
  <2>1. ASSUME NEW i \in Pins(r, l) PROVE i \in Pins(p, l) \/ i - n \in Pins(q, l)
    <3>1. i \in 1 .. Len(r)
      BY DEF Pins
    <3>2. CASE i \in 1 .. n
      BY <1>1, <3>2 DEF Pins
    <3>3. CASE i - n \in 1 .. Len(q) /\ i = n + (i - n)
      <4>1. r[i] = q[i - n]
        BY <1>1, <3>3
      <4>2. QED
        BY <3>3, <4>1 DEF Pins
    <3>4. QED
      BY <1>2, <3>1, <3>2, <3>3
  <2>2. \A i \in Pins(p, l) : i \in Pins(r, l)
    BY <1>1 DEF Pins
  <2>3. \A i \in Pins(q, l) : n + i \in Pins(r, l)
    BY <1>1 DEF Pins
  <2>4. QED
    BY <2>1, <2>2, <2>3
<1>4. /\ \A i \in Flags(r, l) : i \in Flags(p, l) \/ i - n \in Flags(q, l)
      /\ \A i \in Flags(p, l) : i \in Flags(r, l)
      /\ \A i \in Flags(q, l) : n + i \in Flags(r, l)
  <2>1. ASSUME NEW i \in Flags(r, l) PROVE i \in Flags(p, l) \/ i - n \in Flags(q, l)
    <3>1. i \in 1 .. Len(r)
      BY DEF Flags
    <3>2. CASE i \in 1 .. n
      BY <1>1, <3>2 DEF Flags
    <3>3. CASE i - n \in 1 .. Len(q) /\ i = n + (i - n)
      <4>1. r[i] = q[i - n]
        BY <1>1, <3>3
      <4>2. QED
        BY <3>3, <4>1 DEF Flags
    <3>4. QED
      BY <1>2, <3>1, <3>2, <3>3
  <2>2. \A i \in Flags(p, l) : i \in Flags(r, l)
    BY <1>1 DEF Flags
  <2>3. \A i \in Flags(q, l) : n + i \in Flags(r, l)
    BY <1>1 DEF Flags
  <2>4. QED
    BY <2>1, <2>2, <2>3
<1>5. /\ \A i \in Pins(p, l) \cup Flags(p, l) : i \in 1 .. n
      /\ \A i \in Pins(q, l) \cup Flags(q, l) : i \in 1 .. Len(q)
      /\ \A i \in Pins(r, l) \cup Flags(r, l) : i \in 1 .. n + Len(q)
  BY <1>1 DEF Pins, Flags, n
<1>6. Leaves(p, l) /\ Leaves(q, l) => Leaves(r, l)
  BY <1>3, <1>4 DEF Leaves
<1>7. ASSUME Does(q, l, a) PROVE Does(r, l, a)
  <2>1. Flags(r, l) # {} /\ (a # "flash" => Pins(r, l) # {})
    BY <1>3, <1>4, <1>7 DEF Does
  <2>2. LastDoes(r, Flags(r, l), LastFlag(a))
    <3> SUFFICES ASSUME NEW i \in Flags(r, l), \A j \in Flags(r, l) : j <= i
        PROVE r[i].do = LastFlag(a)
      BY DEF LastDoes
    <3>1. PICK k \in Flags(q, l) : TRUE
      BY <1>7 DEF Does
    <3>2. n + k <= i
      BY <1>4
    <3>3. i - n \in Flags(q, l) /\ r[i] = q[i - n]
      BY <1>1, <1>2, <1>4, <1>5, <3>1, <3>2
    <3>4. \A j \in Flags(q, l) : j <= i - n
      BY <1>1, <1>4, <1>5
    <3>5. QED
      BY <1>7, <3>3, <3>4 DEF Does, Pending, LastDoes
  <2>3. ASSUME a # "flash" PROVE LastDoes(r, Pins(r, l), LastPin(a))
    <3> SUFFICES ASSUME NEW i \in Pins(r, l), \A j \in Pins(r, l) : j <= i
        PROVE r[i].do = LastPin(a)
      BY DEF LastDoes
    <3>1. PICK k \in Pins(q, l) : TRUE
      BY <1>7, <2>3 DEF Does
    <3>2. n + k <= i
      BY <1>3
    <3>3. i - n \in Pins(q, l) /\ r[i] = q[i - n]
      BY <1>1, <1>2, <1>3, <1>5, <3>1, <3>2
    <3>4. \A j \in Pins(q, l) : j <= i - n
      BY <1>1, <1>3, <1>5
    <3>5. QED
      BY <1>7, <2>3, <3>3, <3>4 DEF Does, Pending, LastDoes
  <2>4. ASSUME a # "flash", NEW i \in Flags(r, l) PROVE \E j \in Pins(r, l) : i < j
    <3>1. PICK k \in Pins(q, l) : i - n \in Flags(q, l) => i - n < k
      BY <1>7, <2>4 DEF Does, Pending
    <3>2. n + k \in Pins(r, l) /\ i < n + k
      BY <1>1, <1>3, <1>4, <1>5, <3>1
    <3>3. QED
      BY <3>2
  <2>5. QED
    BY <2>1, <2>2, <2>3, <2>4 DEF Does, Pending
<1>8. ASSUME Does(p, l, a), Leaves(q, l) PROVE Does(r, l, a)
  <2>1. Flags(r, l) = Flags(p, l) /\ Pins(r, l) = Pins(p, l)
    BY <1>3, <1>4, <1>8 DEF Leaves
  <2>2. \A i \in Pins(p, l) \cup Flags(p, l) : r[i] = p[i]
    BY <1>1, <1>5
  <2>3. QED
    BY <1>8, <2>1, <2>2 DEF Does, Pending, LastDoes
<1>9. QED
  BY <1>1, <1>6, <1>7, <1>8 DEF r, n

(* The statements of a call do what was asked of one LED, and nothing else.   *)
LEMMA CallsDo ==
  ASSUME NEW a \in Actions, NEW led \in Commanded
  PROVE  /\ Statements(a, led) \in Seq(Stmts) /\ Len(Statements(a, led)) <= 3
         /\ Does(Statements(a, led), led, a)
         /\ \A l \in LEDs \ {led} : Leaves(Statements(a, led), l)
<1> DEFINE p == Statements(a, led)
<1>1. a = "on" \/ a = "off" \/ a = "flash"
  BY DEF Actions
<1>2. CASE a # "flash"
  <2>1. p \in Seq(Stmts) /\ Len(p) = 2 /\ p[1] = Stmt("unflash", led) /\ p[2] = Stmt(LastPin(a), led)
    <3>1. CASE a = "on"
      BY <3>1 DEF Statements, Stmt, Stmts, PinKinds, FlagKinds, LastPin
    <3>2. CASE a = "off"
      BY <3>2 DEF Statements, Stmt, Stmts, PinKinds, FlagKinds, LastPin
    <3>3. QED
      BY <1>1, <1>2, <3>1, <3>2
  <2> HIDE DEF p
  <2>2. p[1].do = "unflash" /\ p[1].led = led /\ p[2].do = LastPin(a) /\ p[2].led = led
    BY <2>1 DEF Stmt
  <2>3. LastPin(a) \in PinKinds /\ LastPin(a) \notin FlagKinds
    BY DEF LastPin, PinKinds, FlagKinds
  <2>4. \A i \in 1 .. 2 : i = 1 \/ i = 2
    OBVIOUS
  <2>5. Flags(p, led) = {1} /\ Pins(p, led) = {2}
    BY <2>1, <2>2, <2>3, <2>4 DEF Flags, Pins, PinKinds, FlagKinds
  <2>6. \A l \in LEDs \ {led} : Leaves(p, l)
    BY <2>1, <2>2, <2>4 DEF Flags, Pins, Leaves
  <2>7. Does(p, led, a)
    BY <1>2, <2>2, <2>5 DEF Does, Pending, LastDoes, LastFlag
  <2>8. QED
    BY <2>1, <2>6, <2>7 DEF p
<1>3. CASE a = "flash"
  <2>1. /\ p \in Seq(Stmts) /\ Len(p) = 3
        /\ p[1] = Stmt("unflash", led) /\ p[2] = Stmt("toggle", led) /\ p[3] = Stmt("flash", led)
    BY <1>3 DEF Statements, Stmt, Stmts, PinKinds, FlagKinds
  <2> HIDE DEF p
  <2>2. /\ p[1].do = "unflash" /\ p[1].led = led /\ p[2].do = "toggle" /\ p[2].led = led
        /\ p[3].do = "flash" /\ p[3].led = led
    BY <2>1 DEF Stmt
  <2>3. \A i \in 1 .. 3 : i = 1 \/ i = 2 \/ i = 3
    OBVIOUS
  <2>4. Flags(p, led) = {1, 3}
    BY <2>1, <2>2, <2>3 DEF Flags, FlagKinds
  <2>5. \A l \in LEDs \ {led} : Leaves(p, l)
    BY <2>1, <2>2, <2>3 DEF Flags, Pins, Leaves
  <2>6. Does(p, led, a)
    <3>1. LastDoes(p, Flags(p, led), LastFlag(a))
      BY <1>3, <2>2, <2>4 DEF LastDoes, LastFlag
    <3>2. QED
      BY <1>3, <2>4, <3>1 DEF Does, Pending
  <2>7. QED
    BY <2>1, <2>5, <2>6 DEF p
<1>4. QED
  BY <1>2, <1>3

(* A call for both LEDs commands each of them and leaves the third alone.     *)
LEMMA BothDo ==
  ASSUME NEW a \in Actions
  PROVE  /\ Both(a) \in Seq(Stmts) /\ Len(Both(a)) <= 6
         /\ Does(Both(a), "RUN", a) /\ Does(Both(a), "ERROR", a) /\ Leaves(Both(a), "FLAT")
<1> DEFINE r == Statements(a, "RUN")
           e == Statements(a, "ERROR")
<1>1. /\ r \in Seq(Stmts) /\ Len(r) <= 3 /\ Does(r, "RUN", a) /\ Leaves(r, "ERROR") /\ Leaves(r, "FLAT")
      /\ e \in Seq(Stmts) /\ Len(e) <= 3 /\ Does(e, "ERROR", a) /\ Leaves(e, "RUN") /\ Leaves(e, "FLAT")
  BY CallsDo DEF Commanded, LEDs
<1>2. Len(r) \in Nat /\ Len(e) \in Nat
  BY <1>1
<1> HIDE DEF r, e
<1>3. r \o e \in Seq(Stmts) /\ Len(r \o e) <= 6
  BY <1>1, <1>2, Concat DEF LEDs
<1>4. Does(r \o e, "RUN", a) /\ Does(r \o e, "ERROR", a) /\ Leaves(r \o e, "FLAT")
  BY <1>1, Concat DEF LEDs
<1>5. QED
  BY <1>3, <1>4 DEF Both, r, e

(* One statement less: what is left still ends in the action, unless the      *)
(* statement was the last that mattered.                                      *)
LEMMA OneLess ==
  ASSUME NEW p \in Seq(Stmts), Len(p) > 0, NEW l \in LEDs, NEW a \in Actions, Pending(p, l, a)
  PROVE  /\ Tail(p) \in Seq(Stmts) /\ Len(Tail(p)) = Len(p) - 1 /\ Head(p) = p[1] /\ p[1] \in Stmts
         /\ Pending(Tail(p), l, a)
         /\ Flags(Tail(p), l) = {} =>
              IF p[1].led = l /\ p[1].do \in FlagKinds THEN p[1].do = LastFlag(a) ELSE Flags(p, l) = {}
         /\ a # "flash" /\ Pins(Tail(p), l) = {} =>
              IF p[1].led = l /\ p[1].do \in PinKinds THEN p[1].do = LastPin(a) ELSE Pins(p, l) = {}
<1> DEFINE q == Tail(p)
<1>1. Len(p) \in Nat /\ q \in Seq(Stmts) /\ Len(q) = Len(p) - 1 /\ Head(p) = p[1] /\ p[1] \in Stmts
  OBVIOUS
<1>2. \A i \in 1 .. Len(q) : q[i] = p[i + 1]
  BY HeadTailProperties, EmptySeq
<1> HIDE DEF q
<1>3. /\ \A i \in Pins(q, l) : i \in 1 .. Len(q) /\ i + 1 \in Pins(p, l)
      /\ \A i \in Pins(p, l) : i = 1 \/ i - 1 \in Pins(q, l)
  BY <1>1, <1>2 DEF Pins
<1>4. /\ \A i \in Flags(q, l) : i \in 1 .. Len(q) /\ i + 1 \in Flags(p, l)
      /\ \A i \in Flags(p, l) : i = 1 \/ i - 1 \in Flags(q, l)
  BY <1>1, <1>2 DEF Flags
<1>5. \A i \in Flags(p, l) \cup Pins(p, l) : i \in 1 .. Len(p)
  BY DEF Flags, Pins
<1>6. LastDoes(q, Flags(q, l), LastFlag(a))
  <2> SUFFICES ASSUME NEW i \in Flags(q, l), \A j \in Flags(q, l) : j <= i
      PROVE q[i].do = LastFlag(a)
    BY DEF LastDoes
  <2>1. \A j \in Flags(p, l) : j <= i + 1
    BY <1>1, <1>4, <1>5
  <2>2. i + 1 \in Flags(p, l) /\ q[i] = p[i + 1]
    BY <1>2, <1>4
  <2>3. QED
    BY <2>1, <2>2 DEF Pending, LastDoes
<1>7. ASSUME a # "flash" PROVE LastDoes(q, Pins(q, l), LastPin(a))
  <2> SUFFICES ASSUME NEW i \in Pins(q, l), \A j \in Pins(q, l) : j <= i
      PROVE q[i].do = LastPin(a)
    BY DEF LastDoes
  <2>1. \A j \in Pins(p, l) : j <= i + 1
    BY <1>1, <1>3, <1>5
  <2>2. i + 1 \in Pins(p, l) /\ q[i] = p[i + 1]
    BY <1>2, <1>3
  <2>3. QED
    BY <1>7, <2>1, <2>2 DEF Pending, LastDoes
<1>8. ASSUME a # "flash", NEW i \in Flags(q, l) PROVE \E j \in Pins(q, l) : i < j
  <2>1. i + 1 \in Flags(p, l) /\ i \in 1 .. Len(q)
    BY <1>4
  <2>2. PICK j \in Pins(p, l) : i + 1 < j
    BY <1>8, <2>1 DEF Pending
  <2>3. i \in Nat /\ j \in Nat /\ i + 1 < j /\ i >= 1
    <3>1. j \in 1 .. Len(p)
      BY <1>5
    <3>2. i \in 1 .. Len(q)
      BY <1>4
    <3>3. QED
      BY <2>2, <3>1, <3>2
  <2>4. i < j - 1 /\ j # 1
    BY <2>3
  <2>5. j - 1 \in Pins(q, l)
    BY <1>3, <2>2, <2>4
  <2>6. QED
    BY <2>4, <2>5
<1>9. Pending(q, l, a)
  BY <1>6, <1>7, <1>8 DEF Pending
<1>10. ASSUME Flags(q, l) = {}
       PROVE  IF p[1].led = l /\ p[1].do \in FlagKinds THEN p[1].do = LastFlag(a) ELSE Flags(p, l) = {}
  <2>1. \A i \in Flags(p, l) : i = 1
    BY <1>4, <1>10
  <2>2. 1 \in Flags(p, l) <=> p[1].led = l /\ p[1].do \in FlagKinds
    BY <1>1 DEF Flags
  <2>3. 1 \in Flags(p, l) => p[1].do = LastFlag(a)
    BY <2>1 DEF Pending, LastDoes
  <2>4. QED
    BY <2>1, <2>2, <2>3
<1>11. ASSUME a # "flash", Pins(q, l) = {}
       PROVE  IF p[1].led = l /\ p[1].do \in PinKinds THEN p[1].do = LastPin(a) ELSE Pins(p, l) = {}
  <2>1. \A i \in Pins(p, l) : i = 1
    BY <1>3, <1>11
  <2>2. 1 \in Pins(p, l) <=> p[1].led = l /\ p[1].do \in PinKinds
    BY <1>1 DEF Pins
  <2>3. 1 \in Pins(p, l) => p[1].do = LastPin(a)
    BY <1>11, <2>1 DEF Pending, LastDoes
  <2>4. QED
    BY <2>1, <2>2, <2>3
<1>12. QED
  BY <1>1, <1>9, <1>10, <1>11 DEF q

-----------------------------------------------------------------------------
(***************************************************************************)
(* The inductive invariant is one.                                         *)
(***************************************************************************)

(* Nothing to do is nothing left to do.                                       *)
LEMMA Nothing ==
  ASSUME NEW l, NEW a
  PROVE  Flags(<<>>, l) = {} /\ Pins(<<>>, l) = {} /\ Pending(<<>>, l, a)
<1>1. Flags(<<>>, l) = {} /\ Pins(<<>>, l) = {}
  BY DEF Flags, Pins
<1>2. QED
  BY <1>1 DEF Pending, LastDoes

(* Of a program that leaves an LED alone, any call may be the last.           *)
LEMMA LeavesPending ==
  ASSUME NEW p, NEW l, NEW a, Leaves(p, l)
  PROVE  Pending(p, l, a)
BY DEF Leaves, Pending, LastDoes

(* The type invariant follows from the rest and the types of the variables.   *)
LEMMA Typed ==
  ASSUME ProgramOK
  PROVE  Len(program) <= 8 /\ \A i \in 1 .. Len(program) : program[i].led \in LEDs
<1>1. Commanded \subseteq LEDs
  BY DEF Commanded, LEDs
<1>2. \A i \in 1 .. Len(program) : program[i] \in Stmts
  BY DEF ProgramOK
<1>3. QED
  BY <1>1, <1>2 DEF ProgramOK, Stmts

LEMMA InitIInv == Init => IInv
<1> SUFFICES ASSUME Init PROVE IInv
  OBVIOUS
<1> DEFINE p == Both("off")
           q == Both("on")
<1>1. "off" \in Actions /\ "on" \in Actions
  BY DEF Actions
<1>2. /\ p \in Seq(Stmts) /\ Leaves(p, "FLAT")
      /\ q \in Seq(Stmts) /\ Does(q, "RUN", "on") /\ Does(q, "ERROR", "on") /\ Leaves(q, "FLAT")
  BY <1>1, BothDo
<1>3. Len(p) = 4 /\ Len(q) = 4
  BY DEF Both, Statements, Stmt
<1> HIDE DEF p, q
<1>4. /\ p \o q \in Seq(Stmts) /\ Len(p \o q) = 8
      /\ Does(p \o q, "RUN", "on") /\ Does(p \o q, "ERROR", "on") /\ Leaves(p \o q, "FLAT")
  <2>1. "RUN" \in LEDs /\ "ERROR" \in LEDs /\ "FLAT" \in LEDs
    BY DEF LEDs
  <2>2. p \o q \in Seq(Stmts) /\ Len(p \o q) = Len(p) + Len(q)
    BY <1>1, <1>2, <2>1, Concat
  <2>3. Does(p \o q, "RUN", "on") /\ Does(p \o q, "ERROR", "on") /\ Leaves(p \o q, "FLAT")
    BY <1>1, <1>2, <2>1, Concat
  <2>4. QED
    BY <1>3, <2>2, <2>3
<1>5. program = p \o q
  BY DEF Init, p, q
<1>6. wanted["RUN"] = "on" /\ wanted["ERROR"] = "on" /\ wanted["FLAT"] = "off"
  BY DEF Init, LEDs
<1>7. lit["FLAT"] = FALSE /\ flashing["FLAT"] = FALSE
  BY DEF Init, LEDs
<1>8. Follows("RUN") /\ Follows("ERROR")
  BY <1>4, <1>5, <1>6 DEF Follows, Does
<1>9. Follows("FLAT")
  BY <1>4, <1>5, <1>6, <1>7, LeavesPending DEF Follows, Leaves
<1>10. ProgramOK
  BY <1>4, <1>5 DEF ProgramOK
<1>11. TypeOK
  BY <1>10, Typed DEF Init, TypeOK, LEDs, Contexts, Actions
<1>12. QED
  BY <1>6, <1>8, <1>9, <1>10, <1>11 DEF IInv, LEDs

(* A call: some LEDs have new statements waiting, the others none.            *)
LEMMA CallKeeps ==
  ASSUME IInv, NEW p \in Seq(Stmts), Len(p) <= 8, NEW w \in [LEDs -> Actions], Call(p, w),
         listening' = listening, w["FLAT"] # "flash",
         \A l \in LEDs : Does(p, l, w[l]) \/ (Leaves(p, l) /\ w[l] = wanted[l])
  PROVE  IInv'
<1>1. /\ program = <<>> /\ program' = p /\ wanted' = w
      /\ lit' = lit /\ flashing' = flashing /\ context' = context
  BY DEF Call
<1>2. ProgramOK'
  BY <1>1 DEF ProgramOK
<1>3. TypeOK'
  <2>1. Len(program') <= 8 /\ \A i \in 1 .. Len(program') : program'[i].led \in LEDs
    <3>1. Commanded \subseteq LEDs
      BY DEF Commanded, LEDs
    <3>2. \A i \in 1 .. Len(p) : p[i] \in Stmts
      OBVIOUS
    <3>3. QED
      BY <1>1, <3>1, <3>2 DEF Stmts
  <2>2. QED
    BY <1>1, <2>1 DEF IInv, TypeOK
<1>4. ASSUME NEW l \in LEDs PROVE Follows(l)'
  <2>1. CASE Does(p, l, w[l])
    BY <1>1, <2>1 DEF Follows, Does
  <2>2. CASE Leaves(p, l) /\ w[l] = wanted[l]
    <3>1. Flags(program, l) = {} /\ Pins(program, l) = {}
      BY <1>1, Nothing
    <3>2. /\ flashing[l] <=> wanted[l] = "flash"
          /\ wanted[l] # "flash" => (lit[l] <=> wanted[l] = "on")
      BY <3>1 DEF IInv, Follows
    <3>3. Pending(p, l, w[l])
      BY <2>2, LeavesPending
    <3>4. QED
      BY <1>1, <2>2, <3>2, <3>3 DEF Follows
  <2>3. QED
    BY <2>1, <2>2
<1>5. QED
  BY <1>1, <1>2, <1>3, <1>4 DEF IInv

LEMMA HostKeeps ==
  ASSUME IInv, \/ \E action \in Actions, led \in Commanded : LedSet(action, led)
               \/ BoardReset \/ BusReset \/ Enumerated
  PROVE  IInv'
<1>1. wanted \in [LEDs -> Actions] /\ wanted["FLAT"] # "flash"
  BY DEF IInv, TypeOK
<1>2. {"on", "off"} \subseteq Actions /\ Commanded \subseteq LEDs /\ "FLAT" \notin Commanded
      /\ "FLAT" \in LEDs /\ LEDs = Commanded \cup {"FLAT"} /\ Commanded = {"RUN", "ERROR"}
  BY DEF Actions, Commanded, LEDs
<1>3. ASSUME NEW action \in Actions, NEW led \in Commanded,
             Call(Statements(action, led), [wanted EXCEPT ![led] = action]), listening' = listening
      PROVE  IInv'
  <2> DEFINE p == Statements(action, led)
             w == [wanted EXCEPT ![led] = action]
  <2>1. /\ p \in Seq(Stmts) /\ Len(p) <= 3 /\ Len(p) \in Nat
        /\ Does(p, led, action) /\ \A l \in LEDs \ {led} : Leaves(p, l)
    BY CallsDo
  <2>2. /\ w \in [LEDs -> Actions] /\ w[led] = action /\ \A l \in LEDs \ {led} : w[l] = wanted[l]
        /\ w["FLAT"] # "flash"
    BY <1>1, <1>2
  <2>3. Call(p, w)
    BY <1>3
  <2> HIDE DEF p, w
  <2>4. \A l \in LEDs : Does(p, l, w[l]) \/ (Leaves(p, l) /\ w[l] = wanted[l])
    BY <2>1, <2>2
  <2>5. Len(p) <= 8
    BY <2>1
  <2>6. QED
    BY <1>3, <2>1, <2>2, <2>3, <2>4, <2>5, CallKeeps
<1>4. ASSUME NEW action \in {"on", "off"},
             Call(Both(action), [wanted EXCEPT !["RUN"] = action, !["ERROR"] = action]), listening' = listening
      PROVE  IInv'
  <2> DEFINE p == Both(action)
             w == [wanted EXCEPT !["RUN"] = action, !["ERROR"] = action]
  <2>1. /\ p \in Seq(Stmts) /\ Len(p) <= 6 /\ Len(p) \in Nat
        /\ Does(p, "RUN", action) /\ Does(p, "ERROR", action) /\ Leaves(p, "FLAT")
    BY <1>2, BothDo
  <2>2. /\ w \in [LEDs -> Actions] /\ w["RUN"] = action /\ w["ERROR"] = action
        /\ w["FLAT"] = wanted["FLAT"] /\ w["FLAT"] # "flash"
    BY <1>1, <1>2
  <2>3. Call(p, w)
    BY <1>4
  <2> HIDE DEF p, w
  <2>4. \A l \in LEDs : Does(p, l, w[l]) \/ (Leaves(p, l) /\ w[l] = wanted[l])
    BY <1>2, <2>1, <2>2
  <2>5. Len(p) <= 8
    BY <2>1
  <2>6. QED
    BY <1>4, <2>1, <2>2, <2>3, <2>4, <2>5, CallKeeps
<1>5. QED
  BY <1>2, <1>3, <1>4 DEF LedSet, BoardReset, BusReset, Enumerated

(* One statement of the main thread.                                          *)
LEMMA MainStepKeeps ==
  ASSUME IInv, MainStep
  PROVE  IInv'
<1> DEFINE s == program[1]
<1>1. program \in Seq(Stmts) /\ program # <<>> /\ Len(program) \in Nat /\ Len(program) > 0
      /\ Len(program) <= 8
  <2>1. program \in Seq(Stmts) /\ program # <<>> /\ Len(program) <= 8
    BY DEF IInv, ProgramOK, MainStep
  <2>2. QED
    BY <2>1, EmptySeq
<1>2. /\ Tail(program) \in Seq(Stmts) /\ Len(Tail(program)) = Len(program) - 1
      /\ Head(program) = s /\ s \in Stmts
  BY <1>1
<1>3. /\ program' = Tail(program) /\ context' = context /\ wanted' = wanted
      /\ listening' \in BOOLEAN
      /\ lit' = [lit EXCEPT ![s.led] =
                   CASE s.do = "light" -> TRUE [] s.do = "dark" -> FALSE
                     [] s.do = "toggle" -> ~lit[s.led] [] OTHER -> lit[s.led]]
      /\ flashing' = [flashing EXCEPT ![s.led] =
                   CASE s.do = "unflash" -> FALSE [] s.do = "flash" -> TRUE [] OTHER -> flashing[s.led]]
  BY <1>2 DEF MainStep, Do, IInv, TypeOK
<1>4. lit \in [LEDs -> BOOLEAN] /\ flashing \in [LEDs -> BOOLEAN]
  BY DEF IInv, TypeOK
<1> HIDE DEF s
<1>5. s.led \in LEDs /\ s.do \in PinKinds \cup FlagKinds
  BY <1>2 DEF Stmts, Commanded, LEDs
<1>6. ProgramOK'
  BY <1>1, <1>2, <1>3 DEF ProgramOK
<1>7. lit' \in [LEDs -> BOOLEAN] /\ flashing' \in [LEDs -> BOOLEAN]
  BY <1>3, <1>4, <1>5
<1>8. /\ \A l \in LEDs \ {s.led} : lit'[l] = lit[l] /\ flashing'[l] = flashing[l]
      /\ s.do \in FlagKinds => lit'[s.led] = lit[s.led] /\ (flashing'[s.led] <=> s.do = "flash")
      /\ s.do \in PinKinds => flashing'[s.led] = flashing[s.led]
      /\ s.do = "light" => lit'[s.led]
      /\ s.do = "dark" => ~lit'[s.led]
  BY <1>3, <1>4, <1>5 DEF PinKinds, FlagKinds
<1>9. TypeOK'
  <2>1. Len(program') <= 8 /\ \A i \in 1 .. Len(program') : program'[i].led \in LEDs
    <3>1. Commanded \subseteq LEDs
      BY DEF Commanded, LEDs
    <3>2. \A i \in 1 .. Len(program') : program'[i] \in Stmts
      BY <1>2, <1>3
    <3>3. QED
      BY <1>6, <3>1, <3>2 DEF Stmts, ProgramOK
  <2>2. QED
    BY <1>3, <1>7, <2>1 DEF IInv, TypeOK
<1>10. ASSUME NEW l \in LEDs PROVE Follows(l)'
  <2> DEFINE a == wanted[l]
  <2>1. a \in Actions
    BY DEF IInv, TypeOK
  <2>2. /\ Pending(program, l, a)
        /\ Flags(program, l) = {} => (flashing[l] <=> a = "flash")
        /\ a # "flash" /\ Pins(program, l) = {} => (lit[l] <=> a = "on")
    BY DEF IInv, Follows
  <2> HIDE DEF a
  <2>3. /\ Pending(program', l, a)
        /\ Flags(program', l) = {} =>
             IF s.led = l /\ s.do \in FlagKinds THEN s.do = LastFlag(a) ELSE Flags(program, l) = {}
        /\ a # "flash" /\ Pins(program', l) = {} =>
             IF s.led = l /\ s.do \in PinKinds THEN s.do = LastPin(a) ELSE Pins(program, l) = {}
    BY <1>1, <1>3, <2>1, <2>2, OneLess DEF s
  <2>4. ASSUME Flags(program', l) = {} PROVE flashing'[l] <=> a = "flash"
    <3>1. CASE s.led = l /\ s.do \in FlagKinds
      BY <1>8, <2>3, <2>4, <3>1 DEF LastFlag
    <3>2. CASE ~(s.led = l /\ s.do \in FlagKinds)
      BY <1>5, <1>8, <2>2, <2>3, <2>4, <3>2
    <3>3. QED
      BY <3>1, <3>2
  <2>5. ASSUME a # "flash", Pins(program', l) = {} PROVE lit'[l] <=> a = "on"
    <3>1. CASE s.led = l /\ s.do \in PinKinds
      BY <1>8, <2>1, <2>3, <2>5, <3>1 DEF LastPin, Actions
    <3>2. CASE ~(s.led = l /\ s.do \in PinKinds)
      BY <1>5, <1>8, <2>2, <2>3, <2>5, <3>2
    <3>3. QED
      BY <3>1, <3>2
  <2>6. QED
    BY <1>3, <2>3, <2>4, <2>5 DEF Follows, a
<1>11. QED
  BY <1>3, <1>6, <1>9, <1>10 DEF IInv

(* The interrupt toggles no LED whose pin has been written for good.          *)
LEMMA FlashKeeps ==
  ASSUME IInv, handle_led_flash
  PROVE  IInv'
<1>1. /\ flashing' = flashing /\ program' = program /\ context' = context
      /\ listening' = listening /\ wanted' = wanted
      /\ lit' = [l \in LEDs |-> IF flashing[l] /\ l # "FLAT" THEN ~lit[l] ELSE lit[l]]
  BY DEF handle_led_flash
<1>2. lit' \in [LEDs -> BOOLEAN]
  BY <1>1 DEF IInv, TypeOK
<1>3. TypeOK' /\ ProgramOK'
  BY <1>1, <1>2 DEF IInv, TypeOK, ProgramOK
<1>4. ASSUME NEW l \in LEDs PROVE Follows(l)'
  <2>1. ASSUME wanted[l] # "flash", Pins(program, l) = {} PROVE lit'[l] = lit[l]
    <3>1. Flags(program, l) = {}
      BY <2>1 DEF IInv, Follows, Pending
    <3>2. ~flashing[l]
      BY <2>1, <3>1 DEF IInv, Follows
    <3>3. QED
      BY <1>1, <3>2
  <2>2. QED
    BY <1>1, <2>1 DEF IInv, Follows
<1>5. QED
  BY <1>1, <1>3, <1>4 DEF IInv

LEMMA ShutdownKeeps ==
  ASSUME IInv, NEW c \in Contexts, NEW flat \in BOOLEAN, Shutdown(c, flat)
  PROVE  IInv'
<1>1. /\ program' = <<>> /\ context' = c /\ listening' = listening
      /\ lit' = [lit EXCEPT !["RUN"] = FALSE, !["ERROR"] = TRUE, !["FLAT"] = flat]
      /\ flashing' = [flashing EXCEPT !["RUN"] = FALSE, !["ERROR"] = FALSE]
      /\ wanted' = [wanted EXCEPT !["RUN"] = "off", !["ERROR"] = "on",
                                  !["FLAT"] = IF flat THEN "on" ELSE "off"]
  BY DEF Shutdown
<1>2. /\ lit \in [LEDs -> BOOLEAN] /\ flashing \in [LEDs -> BOOLEAN] /\ wanted \in [LEDs -> Actions]
      /\ listening \in BOOLEAN
  BY DEF IInv, TypeOK
<1>3. flashing["FLAT"] = FALSE
  <2>1. Flags(program, "FLAT") = {}
    <3>1. \A i \in 1 .. Len(program) : program[i] \in Stmts
      BY DEF IInv, ProgramOK
    <3>2. QED
      BY <3>1 DEF Stmts, Commanded, Flags
  <2>2. QED
    BY <1>2, <2>1 DEF IInv, Follows, LEDs
<1>4. /\ lit'["RUN"] = FALSE /\ lit'["ERROR"] = TRUE /\ lit'["FLAT"] = flat
      /\ flashing'["RUN"] = FALSE /\ flashing'["ERROR"] = FALSE /\ flashing'["FLAT"] = FALSE
      /\ wanted'["RUN"] = "off" /\ wanted'["ERROR"] = "on"
      /\ wanted'["FLAT"] = IF flat THEN "on" ELSE "off"
  BY <1>1, <1>2, <1>3 DEF LEDs
<1>5. ProgramOK'
  BY <1>1 DEF ProgramOK
<1>6. lit' \in [LEDs -> BOOLEAN] /\ flashing' \in [LEDs -> BOOLEAN] /\ wanted' \in [LEDs -> Actions]
  BY <1>1, <1>2 DEF LEDs, Actions
<1>7. TypeOK'
  <2>1. Len(program') <= 8 /\ \A i \in 1 .. Len(program') : program'[i].led \in LEDs
    BY <1>1
  <2>2. context' \in Contexts /\ listening' \in BOOLEAN
    BY <1>1, <1>2
  <2>3. QED
    BY <1>6, <2>1, <2>2 DEF TypeOK
<1>8. ASSUME NEW l \in LEDs PROVE Follows(l)'
  <2>1. Pending(program', l, wanted'[l])
    BY <1>1, Nothing
  <2>2. (flashing'[l] <=> wanted'[l] = "flash") /\ (lit'[l] <=> wanted'[l] = "on")
    BY <1>4 DEF LEDs
  <2>3. QED
    BY <2>1, <2>2 DEF Follows
<1>9. QED
  BY <1>4, <1>5, <1>7, <1>8 DEF IInv

LEMMA FlatLoopKeeps ==
  ASSUME IInv, FlatLoop
  PROVE  IInv'
<1>1. /\ program' = program /\ context' = context /\ listening' = listening /\ flashing' = flashing
      /\ lit' = [lit EXCEPT !["FLAT"] = ~lit["FLAT"]]
      /\ wanted' = [wanted EXCEPT !["FLAT"] = IF lit["FLAT"] THEN "off" ELSE "on"]
  BY DEF FlatLoop
<1>2. lit \in [LEDs -> BOOLEAN] /\ flashing \in [LEDs -> BOOLEAN] /\ wanted \in [LEDs -> Actions]
  BY DEF IInv, TypeOK
<1>3. "FLAT" \in LEDs
  BY DEF LEDs
<1>4. Flags(program, "FLAT") = {} /\ Pins(program, "FLAT") = {}
  <2>1. \A i \in 1 .. Len(program) : program[i] \in Stmts
    BY DEF IInv, ProgramOK
  <2>2. QED
    BY <2>1 DEF Stmts, Commanded, Flags, Pins
<1>5. flashing["FLAT"] = FALSE
  BY <1>2, <1>3, <1>4 DEF IInv, Follows
<1>6. /\ lit'["FLAT"] = ~lit["FLAT"] /\ wanted'["FLAT"] = IF lit["FLAT"] THEN "off" ELSE "on"
      /\ \A l \in LEDs \ {"FLAT"} : lit'[l] = lit[l] /\ wanted'[l] = wanted[l]
  BY <1>1, <1>2, <1>3
<1>7. TypeOK' /\ ProgramOK'
  <2>1. lit' \in [LEDs -> BOOLEAN] /\ wanted' \in [LEDs -> Actions]
    BY <1>1, <1>2, <1>3 DEF Actions
  <2>2. QED
    BY <1>1, <2>1 DEF IInv, TypeOK, ProgramOK
<1>8. Follows("FLAT")'
  <2>1. Pending(program', "FLAT", wanted'["FLAT"])
    BY <1>1, <1>4, LeavesPending DEF Leaves
  <2>2. flashing'["FLAT"] = FALSE
    BY <1>1, <1>5
  <2>3. CASE lit["FLAT"]
    <3>1. wanted'["FLAT"] = "off" /\ ~lit'["FLAT"]
      BY <1>6, <2>3
    <3>2. QED
      BY <2>1, <2>2, <3>1 DEF Follows
  <2>4. CASE ~lit["FLAT"]
    <3>1. wanted'["FLAT"] = "on" /\ lit'["FLAT"]
      BY <1>6, <2>4
    <3>2. QED
      BY <2>1, <2>2, <3>1 DEF Follows
  <2>5. QED
    BY <2>3, <2>4
<1>9. \A l \in LEDs \ {"FLAT"} : Follows(l)'
  BY <1>1, <1>6 DEF IInv, Follows
<1>10. QED
  BY <1>6, <1>7, <1>8, <1>9 DEF IInv

LEMMA Inductive == IInv /\ [Next]_vars => IInv'
<1> SUFFICES ASSUME IInv, [Next]_vars PROVE IInv'
  OBVIOUS
<1>1. CASE Host
  BY <1>1, HostKeeps, ShutdownKeeps DEF Host, jump_to_bootloader, Contexts, Deinit
<1>2. CASE MainStep
  BY <1>2, MainStepKeeps
<1>3. CASE handle_led_flash
  BY <1>3, FlashKeeps
<1>4. CASE set_global_overcurrent \/ handle_uvlo
  BY <1>4, ShutdownKeeps DEF set_global_overcurrent, handle_uvlo, Contexts, Deinit
<1>5. CASE FlatLoop
  BY <1>5, FlatLoopKeeps
<1>6. CASE usb_deinit_return \/ OtherLoop \/ UNCHANGED vars
  <2>1. /\ lit' = lit /\ flashing' = flashing /\ program' = program
        /\ listening' = listening /\ wanted' = wanted /\ context' \in Contexts
    BY <1>6 DEF usb_deinit_return, OtherLoop, vars, After, Contexts, IInv, TypeOK
  <2>2. QED
    BY <2>1 DEF IInv, TypeOK, ProgramOK, Follows
<1>7. QED
  BY <1>1, <1>2, <1>3, <1>4, <1>5, <1>6 DEF Next

LEMMA Invariance == Spec => []IInv
BY InitIInv, Inductive, PTL DEF Spec

-----------------------------------------------------------------------------
(* Every variable keeps its type, and no call leaves more than eight          *)
(* statements to be executed.                                                 *)
THEOREM TypeCorrectness == Spec => []TypeOK
<1>1. IInv => TypeOK
  BY DEF IInv
<1>2. QED
  BY <1>1, Invariance, PTL

(* An LED shows what the last call for it asked for, whenever the interrupt   *)
(* that toggles the flashing ones comes in between (led.c): set_led and       *)
(* clear_led clear the flag before they write the pin.                        *)
THEOREM LedsShowTheLastCall == Spec => []LedsFollowCommands
<1>1. IInv => LedsFollowCommands
  <2> SUFFICES ASSUME IInv, NEW l \in LEDs, ~Busy(l)
      PROVE /\ flashing[l] <=> wanted[l] = "flash"
            /\ wanted[l] # "flash" => (lit[l] <=> wanted[l] = "on")
    BY DEF LedsFollowCommands
  <2>1. Flags(program, l) = {} /\ Pins(program, l) = {}
    BY DEF Busy, Flags, Pins
  <2>2. QED
    BY <2>1 DEF IInv, Follows
<1>2. QED
  BY <1>1, Invariance, PTL
=============================================================================
