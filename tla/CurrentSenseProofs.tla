-------------------------- MODULE CurrentSenseProofs --------------------------
(***************************************************************************)
(* Proofs about module CurrentSense: what counts as a successful reading   *)
(* has been measured by its own sensor, calibrated and nulled.  The        *)
(* argument goes along the order of the transfers, which the sensors can   *)
(* break at any point by refusing one or by losing their registers.        *)
(***************************************************************************)
EXTENDS CurrentSense, SequenceTheorems, TLAPS

Transfers == [do : Kinds, sensor : Sensors]

(* Transfers that are made in a context, the one after another, and the last. *)
Allows(c, t) ==
  IF c = "boot" THEN t.do \in {"calibrate", "configure", "select_current", "read_offset"}
  ELSE t.do # "read_offset"

Follows(c, t, u) ==
  CASE t.do = "calibrate" -> u = Transfer("configure", t.sensor)
    [] t.do = "configure" ->
         u = IF c = "boot" THEN Transfer("select_current", t.sensor)
             ELSE IF t.sensor = "BATTERY" THEN Transfer("calibrate", "REG")
             ELSE Transfer("select_current", "BATTERY")
    [] t.do = "select_current" ->
         u = Transfer(IF c = "boot" THEN "read_offset" ELSE "read_current", t.sensor)
    [] t.do = "read_offset"    -> t.sensor = "BATTERY" /\ u = Transfer("calibrate", "REG")
    [] t.do = "read_current"   -> u = Transfer("select_voltage", t.sensor)
    [] t.do = "select_voltage" -> u = Transfer("read_voltage", t.sensor)
    [] OTHER -> t.sensor = "BATTERY" /\ u = Transfer("select_current", "REG")

LastIn(c) == Transfer(IF c = "boot" THEN "read_offset" ELSE "read_voltage",
                      IF c = "overcurrent" THEN "BATTERY" ELSE "REG")

Chain(c, p, first, last) ==
  /\ p \in Seq(Transfers) /\ Len(p) > 0 /\ p[1] = first /\ p[Len(p)] = last
  /\ \A i \in 1 .. Len(p) : Allows(c, p[i])
  /\ \A i \in 1 .. Len(p) - 1 : Follows(c, p[i], p[i + 1])

(* The transfers still to be done are the rest of a round.                    *)
InOrder ==
  program # <<>> => context # "flat" /\ Chain(context, program, program[1], LastIn(context))

(* Before transfer t: the round has written a sensor's registers, if it had   *)
(* to write them at all.                                                      *)
Passed(c, t, s) == ~(c = "boot" /\ s = "REG" /\ t.sensor = "BATTERY")
CalibratedAt(c, t, s) ==
  CASE t.do = "calibrate" -> s = "BATTERY" /\ t.sensor = "REG"
    [] t.do = "configure" -> s = "BATTERY" \/ t.sensor = "REG"
    [] OTHER -> Passed(c, t, s)
ConfiguredAt(c, t, s) ==
  CASE t.do \in {"calibrate", "configure"} -> s = "BATTERY" /\ t.sensor = "REG"
    [] OTHER -> Passed(c, t, s)

Prepared ==
  ~i2c_timed_out => \A s \in Sensors \ lost :
    /\ (program # <<>> => CalibratedAt(context, program[1], s)) => s \in calibration
    /\ (program # <<>> => ConfiguredAt(context, program[1], s)) => s \in configuration

(* A sensor shows the register it is about to be read for, and the result of  *)
(* the measurement under way is its own.                                      *)
Own(r, s) == r.current = [of |-> s, reg |-> "current"] /\ r.offset \in {"zero", s}
Selected ==
  ~i2c_timed_out /\ program # <<>> /\ program[1].sensor \notin lost =>
    LET t == program[1] IN
      /\ t.do = "read_current" => pointer[t.sensor] = "current"
      /\ t.do \in {"select_voltage", "read_voltage"} => Own(res, t.sensor)
      /\ t.do = "read_voltage" => pointer[t.sensor] = "voltage"

Nulled == \A s \in Sensors : ina219_offsets[s] \in {"zero", s}

Measured ==
  \A s \in Sensors : reading[s].success /\ ~reading[s].suspect =>
    Own(reading[s], s) /\ reading[s].voltage = [of |-> s, reg |-> "voltage"]

(* From the end of the battery's measurement to the end of the regulator's.   *)
BatteryFirst ==
  /\ context = "boot" => \A s \in Sensors : ~reading[s].success
  /\ context = "running" =>
       IF program = <<>> THEN reading["REG"].success => reading["BATTERY"].success
       ELSE program[1].sensor = "REG" /\ program[1].do \notin {"calibrate", "configure"}
              => reading["BATTERY"].success \/ i2c_timed_out

(* The inductive invariant.                                                   *)
IInv == TypeOK /\ InOrder /\ Prepared /\ Selected /\ Nulled /\ Measured /\ BatteryFirst

-----------------------------------------------------------------------------
(***************************************************************************)
(* The order of the transfers.                                             *)
(***************************************************************************)

(* Two runs of transfers make one, if the second follows on the first.        *)
LEMMA Join ==
  ASSUME NEW c, NEW p, NEW q, NEW a, NEW b, NEW d, NEW e,
         Chain(c, p, a, b), Chain(c, q, d, e), Follows(c, b, d)
  PROVE  Chain(c, p \o q, a, e)
<1>1. /\ p \in Seq(Transfers) /\ Len(p) \in Nat /\ Len(p) > 0 /\ p[1] = a /\ p[Len(p)] = b
      /\ q \in Seq(Transfers) /\ Len(q) \in Nat /\ Len(q) > 0 /\ q[1] = d /\ q[Len(q)] = e
  BY DEF Chain
<1> DEFINE r == p \o q
<1>2. /\ r \in Seq(Transfers) /\ Len(r) = Len(p) + Len(q)
      /\ \A i \in 1 .. Len(p) + Len(q) : r[i] = IF i <= Len(p) THEN p[i] ELSE q[i - Len(p)]
  BY <1>1, ConcatProperties
<1> HIDE DEF r
<1>3. r[1] = a /\ r[Len(r)] = e /\ Len(r) > 0
  BY <1>1, <1>2
<1>4. ASSUME NEW i \in 1 .. Len(r) PROVE Allows(c, r[i])
  <2>1. CASE i <= Len(p)
    BY <1>1, <1>2, <2>1 DEF Chain
  <2>2. CASE i > Len(p)
    <3>1. r[i] = q[i - Len(p)] /\ i - Len(p) \in 1 .. Len(q)
      BY <1>1, <1>2, <2>2
    <3>2. QED
      BY <3>1 DEF Chain
  <2>3. QED
    BY <1>1, <2>1, <2>2
<1>5. ASSUME NEW i \in 1 .. Len(r) - 1 PROVE Follows(c, r[i], r[i + 1])
  <2>1. CASE i < Len(p)
    <3>1. r[i] = p[i] /\ r[i + 1] = p[i + 1] /\ i \in 1 .. Len(p) - 1
      BY <1>1, <1>2, <2>1
    <3>2. QED
      BY <3>1 DEF Chain
  <2>2. CASE i = Len(p)
    <3>1. r[i] = b /\ r[i + 1] = d
      BY <1>1, <1>2, <2>2
    <3>2. QED
      BY <3>1
  <2>3. CASE i > Len(p)
    <3> DEFINE k == i - Len(p)
    <3>1. r[i] = q[k] /\ r[i + 1] = q[k + 1] /\ k \in 1 .. Len(q) - 1
      BY <1>1, <1>2, <2>3
    <3> HIDE DEF k
    <3>2. QED
      BY <3>1 DEF Chain
  <2>4. QED
    BY <1>1, <2>1, <2>2, <2>3
<1>6. Chain(c, r, a, e)
  BY <1>2, <1>3, <1>4, <1>5 DEF Chain
<1>7. QED
  BY <1>6 DEF r

(* Two transfers, one after the other.                                        *)
LEMMA Pair ==
  ASSUME NEW c, NEW a \in Transfers, NEW b \in Transfers, Allows(c, a), Allows(c, b), Follows(c, a, b)
  PROVE  Chain(c, <<a, b>>, a, b)
<1> DEFINE p == <<a, b>>
<1>1. p \in Seq(Transfers) /\ Len(p) = 2 /\ p[1] = a /\ p[2] = b
  OBVIOUS
<1> HIDE DEF p
<1>2. Chain(c, p, a, b)
  BY <1>1 DEF Chain
<1>3. QED
  BY <1>2 DEF p

(* The functions of the driver make their transfers in this order.            *)
LEMMA Starting ==
  ASSUME NEW c \in {"boot", "running", "overcurrent"}, NEW s \in Sensors
  PROVE  Chain(c, init_current_sense(s, c = "boot"), Transfer("calibrate", s),
               IF c = "boot" THEN Transfer("read_offset", s) ELSE Transfer("configure", s))
<1> DEFINE first == <<Transfer("calibrate", s), Transfer("configure", s)>>
           second == <<Transfer("select_current", s), Transfer("read_offset", s)>>
<1>1. /\ Transfer("calibrate", s) \in Transfers /\ Transfer("configure", s) \in Transfers
      /\ Transfer("select_current", s) \in Transfers /\ Transfer("read_offset", s) \in Transfers
  BY DEF Transfer, Transfers, Kinds
<1>2. Chain(c, first, Transfer("calibrate", s), Transfer("configure", s))
  <2>1. /\ Follows(c, Transfer("calibrate", s), Transfer("configure", s))
        /\ Allows(c, Transfer("calibrate", s)) /\ Allows(c, Transfer("configure", s))
    BY DEF Transfer, Follows, Allows
  <2>2. QED
    BY <1>1, <2>1, Pair
<1>3. CASE c = "boot"
  <2>1. /\ Follows(c, Transfer("configure", s), Transfer("select_current", s))
        /\ Follows(c, Transfer("select_current", s), Transfer("read_offset", s))
        /\ Allows(c, Transfer("select_current", s)) /\ Allows(c, Transfer("read_offset", s))
    BY <1>3 DEF Transfer, Follows, Allows
  <2>2. Chain(c, second, Transfer("select_current", s), Transfer("read_offset", s))
    BY <1>1, <2>1, Pair
  <2>3. Chain(c, first \o second, Transfer("calibrate", s), Transfer("read_offset", s))
    BY <1>2, <2>1, <2>2, Join
  <2>4. QED
    BY <1>3, <2>3 DEF init_current_sense
<1>4. CASE c # "boot"
  <2>1. first \o <<>> = first
    BY <1>1, ConcatEmptySeq
  <2>2. init_current_sense(s, c = "boot") = first
    BY <1>4, <2>1 DEF init_current_sense
  <2>3. QED
    BY <1>2, <1>4, <2>2
<1>5. QED
  BY <1>3, <1>4

(* The four transfers of a measurement are a chain of the code's successors.  *)
LEMMA Measuring ==
  ASSUME NEW c \in {"running", "overcurrent"}, NEW s \in Sensors
  PROVE  Chain(c, measure_current_sense(s), Transfer("select_current", s), Transfer("read_voltage", s))
<1> DEFINE p == measure_current_sense(s)
<1>1. /\ p \in Seq(Transfers) /\ Len(p) = 4
      /\ p[1] = Transfer("select_current", s) /\ p[2] = Transfer("read_current", s)
      /\ p[3] = Transfer("select_voltage", s) /\ p[4] = Transfer("read_voltage", s)
  BY DEF measure_current_sense, Transfer, Transfers, Kinds
<1>2. /\ Follows(c, Transfer("select_current", s), Transfer("read_current", s))
      /\ Follows(c, Transfer("read_current", s), Transfer("select_voltage", s))
      /\ Follows(c, Transfer("select_voltage", s), Transfer("read_voltage", s))
  BY DEF Transfer, Follows
<1>3. /\ Allows(c, Transfer("select_current", s)) /\ Allows(c, Transfer("read_current", s))
      /\ Allows(c, Transfer("select_voltage", s)) /\ Allows(c, Transfer("read_voltage", s))
  BY DEF Transfer, Allows
<1> HIDE DEF p
<1>4. \A i \in 1 .. Len(p) : Allows(c, p[i])
  <2>1. \A i \in 1 .. 4 : i = 1 \/ i = 2 \/ i = 3 \/ i = 4
    OBVIOUS
  <2>2. QED
    BY <1>1, <1>3, <2>1
<1>5. \A i \in 1 .. Len(p) - 1 : Follows(c, p[i], p[i + 1])
  <2>1. \A i \in 1 .. 3 : (i = 1 /\ i + 1 = 2) \/ (i = 2 /\ i + 1 = 3) \/ (i = 3 /\ i + 1 = 4)
    OBVIOUS
  <2>2. QED
    BY <1>1, <1>2, <2>1
<1>6. Chain(c, p, Transfer("select_current", s), Transfer("read_voltage", s))
  BY <1>1, <1>4, <1>5 DEF Chain
<1>7. QED
  BY <1>6 DEF p

(* So are those of the set-up, with the nulling at start-up or without it.    *)
LEMMA SettingUp ==
  ASSUME NEW c \in {"boot", "running", "overcurrent"}
  PROVE  Chain(c, init_i2c_sensors(c = "boot"), Transfer("calibrate", "BATTERY"),
               IF c = "boot" THEN Transfer("read_offset", "REG") ELSE Transfer("configure", "REG"))
<1> DEFINE last(s) == IF c = "boot" THEN Transfer("read_offset", s) ELSE Transfer("configure", s)
<1>1. /\ Chain(c, init_current_sense("BATTERY", c = "boot"), Transfer("calibrate", "BATTERY"), last("BATTERY"))
      /\ Chain(c, init_current_sense("REG", c = "boot"), Transfer("calibrate", "REG"), last("REG"))
  BY Starting DEF Sensors
<1>2. Follows(c, last("BATTERY"), Transfer("calibrate", "REG"))
  BY DEF Follows, Transfer
<1> HIDE DEF last
<1>3. Chain(c, init_current_sense("BATTERY", c = "boot") \o init_current_sense("REG", c = "boot"),
            Transfer("calibrate", "BATTERY"), last("REG"))
  BY <1>1, <1>2, Join
<1>4. QED
  BY <1>3 DEF last, init_i2c_sensors

(* A round is a chain, with and without the sensors being set up before.      *)
LEMMA Rounds ==
  ASSUME NEW c \in {"running", "overcurrent"}, NEW m,
         Chain(c, m, Transfer("select_current", "BATTERY"), LastIn(c))
  PROVE  /\ Chain(c, Recover \o m, (Recover \o m)[1], LastIn(c))
         /\ i2c_timed_out => (Recover \o m)[1] = Transfer("calibrate", "BATTERY")
         /\ ~i2c_timed_out => (Recover \o m)[1] = Transfer("select_current", "BATTERY")
<1>1. CASE i2c_timed_out
  <2>1. Chain(c, init_i2c_sensors(FALSE), Transfer("calibrate", "BATTERY"), Transfer("configure", "REG"))
    <3>1. (c = "boot") = FALSE
      OBVIOUS
    <3>2. QED
      BY <3>1, SettingUp
  <2>2. Follows(c, Transfer("configure", "REG"), Transfer("select_current", "BATTERY"))
    BY DEF Follows, Transfer
  <2>3. Chain(c, init_i2c_sensors(FALSE) \o m, Transfer("calibrate", "BATTERY"), LastIn(c))
    BY <2>1, <2>2, Join
  <2>4. Recover = init_i2c_sensors(FALSE)
    BY <1>1 DEF Recover
  <2>5. (Recover \o m)[1] = Transfer("calibrate", "BATTERY")
    BY <2>3, <2>4 DEF Chain
  <2>6. QED
    BY <1>1, <2>3, <2>4, <2>5
<1>2. CASE ~i2c_timed_out
  <2>1. Recover \o m = m
    BY <1>2, ConcatEmptySeq DEF Recover, Chain
  <2>2. m[1] = Transfer("select_current", "BATTERY")
    BY DEF Chain
  <2>3. QED
    BY <1>2, <2>1, <2>2
<1>3. QED
  BY <1>1, <1>2

(* What a transfer needs of the registers was so before the transfer it       *)
(* follows on, or that one has just written them.                             *)
LEMMA Carry ==
  ASSUME NEW c \in {"boot", "running", "overcurrent"}, NEW t \in Transfers, NEW u,
         Allows(c, t), Follows(c, t, u), NEW s \in Sensors
  PROVE  /\ CalibratedAt(c, u, s) => CalibratedAt(c, t, s) \/ (t.do = "calibrate" /\ t.sensor = s)
         /\ ConfiguredAt(c, u, s) => ConfiguredAt(c, t, s) \/ (t.do = "configure" /\ t.sensor = s)
<1>1. \/ t.do = "calibrate" \/ t.do = "configure" \/ t.do = "select_current"
      \/ t.do = "select_voltage" \/ t.do = "read_offset" \/ t.do = "read_current" \/ t.do = "read_voltage"
  BY DEF Transfers, Kinds
<1>2. t.sensor \in {"BATTERY", "REG"} /\ s \in {"BATTERY", "REG"}
  BY DEF Transfers, Sensors
<1>3. CASE t.do = "calibrate"
  BY <1>2, <1>3 DEF Follows, Transfer, CalibratedAt, ConfiguredAt, Passed
<1>4. CASE t.do = "configure"
  BY <1>2, <1>4 DEF Follows, Transfer, CalibratedAt, ConfiguredAt, Passed
<1>5. CASE t.do = "select_current"
  BY <1>2, <1>5 DEF Follows, Transfer, CalibratedAt, ConfiguredAt, Passed
<1>6. CASE t.do = "select_voltage"
  BY <1>2, <1>6 DEF Follows, Transfer, CalibratedAt, ConfiguredAt, Passed
<1>7. CASE t.do = "read_offset"
  BY <1>2, <1>7 DEF Follows, Transfer, CalibratedAt, ConfiguredAt, Passed
<1>8. CASE t.do = "read_current"
  BY <1>2, <1>8 DEF Follows, Transfer, CalibratedAt, ConfiguredAt, Passed
<1>9. CASE t.do = "read_voltage"
  BY <1>2, <1>9 DEF Follows, Transfer, CalibratedAt, ConfiguredAt, Passed, Allows
<1>10. QED
  BY <1>1, <1>3, <1>4, <1>5, <1>6, <1>7, <1>8, <1>9

(* The last transfer finds all sensors set up.                                *)
LEMMA Finished ==
  ASSUME NEW c \in {"boot", "running", "overcurrent"}, NEW s \in Sensors
  PROVE  CalibratedAt(c, LastIn(c), s) /\ ConfiguredAt(c, LastIn(c), s)
BY DEF LastIn, Transfer, CalibratedAt, ConfiguredAt, Passed

-----------------------------------------------------------------------------
(***************************************************************************)
(* One transfer.                                                           *)
(***************************************************************************)

(* What is left of a sequence after its first element.                        *)
LEMMA Rest ==
  ASSUME NEW S, NEW p \in Seq(S), Len(p) > 0
  PROVE  /\ Tail(p) \in Seq(S) /\ Len(Tail(p)) = Len(p) - 1
         /\ \A i \in 1 .. Len(Tail(p)) : Tail(p)[i] = p[i + 1]
         /\ Head(p) = p[1] /\ (Tail(p) = <<>> <=> Len(p) = 1) /\ p[1] \in S
<1>1. Tail(p) \in Seq(S) /\ Len(Tail(p)) = Len(p) - 1 /\ Head(p) = p[1] /\ p[1] \in S
  OBVIOUS
<1>2. \A i \in 1 .. Len(Tail(p)) : Tail(p)[i] = p[i + 1]
  BY HeadTailProperties, EmptySeq
<1>3. Tail(p) = <<>> <=> Len(p) = 1
  <2> DEFINE q == Tail(p)
  <2>1. q \in Seq(S) /\ Len(q) = Len(p) - 1 /\ Len(p) \in Nat
    BY <1>1
  <2> HIDE DEF q
  <2>2. q = <<>> <=> Len(q) = 0
    BY <2>1, EmptySeq
  <2>3. q = <<>> <=> Len(p) = 1
    BY <2>1, <2>2
  <2>4. QED
    BY <2>3 DEF q
<1>4. QED
  BY <1>1, <1>2, <1>3

(* The transfer that is made, and the one after it.                           *)
LEMMA Move ==
  ASSUME TypeOK, InOrder, NextTransfer
  PROVE  /\ context \in {"boot", "running", "overcurrent"}
         /\ Head(program) = program[1] /\ program[1] \in Transfers /\ Allows(context, program[1])
         /\ program' = <<>> =>
              program[1] = LastIn(context) /\ context' = IF context = "boot" THEN "running" ELSE context
         /\ program' # <<>> =>
              context' = context /\ program'[1] \in Transfers /\ Follows(context, program[1], program'[1])
         /\ InOrder'
<1> DEFINE p == program
           q == Tail(program)
<1>1. /\ p \in Seq(Transfers) /\ Len(p) \in Nat /\ Len(p) > 0 /\ p[Len(p)] = LastIn(context)
      /\ \A i \in 1 .. Len(p) : Allows(context, p[i])
      /\ \A i \in 1 .. Len(p) - 1 : Follows(context, p[i], p[i + 1])
      /\ context # "flat"
  BY DEF NextTransfer, InOrder, Chain
<1>2. /\ q \in Seq(Transfers) /\ Len(q) = Len(p) - 1
      /\ \A i \in 1 .. Len(q) : q[i] = p[i + 1]
      /\ Head(p) = p[1] /\ (q = <<>> <=> Len(p) = 1) /\ p[1] \in Transfers
  BY <1>1, Rest
<1>3. context \in {"boot", "running", "overcurrent"}
  BY <1>1 DEF TypeOK
<1>4. program' = q /\ context' = IF context = "boot" /\ q = <<>> THEN "running" ELSE context
  BY DEF NextTransfer
<1> HIDE DEF p, q
<1>5. Allows(context, p[1])
  BY <1>1
<1>6. ASSUME q = <<>> PROVE p[1] = LastIn(context)
  BY <1>1, <1>2, <1>6
<1>7. ASSUME q # <<>>
      PROVE  q[1] \in Transfers /\ Follows(context, p[1], q[1]) /\ Chain(context, q, q[1], LastIn(context))
  <2>1. Len(q) \in Nat /\ Len(q) > 0 /\ Len(p) > 1 /\ Len(p) = Len(q) + 1
    BY <1>1, <1>2, <1>7
  <2>2. q[1] = p[2] /\ q[1] \in Transfers
    BY <1>2, <2>1
  <2>3. Follows(context, p[1], p[2])
    BY <1>1, <2>1
  <2>4. q[Len(q)] = p[Len(p)]
    BY <1>2, <2>1
  <2>5. ASSUME NEW i \in 1 .. Len(q) PROVE Allows(context, q[i])
    <3>1. q[i] = p[i + 1] /\ i + 1 \in 1 .. Len(p)
      BY <1>2, <2>1
    <3>2. QED
      BY <1>1, <3>1
  <2>6. ASSUME NEW i \in 1 .. Len(q) - 1 PROVE Follows(context, q[i], q[i + 1])
    <3>1. q[i] = p[i + 1] /\ q[i + 1] = p[(i + 1) + 1] /\ i + 1 \in 1 .. Len(p) - 1
      BY <1>2, <2>1
    <3>2. QED
      BY <1>1, <3>1
  <2>7. Chain(context, q, q[1], LastIn(context))
    BY <1>1, <1>2, <2>1, <2>4, <2>5, <2>6 DEF Chain
  <2>8. QED
    BY <2>2, <2>3, <2>7
<1>8. InOrder'
  BY <1>1, <1>4, <1>7 DEF InOrder
<1>9. QED
  BY <1>2, <1>3, <1>4, <1>5, <1>6, <1>7, <1>8 DEF p

(* The transfers of a program have their type.                                *)
LEMMA Typed ==
  ASSUME NEW p, p # <<>> => p \in Seq(Transfers)
  PROVE  \A i \in DOMAIN p : p[i] \in [do : Kinds, sensor : Sensors]
<1>1. CASE p = <<>>
  BY <1>1
<1>2. CASE p # <<>>
  <2>1. p \in Seq(Transfers)
    BY <1>2
  <2>2. \A i \in DOMAIN p : p[i] \in Transfers
    BY <2>1
  <2>3. QED
    BY <2>2 DEF Transfers
<1>3. QED
  BY <1>1, <1>2

(* What the program keeps of a transfer, whatever was in its buffer.          *)
LEMMA Kept ==
  ASSUME TypeOK, NEW t \in Transfers, NEW val \in Values, NEW received \in BOOLEAN,
         received => val.of \in Sensors, Read(t, val, received)
  PROVE  /\ res' \in Readings /\ reading' \in [Sensors -> Readings]
         /\ ina219_offsets' \in [Sensors -> Sensors \cup {"zero"}]
         /\ t.do # "read_voltage" => reading' = reading
         /\ t.do = "read_voltage" =>
              reading' = [reading EXCEPT ![t.sensor] =
                            [res EXCEPT !.voltage = val, !.success = received,
                                        !.suspect = t.sensor \in lost]]
         /\ t.do = "read_current" =>
              res' = [NoReading EXCEPT !.current = val, !.offset = ina219_offsets[t.sensor]]
         /\ t.do \notin {"read_current", "read_voltage"} => res' = res
         /\ t.do # "read_offset" => ina219_offsets' = ina219_offsets
         /\ t.do = "read_offset" =>
              ina219_offsets' = IF received THEN [ina219_offsets EXCEPT ![t.sensor] = val.of]
                                ELSE ina219_offsets
<1>1. t.sensor \in Sensors
  BY DEF Transfers
<1>2. /\ res \in Readings /\ reading \in [Sensors -> Readings]
      /\ ina219_offsets \in [Sensors -> Sensors \cup {"zero"}]
  BY DEF TypeOK
<1>3. NoReading \in Readings
  BY DEF NoReading, Readings, Values
<1>4. CASE t.do = "read_current"
  <2>1. /\ res' = [NoReading EXCEPT !.current = val, !.offset = ina219_offsets[t.sensor]]
        /\ reading' = reading /\ ina219_offsets' = ina219_offsets
    BY <1>4 DEF Read, StoreCurrent
  <2>2. ina219_offsets[t.sensor] \in Sensors \cup {"zero"}
    BY <1>1, <1>2
  <2>3. res' \in Readings
    BY <2>1, <2>2, <1>3 DEF Readings
  <2>4. QED
    BY <1>2, <1>4, <2>1, <2>3
<1>5. CASE t.do = "read_voltage"
  <2> DEFINE new == [res EXCEPT !.voltage = val, !.success = received, !.suspect = t.sensor \in lost]
  <2>1. reading' = [reading EXCEPT ![t.sensor] = new] /\ res' = NoReading /\ ina219_offsets' = ina219_offsets
    BY <1>5 DEF Read, StoreVoltage
  <2>2. (t.sensor \in lost) \in BOOLEAN
    OBVIOUS
  <2>3. new \in Readings
    BY <1>2, <2>2 DEF Readings
  <2> HIDE DEF new
  <2>4. reading' \in [Sensors -> Readings]
    BY <1>1, <1>2, <2>1, <2>3
  <2>5. QED
    BY <1>2, <1>3, <1>5, <2>1, <2>4 DEF new
<1>6. CASE t.do = "read_offset"
  <2>1. /\ ina219_offsets' = IF received THEN [ina219_offsets EXCEPT ![t.sensor] = val.of]
                             ELSE ina219_offsets
        /\ res' = res /\ reading' = reading
    BY <1>6 DEF Read, StoreOffset
  <2>2. ina219_offsets' \in [Sensors -> Sensors \cup {"zero"}]
    BY <1>1, <1>2, <2>1
  <2>3. QED
    BY <1>2, <1>6, <2>1, <2>2
<1>7. CASE t.do \notin {"read_current", "read_voltage", "read_offset"}
  <2>1. res' = res /\ reading' = reading /\ ina219_offsets' = ina219_offsets
    BY <1>7 DEF Read
  <2>2. QED
    BY <1>2, <1>7, <2>1
<1>8. QED
  BY <1>4, <1>5, <1>6, <1>7

(* What was in the buffer, and what a register of a sensor holds.             *)
LEMMA OldBytesType ==
  ASSUME TypeOK, NEW t
  PROVE  OldBytes(t) \in Values
<1>1. res.current \in Values
  BY DEF TypeOK, Readings
<1>2. Garbage \in Values
  BY DEF Values
<1>3. QED
  BY <1>1, <1>2 DEF OldBytes

(* What a register reads as, given what has been written to the sensor.       *)
LEMMA ValueType ==
  ASSUME TypeOK, NEW s \in Sensors, NEW reg \in Registers
  PROVE  /\ Value(s, reg) \in Values /\ Value(s, reg).of = s
         /\ reg = "voltage" => Value(s, reg) = [of |-> s, reg |-> "voltage"]
         /\ s \in calibration /\ s \in configuration => Value(s, reg) = [of |-> s, reg |-> reg]
<1> DEFINE r == IF reg = "current" /\ s \notin calibration \cap configuration THEN "uncalibrated" ELSE reg
<1>1. r \in Registers \cup {"uncalibrated"}
  OBVIOUS
<1>2. reg = "voltage" => r = "voltage"
  OBVIOUS
<1>3. s \in calibration /\ s \in configuration => r = reg
  OBVIOUS
<1>4. Value(s, reg) = [of |-> s, reg |-> r]
  BY DEF Value
<1> HIDE DEF r
<1>5. [of |-> s, reg |-> r] \in Values
  BY <1>1 DEF Values
<1>6. QED
  BY <1>2, <1>3, <1>4, <1>5

(* An acknowledged transfer.                                                  *)
LEMMA AcknowledgedKeeps ==
  ASSUME IInv, Acknowledged
  PROVE  IInv'
<1> DEFINE t == program[1]
           u == program'[1]
           val == Value(t.sensor, pointer[t.sensor])
<1>1. NextTransfer /\ i2c_timed_out = FALSE /\ i2c_timed_out' = FALSE /\ lost' = lost /\ answers' = answers
  BY DEF Acknowledged, NextTransfer, IInv, TypeOK
<1>2. /\ context \in {"boot", "running", "overcurrent"}
      /\ Head(program) = t /\ t \in Transfers /\ Allows(context, t)
      /\ program' = <<>> =>
           t = LastIn(context) /\ context' = IF context = "boot" THEN "running" ELSE context
      /\ program' # <<>> => context' = context /\ u \in Transfers /\ Follows(context, t, u)
      /\ InOrder'
  BY <1>1, Move DEF IInv
<1>3. Write(t) /\ Read(t, val, TRUE)
  BY <1>2 DEF Acknowledged
<1>4. program # <<>>
  BY <1>1 DEF NextTransfer
<1> HIDE DEF t, u
<1>5. t.sensor \in Sensors /\ t.do \in Kinds
  BY <1>2 DEF Transfers
<1>6. /\ pointer \in [Sensors -> Registers] /\ lost \subseteq Sensors
      /\ calibration \subseteq Sensors /\ configuration \subseteq Sensors /\ answers \subseteq Sensors
      /\ ina219_offsets \in [Sensors -> Sensors \cup {"zero"}]
      /\ res \in Readings /\ reading \in [Sensors -> Readings]
  BY DEF IInv, TypeOK
<1>7. /\ val \in Values /\ val.of = t.sensor
      /\ pointer[t.sensor] = "voltage" => val = [of |-> t.sensor, reg |-> "voltage"]
      /\ t.sensor \in calibration /\ t.sensor \in configuration =>
           val = [of |-> t.sensor, reg |-> pointer[t.sensor]]
  BY <1>5, <1>6, ValueType DEF IInv
<1> HIDE DEF val
<1>8. /\ res' \in Readings /\ reading' \in [Sensors -> Readings]
      /\ ina219_offsets' \in [Sensors -> Sensors \cup {"zero"}]
      /\ t.do # "read_voltage" => reading' = reading
      /\ t.do = "read_voltage" =>
           reading' = [reading EXCEPT ![t.sensor] =
                         [res EXCEPT !.voltage = val, !.success = TRUE, !.suspect = t.sensor \in lost]]
      /\ t.do = "read_current" =>
           res' = [NoReading EXCEPT !.current = val, !.offset = ina219_offsets[t.sensor]]
      /\ t.do \notin {"read_current", "read_voltage"} => res' = res
      /\ t.do # "read_offset" => ina219_offsets' = ina219_offsets
      /\ t.do = "read_offset" => ina219_offsets' = [ina219_offsets EXCEPT ![t.sensor] = val.of]
  BY <1>2, <1>3, <1>5, <1>7, Kept DEF IInv
<1>9. /\ calibration'   = IF t.do = "calibrate" THEN calibration \cup {t.sensor} ELSE calibration
      /\ configuration' = IF t.do = "configure" THEN configuration \cup {t.sensor} ELSE configuration
  BY <1>3 DEF Write
<1>10. /\ pointer' \in [Sensors -> Registers]
       /\ t.do = "select_current" => pointer'[t.sensor] = "current"
       /\ t.do = "select_voltage" => pointer'[t.sensor] = "voltage"
  <2> DEFINE new == CASE t.do = "calibrate"      -> "calibration"
                      [] t.do = "configure"      -> "configuration"
                      [] t.do = "select_current" -> "current"
                      [] t.do = "select_voltage" -> "voltage"
                      [] OTHER -> pointer[t.sensor]
  <2>1. pointer' = [pointer EXCEPT ![t.sensor] = new]
    BY <1>3 DEF Write
  <2>2. /\ new \in Registers
        /\ t.do = "select_current" => new = "current"
        /\ t.do = "select_voltage" => new = "voltage"
    BY <1>5, <1>6 DEF Registers
  <2> HIDE DEF new
  <2>3. QED
    BY <1>5, <1>6, <2>1, <2>2
<1>11. TypeOK'
  <2>1. \A i \in DOMAIN program' : program'[i] \in [do : Kinds, sensor : Sensors]
    BY <1>2, Typed DEF InOrder, Chain
  <2>2. calibration' \subseteq Sensors /\ configuration' \subseteq Sensors
    BY <1>5, <1>6, <1>9
  <2>3. context' \in {"boot", "running", "overcurrent", "flat"}
    BY <1>2
  <2>4. QED
    BY <1>1, <1>6, <1>8, <1>10, <2>1, <2>2, <2>3 DEF TypeOK
<1>12. Prepared'
  <2> SUFFICES ASSUME NEW s \in Sensors, s \notin lost
      PROVE /\ (program' # <<>> => CalibratedAt(context', u, s)) => s \in calibration'
            /\ (program' # <<>> => ConfiguredAt(context', u, s)) => s \in configuration'
    BY <1>1 DEF Prepared, u
  <2>1. /\ CalibratedAt(context, t, s) => s \in calibration
        /\ ConfiguredAt(context, t, s) => s \in configuration
    BY <1>1, <1>4 DEF IInv, Prepared, t
  <2>2. CASE program' = <<>>
    <3>1. CalibratedAt(context, t, s) /\ ConfiguredAt(context, t, s)
      BY <1>2, <2>2, Finished
    <3>2. QED
      BY <1>9, <2>1, <3>1
  <2>3. CASE program' # <<>>
    <3>1. /\ CalibratedAt(context, u, s) =>
               CalibratedAt(context, t, s) \/ (t.do = "calibrate" /\ t.sensor = s)
          /\ ConfiguredAt(context, u, s) =>
               ConfiguredAt(context, t, s) \/ (t.do = "configure" /\ t.sensor = s)
      BY <1>2, <2>3, Carry
    <3>2. QED
      BY <1>2, <1>9, <2>1, <2>3, <3>1
  <2>4. QED
    BY <2>2, <2>3
<1>13. Selected'
  <2> SUFFICES ASSUME program' # <<>>, u.sensor \notin lost
      PROVE /\ u.do = "read_current" => pointer'[u.sensor] = "current"
            /\ u.do \in {"select_voltage", "read_voltage"} => Own(res', u.sensor)
            /\ u.do = "read_voltage" => pointer'[u.sensor] = "voltage"
    BY <1>1 DEF Selected, Own, u
  <2>1. Follows(context, t, u)
    BY <1>2
  <2>2. ASSUME u.do = "read_current" PROVE t.do = "select_current" /\ u.sensor = t.sensor
    BY <1>5, <2>1, <2>2 DEF Follows, Transfer, Kinds
  <2>3. ASSUME u.do = "select_voltage" PROVE t.do = "read_current" /\ u.sensor = t.sensor
    BY <1>5, <2>1, <2>3 DEF Follows, Transfer, Kinds
  <2>4. ASSUME u.do = "read_voltage" PROVE t.do = "select_voltage" /\ u.sensor = t.sensor
    BY <1>5, <2>1, <2>4 DEF Follows, Transfer, Kinds
  <2>5. ASSUME t.sensor \notin lost
        PROVE  /\ t.do = "read_current" => pointer[t.sensor] = "current"
               /\ t.do = "select_voltage" => Own(res, t.sensor)
    BY <1>1, <1>4, <2>5 DEF IInv, Selected, t
  <2>6. ASSUME u.do = "select_voltage" PROVE Own(res', u.sensor)
    <3>1. t.do = "read_current" /\ u.sensor = t.sensor /\ t.sensor \notin lost
      BY <2>3, <2>6
    <3>2. context # "boot"
      BY <1>2, <3>1 DEF Allows
    <3>3. CalibratedAt(context, t, t.sensor) /\ ConfiguredAt(context, t, t.sensor)
      BY <3>1, <3>2 DEF CalibratedAt, ConfiguredAt, Passed
    <3>4. t.sensor \in calibration /\ t.sensor \in configuration
      BY <1>1, <1>5, <3>1, <3>3 DEF IInv, Prepared, t
    <3>5. val = [of |-> t.sensor, reg |-> "current"]
      BY <1>7, <2>5, <3>1, <3>4
    <3>6. ina219_offsets[t.sensor] \in {"zero", t.sensor}
      BY <1>5 DEF IInv, Nulled
    <3>7. res' = [NoReading EXCEPT !.current = val, !.offset = ina219_offsets[t.sensor]]
      BY <1>8, <3>1
    <3>8. res'.current = val /\ res'.offset = ina219_offsets[t.sensor]
      BY <3>7 DEF NoReading
    <3>9. QED
      BY <3>1, <3>5, <3>6, <3>8 DEF Own
  <2>7. ASSUME u.do = "read_voltage" PROVE Own(res', u.sensor) /\ pointer'[u.sensor] = "voltage"
    BY <1>8, <1>10, <2>4, <2>5, <2>7
  <2>8. ASSUME u.do = "read_current" PROVE pointer'[u.sensor] = "current"
    BY <1>10, <2>2, <2>8
  <2>9. QED
    BY <2>6, <2>7, <2>8
<1>14. Nulled'
  <2> SUFFICES ASSUME NEW s \in Sensors PROVE ina219_offsets'[s] \in {"zero", s}
    BY DEF Nulled
  <2>1. ina219_offsets[s] \in {"zero", s}
    BY DEF IInv, Nulled
  <2>2. QED
    BY <1>5, <1>6, <1>7, <1>8, <2>1
<1>15. Measured'
  <2> SUFFICES ASSUME NEW s \in Sensors, reading'[s].success, ~reading'[s].suspect
      PROVE Own(reading'[s], s) /\ reading'[s].voltage = [of |-> s, reg |-> "voltage"]
    BY DEF Measured, Own
  <2>1. CASE reading'[s] = reading[s]
    BY <2>1 DEF IInv, Measured, Own
  <2>2. CASE reading'[s] # reading[s]
    <3>1. t.do = "read_voltage" /\ t.sensor = s
      BY <1>5, <1>6, <1>8, <2>2
    <3> DEFINE new == [res EXCEPT !.voltage = val, !.success = TRUE, !.suspect = s \in lost]
    <3>2. reading'[s] = new
      BY <1>5, <1>6, <1>8, <3>1
    <3>3. /\ new.suspect = (s \in lost) /\ new.voltage = val
          /\ new.current = res.current /\ new.offset = res.offset
      BY <1>6 DEF Readings
    <3> HIDE DEF new
    <3>4. s \notin lost
      BY <3>2, <3>3
    <3>5. Own(res, s) /\ pointer[s] = "voltage"
      BY <1>1, <1>4, <3>1, <3>4 DEF IInv, Selected, t
    <3>6. QED
      BY <1>7, <3>1, <3>2, <3>3, <3>5 DEF Own
  <2>3. QED
    BY <2>1, <2>2
<1>16. BatteryFirst'
  <2>1. CASE context = "boot"
    <3>1. t.do # "read_voltage"
      BY <1>2, <2>1 DEF Allows
    <3>2. reading' = reading /\ \A s \in Sensors : ~reading[s].success
      BY <1>8, <2>1, <3>1 DEF IInv, BatteryFirst
    <3>3. context' = "boot" \/ (context' = "running" /\ program' = <<>>)
      BY <1>2, <2>1
    <3>4. QED
      BY <3>2, <3>3 DEF BatteryFirst, Sensors
  <2>2. CASE context = "overcurrent"
    <3>1. context' = "overcurrent"
      BY <1>2, <2>2
    <3>2. QED
      BY <3>1 DEF BatteryFirst
  <2>3. CASE context = "running"
    <3>1. context' = "running"
      BY <1>2, <2>3
    <3>2. t.sensor = "REG" => reading'["BATTERY"] = reading["BATTERY"]
      BY <1>6, <1>8 DEF Sensors
    <3>3. t.sensor = "REG" /\ t.do \notin {"calibrate", "configure"} => reading["BATTERY"].success
      BY <1>1, <1>4, <2>3 DEF IInv, BatteryFirst, t
    <3>4. CASE program' = <<>>
      <4>1. t.sensor = "REG" /\ t.do = "read_voltage"
        BY <1>2, <2>3, <3>4 DEF LastIn, Transfer
      <4>2. QED
        BY <3>1, <3>2, <3>3, <3>4, <4>1 DEF BatteryFirst
    <3>5. CASE program' # <<>>
      <4> SUFFICES ASSUME u.sensor = "REG", u.do \notin {"calibrate", "configure"}
          PROVE reading'["BATTERY"].success
        BY <3>1, <3>5 DEF BatteryFirst, u
      <4>1. Follows(context, t, u)
        BY <1>2, <3>5
      <4>2. \/ t.sensor = "REG" /\ t.do \notin {"calibrate", "configure"}
            \/ t.sensor = "BATTERY" /\ t.do = "read_voltage"
        BY <1>2, <1>5, <2>3, <4>1 DEF Follows, Transfer, Kinds, Sensors, Allows
      <4>3. CASE t.sensor = "BATTERY" /\ t.do = "read_voltage"
        <5>1. reading'["BATTERY"] =
                [res EXCEPT !.voltage = val, !.success = TRUE, !.suspect = "BATTERY" \in lost]
          BY <1>6, <1>8, <4>3 DEF Sensors
        <5>2. QED
          BY <1>6, <5>1 DEF Readings
      <4>4. QED
        BY <3>2, <3>3, <4>2, <4>3
    <3>6. QED
      BY <3>4, <3>5
  <2>4. QED
    BY <1>2, <2>1, <2>2, <2>3
<1>17. QED
  BY <1>2, <1>11, <1>12, <1>13, <1>14, <1>15, <1>16 DEF IInv

(* A transfer that is refused, or skipped after another has been.             *)
LEMMA FailedKeeps ==
  ASSUME IInv, NextTransfer, Read(program[1], OldBytes(program[1]), FALSE),
         i2c_timed_out' = TRUE, lost' \subseteq lost,
         UNCHANGED <<calibration, configuration, pointer>>
  PROVE  IInv'
<1> DEFINE t == program[1]
           u == program'[1]
           val == OldBytes(t)
<1>1. /\ context \in {"boot", "running", "overcurrent"}
      /\ t \in Transfers /\ Allows(context, t)
      /\ program' = <<>> =>
           t = LastIn(context) /\ context' = IF context = "boot" THEN "running" ELSE context
      /\ program' # <<>> => context' = context
      /\ InOrder'
  BY Move DEF IInv
<1>2. Read(t, val, FALSE) /\ val \in Values
  BY OldBytesType DEF IInv
<1> HIDE DEF t, u, val
<1>3. t.sensor \in Sensors /\ t.do \in Kinds
  BY <1>1 DEF Transfers
<1>4. /\ pointer \in [Sensors -> Registers] /\ lost \subseteq Sensors
      /\ calibration \subseteq Sensors /\ configuration \subseteq Sensors /\ answers \subseteq Sensors
      /\ ina219_offsets \in [Sensors -> Sensors \cup {"zero"}]
      /\ res \in Readings /\ reading \in [Sensors -> Readings]
  BY DEF IInv, TypeOK
<1>5. /\ res' \in Readings /\ reading' \in [Sensors -> Readings]
      /\ ina219_offsets' = ina219_offsets
      /\ t.do # "read_voltage" => reading' = reading
      /\ t.do = "read_voltage" =>
           reading' = [reading EXCEPT ![t.sensor] =
                         [res EXCEPT !.voltage = val, !.success = FALSE, !.suspect = t.sensor \in lost]]
  BY <1>1, <1>2, Kept DEF IInv
<1>6. \A s \in Sensors : reading'[s].success => reading'[s] = reading[s]
  <2> SUFFICES ASSUME NEW s \in Sensors, reading'[s] # reading[s] PROVE ~reading'[s].success
    OBVIOUS
  <2> DEFINE new == [res EXCEPT !.voltage = val, !.success = FALSE, !.suspect = t.sensor \in lost]
  <2>1. new.success = FALSE
    BY <1>4 DEF Readings
  <2> HIDE DEF new
  <2>2. reading'[s] = new
    BY <1>3, <1>4, <1>5 DEF new
  <2>3. QED
    BY <2>1, <2>2
<1>7. TypeOK'
  <2>1. \A i \in DOMAIN program' : program'[i] \in [do : Kinds, sensor : Sensors]
    BY <1>1, Typed DEF InOrder, Chain
  <2>2. context' \in {"boot", "running", "overcurrent", "flat"}
    BY <1>1
  <2>3. answers' = answers /\ lost' \subseteq Sensors
    BY <1>4 DEF NextTransfer
  <2>4. QED
    BY <1>4, <1>5, <2>1, <2>2, <2>3 DEF TypeOK
<1>8. Prepared' /\ Selected'
  BY DEF Prepared, Selected
<1>9. Nulled'
  BY <1>5 DEF IInv, Nulled
<1>10. Measured'
  <2> SUFFICES ASSUME NEW s \in Sensors, reading'[s].success, ~reading'[s].suspect
      PROVE Own(reading'[s], s) /\ reading'[s].voltage = [of |-> s, reg |-> "voltage"]
    BY DEF Measured, Own
  <2>1. reading'[s] = reading[s]
    BY <1>6
  <2>2. QED
    BY <2>1 DEF IInv, Measured, Own
<1>11. BatteryFirst'
  <2>1. CASE context = "boot"
    <3>1. \A s \in Sensors : ~reading[s].success
      BY <2>1 DEF IInv, BatteryFirst
    <3>2. \A s \in Sensors : ~reading'[s].success
      BY <1>6, <3>1
    <3>3. context' = "boot" \/ (context' = "running" /\ program' = <<>>)
      BY <1>1, <2>1
    <3>4. QED
      BY <3>2, <3>3 DEF BatteryFirst, Sensors
  <2>2. CASE context = "overcurrent"
    BY <1>1, <2>2 DEF BatteryFirst
  <2>3. CASE context = "running"
    <3>1. context' = "running"
      BY <1>1, <2>3
    <3>2. CASE program' = <<>>
      <4>1. t.sensor = "REG" /\ t.do = "read_voltage"
        BY <1>1, <2>3, <3>2 DEF LastIn, Transfer
      <4> DEFINE new == [res EXCEPT !.voltage = val, !.success = FALSE, !.suspect = t.sensor \in lost]
      <4>2. new.success = FALSE
        BY <1>4 DEF Readings
      <4> HIDE DEF new
      <4>3. reading' = [reading EXCEPT !["REG"] = new]
        BY <1>5, <4>1 DEF new
      <4>4. ~reading'["REG"].success
        BY <1>4, <4>2, <4>3 DEF Sensors
      <4>5. QED
        BY <3>1, <3>2, <4>4 DEF BatteryFirst
    <3>3. CASE program' # <<>>
      BY <3>1, <3>3 DEF BatteryFirst
    <3>4. QED
      BY <3>2, <3>3
  <2>4. QED
    BY <1>1, <2>1, <2>2, <2>3
<1>12. QED
  BY <1>1, <1>7, <1>8, <1>9, <1>10, <1>11 DEF IInv

LEMMA RefusedKeeps ==
  ASSUME IInv, Refused
  PROVE  IInv'
<1>1. Head(program) = program[1]
  BY Move DEF IInv, Refused
<1>2. i2c_timed_out' = TRUE /\ lost' \subseteq lost
  BY DEF Refused, Fail
<1>3. QED
  BY <1>1, <1>2, FailedKeeps DEF Refused

LEMMA SkippedKeeps ==
  ASSUME IInv, Skipped
  PROVE  IInv'
<1>1. Head(program) = program[1]
  BY Move DEF IInv, Skipped
<1>2. i2c_timed_out' = TRUE /\ lost' \subseteq lost
  BY DEF Skipped, IInv, TypeOK
<1>3. QED
  BY <1>1, <1>2, FailedKeeps DEF Skipped

-----------------------------------------------------------------------------
(***************************************************************************)
(* The rounds, the end of the measurements, and the sensors themselves.    *)
(***************************************************************************)

(* A round starts where everything it needs has been done.                    *)
LEMMA RoundKeeps ==
  ASSUME IInv, NEW m, Round(m), context \in {"running", "overcurrent"},
         Chain(context, m, Transfer("select_current", "BATTERY"), LastIn(context))
  PROVE  IInv'
<1>1. /\ program = <<>> /\ program' = Recover \o m /\ i2c_timed_out' = FALSE
      /\ answers' = answers /\ calibration' = calibration /\ configuration' = configuration
      /\ pointer' = pointer /\ ina219_offsets' = ina219_offsets /\ res' = res /\ reading' = reading
      /\ context' = context /\ lost' = lost
  BY DEF Round, sensors, reset_i2c_watchdog
<1>2. /\ Chain(context, program', program'[1], LastIn(context))
      /\ i2c_timed_out => program'[1] = Transfer("calibrate", "BATTERY")
      /\ ~i2c_timed_out => program'[1] = Transfer("select_current", "BATTERY")
  BY <1>1, Rounds
<1>3. InOrder'
  BY <1>1, <1>2 DEF InOrder
<1>4. TypeOK'
  <2>1. \A i \in DOMAIN program' : program'[i] \in [do : Kinds, sensor : Sensors]
    BY <1>2, Typed DEF Chain
  <2>2. QED
    BY <1>1, <2>1 DEF IInv, TypeOK
<1>5. Prepared'
  <2>1. CASE i2c_timed_out
    <3>1. program' # <<>> /\ program'[1].do = "calibrate" /\ program'[1].sensor = "BATTERY"
      BY <1>2, <2>1 DEF Chain, Transfer
    <3>2. \A s \in Sensors : ~CalibratedAt(context, program'[1], s) /\ ~ConfiguredAt(context, program'[1], s)
      BY <3>1 DEF CalibratedAt, ConfiguredAt
    <3>3. QED
      BY <1>1, <3>1, <3>2 DEF Prepared
  <2>2. CASE ~i2c_timed_out
    BY <1>1, <2>2 DEF IInv, Prepared
  <2>3. QED
    BY <2>1, <2>2
<1>6. Selected'
  <2>1. program'[1].do \in {"calibrate", "select_current"}
    BY <1>2 DEF Transfer
  <2>2. QED
    BY <2>1 DEF Selected
<1>7. Nulled' /\ Measured'
  BY <1>1 DEF IInv, Nulled, Measured, Own
<1>8. BatteryFirst'
  <2>1. program'[1].sensor = "BATTERY" /\ program' # <<>>
    BY <1>2 DEF Transfer, Chain
  <2>2. QED
    BY <1>1, <2>1 DEF BatteryFirst
<1>9. QED
  BY <1>3, <1>4, <1>5, <1>6, <1>7, <1>8 DEF IInv

LEMMA SlowTickKeeps ==
  ASSUME IInv, SlowTick
  PROVE  IInv'
<1> DEFINE b == measure_current_sense("BATTERY")
           r == measure_current_sense("REG")
<1>1. context = "running" /\ Round(b \o r)
  BY DEF SlowTick
<1>2. /\ Chain("running", b, Transfer("select_current", "BATTERY"), Transfer("read_voltage", "BATTERY"))
      /\ Chain("running", r, Transfer("select_current", "REG"), Transfer("read_voltage", "REG"))
  BY Measuring DEF Sensors
<1>3. Follows("running", Transfer("read_voltage", "BATTERY"), Transfer("select_current", "REG"))
  BY DEF Follows, Transfer
<1> HIDE DEF b, r
<1>4. Chain("running", b \o r, Transfer("select_current", "BATTERY"), Transfer("read_voltage", "REG"))
  BY <1>2, <1>3, Join
<1>5. LastIn("running") = Transfer("read_voltage", "REG")
  BY DEF LastIn
<1>6. QED
  BY <1>1, <1>4, <1>5, RoundKeeps

LEMMA FaultRoundKeeps ==
  ASSUME IInv, FaultRound
  PROVE  IInv'
<1> DEFINE b == measure_current_sense("BATTERY")
<1>1. context = "overcurrent" /\ Round(b)
  BY DEF FaultRound
<1>2. Chain("overcurrent", b, Transfer("select_current", "BATTERY"), Transfer("read_voltage", "BATTERY"))
  BY Measuring DEF Sensors
<1> HIDE DEF b
<1>3. LastIn("overcurrent") = Transfer("read_voltage", "BATTERY")
  BY DEF LastIn
<1>4. QED
  BY <1>1, <1>2, <1>3, RoundKeeps

LEMMA ShutdownKeeps ==
  ASSUME IInv, NEW c \in {"overcurrent", "flat"}, Shutdown(c)
  PROVE  IInv'
<1>1. /\ program = <<>> /\ program' = <<>> /\ i2c_timed_out' = i2c_timed_out
      /\ answers' = answers /\ calibration' = calibration /\ configuration' = configuration
      /\ pointer' = pointer /\ ina219_offsets' = ina219_offsets /\ res' = res /\ reading' = reading
      /\ context' = c /\ lost' = lost
  BY DEF Shutdown, sensors
<1>2. TypeOK'
  BY <1>1 DEF IInv, TypeOK
<1>3. InOrder' /\ Prepared' /\ Selected' /\ Nulled' /\ Measured' /\ BatteryFirst'
  BY <1>1 DEF IInv, InOrder, Prepared, Selected, Nulled, Measured, Own, BatteryFirst
<1>4. QED
  BY <1>2, <1>3 DEF IInv

(* The sensors' answers are in no part of the invariant but their type.       *)
LEMMA SulkKeeps ==
  ASSUME IInv, NEW s \in Sensors, Sulk(s)
  PROVE  IInv'
<1>1. /\ program' = program /\ i2c_timed_out' = i2c_timed_out
      /\ calibration' = calibration /\ configuration' = configuration
      /\ pointer' = pointer /\ ina219_offsets' = ina219_offsets /\ res' = res /\ reading' = reading
      /\ context' = context /\ lost' = lost
  BY DEF Sulk
<1>2. answers' \subseteq Sensors
  BY DEF Sulk, IInv, TypeOK
<1>3. TypeOK'
  BY <1>1, <1>2 DEF IInv, TypeOK
<1>4. InOrder' /\ Nulled' /\ Measured' /\ BatteryFirst'
  BY <1>1 DEF IInv, InOrder, Nulled, Measured, Own, BatteryFirst
<1>5. Prepared' /\ Selected'
  BY <1>1 DEF IInv, Prepared, Selected, Own
<1>6. QED
  BY <1>3, <1>4, <1>5 DEF IInv

(* The invariant promises nothing of a sensor that has lost its registers.    *)
LEMMA LoseRegistersKeeps ==
  ASSUME IInv, NEW s \in Sensors, LoseRegisters(s)
  PROVE  IInv'
<1>1. /\ program' = program /\ i2c_timed_out' = i2c_timed_out /\ answers' = answers
      /\ calibration' = calibration \ {s} /\ configuration' = configuration \ {s}
      /\ ina219_offsets' = ina219_offsets /\ res' = res /\ reading' = reading
      /\ context' = context /\ lost' = lost \cup {s}
      /\ pointer' = [pointer EXCEPT ![s] = "configuration"]
  BY DEF LoseRegisters
<1>2. TypeOK'
  <2>1. /\ calibration' \subseteq Sensors /\ configuration' \subseteq Sensors /\ lost' \subseteq Sensors
        /\ pointer' \in [Sensors -> Registers]
    BY <1>1 DEF IInv, TypeOK, Registers
  <2>2. QED
    BY <1>1, <2>1 DEF IInv, TypeOK
<1>3. InOrder' /\ Nulled' /\ Measured' /\ BatteryFirst'
  BY <1>1 DEF IInv, InOrder, Nulled, Measured, Own, BatteryFirst
<1>4. Prepared'
  BY <1>1 DEF IInv, Prepared
<1>5. Selected'
  <2>1. \A x \in Sensors \ lost' : x # s /\ pointer'[x] = pointer[x]
    BY <1>1 DEF IInv, TypeOK
  <2>2. program # <<>> => program[1].sensor \in Sensors
    <3>1. \A p \in Seq(Transfers) : Len(p) > 0 => p[1] \in Transfers
      OBVIOUS
    <3>2. program # <<>> => program[1] \in Transfers
      BY <3>1 DEF IInv, InOrder, Chain
    <3>3. QED
      BY <3>2 DEF Transfers
  <2>3. QED
    BY <1>1, <2>1, <2>2 DEF IInv, Selected, Own
<1>6. QED
  BY <1>2, <1>3, <1>4, <1>5 DEF IInv

-----------------------------------------------------------------------------
(***************************************************************************)
(* The theorems.                                                           *)
(***************************************************************************)

LEMMA InitIInv == Init => IInv
<1> SUFFICES ASSUME Init PROVE IInv
  OBVIOUS
<1>1. Chain("boot", program, program[1], LastIn("boot")) /\ program[1] = Transfer("calibrate", "BATTERY")
  <2>1. ("boot" = "boot") = TRUE
    OBVIOUS
  <2>2. Chain("boot", init_i2c_sensors(TRUE), Transfer("calibrate", "BATTERY"), Transfer("read_offset", "REG"))
    BY <2>1, SettingUp
  <2>3. LastIn("boot") = Transfer("read_offset", "REG")
    BY DEF LastIn
  <2>4. program = init_i2c_sensors(TRUE)
    BY DEF Init
  <2>5. QED
    BY <2>2, <2>3, <2>4 DEF Chain
<1>2. InOrder
  BY <1>1 DEF Init, InOrder
<1>3. TypeOK
  <2>1. \A i \in DOMAIN program : program[i] \in [do : Kinds, sensor : Sensors]
    BY <1>1, Typed DEF Chain
  <2>2. NoReading \in Readings
    BY DEF NoReading, Readings, Values
  <2>3. QED
    BY <2>1, <2>2 DEF Init, TypeOK, Registers
<1>4. program # <<>> /\ program[1].do = "calibrate" /\ program[1].sensor = "BATTERY"
  BY <1>1 DEF Chain, Transfer
<1>5. Prepared
  BY <1>4 DEF Prepared, CalibratedAt, ConfiguredAt
<1>6. Selected
  BY <1>4 DEF Selected
<1>7. Nulled /\ Measured /\ BatteryFirst
  BY DEF Init, Nulled, Measured, BatteryFirst, NoReading
<1>8. QED
  BY <1>2, <1>3, <1>5, <1>6, <1>7 DEF IInv

LEMMA NextIInv == IInv /\ [Next]_vars => IInv'
<1> SUFFICES ASSUME IInv, [Next]_vars PROVE IInv'
  OBVIOUS
<1>1. CASE BusStep
  BY <1>1, AcknowledgedKeeps, RefusedKeeps, SkippedKeeps DEF BusStep
<1>2. CASE SlowTick
  BY <1>2, SlowTickKeeps
<1>3. CASE FaultRound
  BY <1>3, FaultRoundKeeps
<1>4. CASE set_global_overcurrent
  BY <1>4, ShutdownKeeps DEF set_global_overcurrent
<1>5. CASE handle_uvlo
  BY <1>5, ShutdownKeeps DEF handle_uvlo
<1>6. CASE Off \/ UNCHANGED vars
  <2>1. UNCHANGED vars
    BY <1>6 DEF Off
  <2>2. /\ program' = program /\ i2c_timed_out' = i2c_timed_out /\ answers' = answers
        /\ calibration' = calibration /\ configuration' = configuration
        /\ pointer' = pointer /\ ina219_offsets' = ina219_offsets /\ res' = res /\ reading' = reading
        /\ context' = context /\ lost' = lost
    BY <2>1 DEF vars, sensors
  <2>3. TypeOK'
    BY <2>2 DEF IInv, TypeOK
  <2>4. InOrder' /\ Nulled' /\ Measured' /\ BatteryFirst'
    BY <2>2 DEF IInv, InOrder, Nulled, Measured, Own, BatteryFirst
  <2>5. Prepared' /\ Selected'
    BY <2>2 DEF IInv, Prepared, Selected, Own
  <2>6. QED
    BY <2>3, <2>4, <2>5 DEF IInv
<1>7. CASE \E s \in Sensors : Sulk(s) \/ LoseRegisters(s)
  BY <1>7, SulkKeeps, LoseRegistersKeeps
<1>8. QED
  BY <1>1, <1>2, <1>3, <1>4, <1>5, <1>6, <1>7 DEF Next

LEMMA Invariance == Spec => []IInv
<1>1. QED
  BY InitIInv, NextIInv, PTL DEF Spec

(* Every variable of the driver keeps its type.                               *)
THEOREM TypeCorrectness == Spec => []TypeOK
<1>1. IInv => TypeOK
  BY DEF IInv
<1>2. QED
  BY <1>1, Invariance, PTL

(* A reading that counts as a success (i2c.c, measure_current_sense) is its   *)
(* own sensor's current and voltage, nulled with that sensor's offset: no     *)
(* failed transfer leaves bytes of another register or sensor in it.          *)
THEOREM SuccessHasItsOwnValues == Spec => []SuccessIsMeasured
<1>1. IInv => SuccessIsMeasured
  <2> SUFFICES ASSUME IInv, NEW s \in Sensors, reading[s].success, ~reading[s].suspect
      PROVE /\ reading[s].current.of = s /\ reading[s].current.reg \in {"current", "uncalibrated"}
            /\ reading[s].voltage.of = s /\ reading[s].voltage.reg = "voltage"
            /\ reading[s].offset \in {"zero", s}
    BY DEF SuccessIsMeasured
  <2>1. Own(reading[s], s) /\ reading[s].voltage = [of |-> s, reg |-> "voltage"]
    BY DEF IInv, Measured
  <2>2. QED
    BY <2>1 DEF Own
<1>2. QED
  BY <1>1, Invariance, PTL

(* The current of a successful reading comes from a sensor that was           *)
(* calibrated and configured when it was read, also after a failed start-up.  *)
THEOREM SuccessHasCalibration == Spec => []SuccessIsCalibrated
<1>1. IInv => SuccessIsCalibrated
  <2> SUFFICES ASSUME IInv, NEW s \in Sensors, reading[s].success, ~reading[s].suspect
      PROVE reading[s].current.reg # "uncalibrated"
    BY DEF SuccessIsCalibrated
  <2>1. Own(reading[s], s)
    BY DEF IInv, Measured
  <2>2. QED
    BY <2>1 DEF Own
<1>2. QED
  BY <1>1, Invariance, PTL

(* Between two rounds the regulator's reading is good only if the battery's   *)
(* is, because the battery is measured first and a failure silences the rest. *)
THEOREM RegulatorNeedsBattery == Spec => []RegulatorAfterBattery
<1>1. IInv => RegulatorAfterBattery
  BY DEF IInv, BatteryFirst, RegulatorAfterBattery
<1>2. QED
  BY <1>1, Invariance, PTL
=============================================================================
