------------------------------ MODULE HostProofs ------------------------------
(***************************************************************************)
(* Proofs about the path of a command, modules UsbLines and Commands.      *)
(*                                                                         *)
(* UsbLines, for every length of the buffer, every set of packets and every*)
(* replies: types, what the NUL behind an abandoned line hides, and that   *)
(* the callback implements the stream of lines.                            *)
(*                                                                         *)
(* Commands, in the second half, for every set of lines and every          *)
(* meaning of their words: types, what a refused line leaves alone, and    *)
(* what DELAY_COEFF:GET? answers.  The two are proved side by side; neither*)
(* relies on the other.                                                    *)
(***************************************************************************)
EXTENDS UsbLines, Commands, FiniteSetTheorems, SequenceTheorems, WellFoundedInduction, TLAPS

Text    == Bytes \cup {NUL}
Buffers == [1 .. USB_MSG_MAXLEN -> Text]

------------------------------------------------------------------------------
(***************************************************************************)
(* Searching.                                                              *)
(***************************************************************************)

(* The least element of a set of numbers is what Min chooses.                 *)
LEMMA Smallest ==
  ASSUME NEW S \in SUBSET Nat, S # {}
  PROVE  Min(S) \in S /\ \A i \in S : Min(S) <= i
<1> DEFINE R == OpToRel(<, Nat)
<1>1. \A x, y \in Nat : <<x, y>> \in R <=> x < y
  BY DEF OpToRel
<1>2. IsWellFoundedOn(R, Nat)
  BY NatLessThanWellFounded
<1> HIDE DEF R
<1>3. PICK n \in S : \A m \in S : ~(<<m, n>> \in R)
  <2>1. S \subseteq Nat
    OBVIOUS
  <2>2. QED
    BY <1>2, <2>1, WFMin, Zenon
<1>4. ASSUME NEW m \in S PROVE n <= m
  <2>1. m \in Nat /\ n \in Nat /\ ~(<<m, n>> \in R)
    BY <1>3
  <2>2. ~(m < n)
    BY <1>1, <2>1, Zenon
  <2>3. QED
    BY <2>1, <2>2
<1>5. \E k \in S : \A m \in S : k <= m
  BY <1>4
<1>6. QED
  BY <1>5 DEF Min

(* k is the place of the first byte of b that is in S, or 0 if there is none. *)
IsFirst(b, S, k) ==
  IF \A i \in 1 .. Len(b) : b[i] \notin S THEN k = 0
  ELSE k \in 1 .. Len(b) /\ b[k] \in S /\ \A i \in 1 .. k - 1 : b[i] \notin S

(* The least of the places where a byte of S is, is the first of them.        *)
LEMMA FirstIsLeast ==
  ASSUME NEW b, Len(b) \in Nat, NEW S, NEW k,
         LET I == {i \in 1 .. Len(b) : b[i] \in S} IN k = IF I # {} THEN Min(I) ELSE 0
  PROVE  IsFirst(b, S, k)
<1> DEFINE I == {i \in 1 .. Len(b) : b[i] \in S}
<1>1. k = IF I # {} THEN Min(I) ELSE 0
  OBVIOUS
<1>2. I \in SUBSET Nat
  OBVIOUS
<1>3. CASE I = {}
  BY <1>1, <1>3 DEF IsFirst
<1>4. CASE I # {}
  <2>1. k \in I /\ \A i \in I : k <= i
    BY <1>1, <1>2, <1>4, Smallest
  <2>2. QED
    BY <2>1 DEF IsFirst
<1>5. QED
  BY <1>3, <1>4

(* The size of the buffer, and the bytes that the code looks for.             *)
LEMMA BufferFacts ==
  /\ USB_MSG_MAXLEN \in Nat /\ USB_MSG_MAXLEN >= 2 /\ Limit = USB_MSG_MAXLEN - 1
  /\ LF \in Bytes /\ CR \in Bytes /\ COLON \in Bytes /\ NUL \notin Bytes
  /\ \A b \in Buffers : b \in Seq(Text) /\ Len(b) = USB_MSG_MAXLEN
<1>1. USB_MSG_MAXLEN \in Nat /\ USB_MSG_MAXLEN >= 2 /\ Limit = USB_MSG_MAXLEN - 1
  BY UsbLinesAssumption DEF Limit
<1>2. LF \in Bytes /\ CR \in Bytes /\ COLON \in Bytes /\ NUL \notin Bytes
  BY UsbLinesAssumption
<1>3. ASSUME NEW b \in Buffers PROVE b \in Seq(Text) /\ Len(b) = USB_MSG_MAXLEN
  BY <1>1 DEF Buffers
<1>4. QED
  BY <1>1, <1>2, <1>3

(* strchr finds the first of a byte, if no NUL comes before it.               *)
LEMMA StrchrFinds ==
  ASSUME NEW b \in Buffers, NEW c \in Bytes
  PROVE  /\ strchr(b, c) \in 0 .. USB_MSG_MAXLEN
         /\ strchr(b, c) # 0 => /\ b[strchr(b, c)] = c
                                /\ \A i \in 1 .. strchr(b, c) - 1 : b[i] \notin {c, NUL}
         /\ strchr(b, c) = 0 => \A i \in 1 .. USB_MSG_MAXLEN :
                                  b[i] = c => \E j \in 1 .. i - 1 : b[j] = NUL
<1> DEFINE k == SelectInSeq(b, LAMBDA x : x \in {c, NUL})
           n == strchr(b, c)
<1>1. Len(b) = USB_MSG_MAXLEN /\ USB_MSG_MAXLEN \in Nat /\ c # NUL
  BY BufferFacts
<1>2. IsFirst(b, {c, NUL}, k)
  <2> DEFINE I == {i \in 1 .. Len(b) : b[i] \in {c, NUL}}
  <2>1. k = IF I # {} THEN Min(I) ELSE 0
    BY DEF SelectInSeq
  <2> HIDE DEF k
  <2>2. QED
    BY <1>1, <2>1, FirstIsLeast
<1>3. n = IF k > 0 /\ b[k] = c THEN k ELSE 0
  BY DEF strchr
<1> HIDE DEF k, n
<1>4. k \in 0 .. USB_MSG_MAXLEN
  BY <1>1, <1>2 DEF IsFirst
<1>5. n # 0 => b[n] = c /\ \A i \in 1 .. n - 1 : b[i] \notin {c, NUL}
  BY <1>1, <1>2, <1>3, <1>4 DEF IsFirst
<1>6. ASSUME n = 0, NEW i \in 1 .. USB_MSG_MAXLEN, b[i] = c
      PROVE  \E j \in 1 .. i - 1 : b[j] = NUL
  <2>1. k \in 1 .. USB_MSG_MAXLEN /\ b[k] \in {c, NUL} /\ ~(i < k)
    BY <1>1, <1>2, <1>6 DEF IsFirst
  <2>2. b[k] = NUL
    BY <1>3, <1>6, <2>1
  <2>3. k # i
    BY <1>1, <1>6, <2>2
  <2>4. k \in 1 .. i - 1
    BY <2>1, <2>3
  <2>5. QED
    BY <2>2, <2>4
<1>7. n = 0 => \A i \in 1 .. USB_MSG_MAXLEN : b[i] = c => \E j \in 1 .. i - 1 : b[j] = NUL
  BY <1>6
<1>8. n \in 0 .. USB_MSG_MAXLEN
  BY <1>1, <1>3, <1>4
<1>9. QED
  BY <1>5, <1>7, <1>8, Zenon DEF n

(* With a NUL before the first of them, it finds none.                        *)
LEMMA StrchrStops ==
  ASSUME NEW b \in Buffers, NEW c \in Bytes, NEW k \in 1 .. USB_MSG_MAXLEN,
         b[k] = NUL, \A i \in 1 .. k - 1 : b[i] # c
  PROVE  strchr(b, c) = 0
<1> DEFINE n == strchr(b, c)
<1>1. n \in 0 .. USB_MSG_MAXLEN /\ c # NUL /\ USB_MSG_MAXLEN \in Nat
  BY StrchrFinds, BufferFacts
<1>2. n # 0 => b[n] = c /\ \A i \in 1 .. n - 1 : b[i] \notin {c, NUL}
  BY StrchrFinds
<1> HIDE DEF n
<1>3. n = 0
  BY <1>1, <1>2
<1>4. QED
  BY <1>3 DEF n

(* Which is the first is not in doubt.                                        *)
LEMMA StrchrIs ==
  ASSUME NEW b \in Buffers, NEW c \in Bytes, NEW k \in 1 .. USB_MSG_MAXLEN,
         b[k] = c, \A i \in 1 .. k - 1 : b[i] \notin {c, NUL}
  PROVE  strchr(b, c) = k
<1> DEFINE n == strchr(b, c)
<1>1. n \in 0 .. USB_MSG_MAXLEN /\ c # NUL /\ USB_MSG_MAXLEN \in Nat
  BY StrchrFinds, BufferFacts
<1>2. n # 0 => b[n] = c /\ \A i \in 1 .. n - 1 : b[i] \notin {c, NUL}
  BY StrchrFinds
<1>3. n = 0 => \A i \in 1 .. USB_MSG_MAXLEN : b[i] = c => \E j \in 1 .. i - 1 : b[j] = NUL
  BY StrchrFinds
<1> HIDE DEF n
<1>4. n # 0
  BY <1>1, <1>3
<1>5. n = k
  BY <1>1, <1>2, <1>4
<1>6. QED
  BY <1>5 DEF n

(* The string in a buffer ends before its first NUL.                          *)
LEMMA StringEnds ==
  ASSUME NEW b \in Buffers, NEW z \in 1 .. USB_MSG_MAXLEN,
         b[z] = NUL, \A i \in 1 .. z - 1 : b[i] # NUL
  PROVE  /\ String(b) = SubSeq(b, 1, z - 1) /\ Len(String(b)) = z - 1
         /\ String(b) \in Seq(Bytes)
<1> DEFINE k == SelectInSeq(b, LAMBDA x : x = NUL)
<1>1. Len(b) = USB_MSG_MAXLEN /\ USB_MSG_MAXLEN \in Nat /\ b \in Seq(Text)
  BY BufferFacts
<1>2. IsFirst(b, {NUL}, k)
  <2> DEFINE I == {i \in 1 .. Len(b) : b[i] = NUL}
             J == {i \in 1 .. Len(b) : b[i] \in {NUL}}
  <2>1. k = IF I # {} THEN Min(I) ELSE 0
    BY DEF SelectInSeq
  <2>2. I = J
    OBVIOUS
  <2> HIDE DEF k
  <2>3. QED
    BY <1>1, <2>1, <2>2, FirstIsLeast, BufferFacts
<1>3. String(b) = SubSeq(b, 1, k - 1)
  BY DEF String
<1> HIDE DEF k
<1>4. k = z
  BY <1>1, <1>2 DEF IsFirst
<1>5. \A i \in 1 .. z - 1 : b[i] \in Bytes
  BY <1>1 DEF Buffers, Text
<1>6. SubSeq(b, 1, z - 1) = [i \in 1 .. z - 1 |-> b[i]]
  BY <1>1
<1>7. QED
  BY <1>3, <1>4, <1>5, <1>6

(* A buffer that contains a NUL has a first one.                              *)
LEMMA StringHasEnd ==
  ASSUME NEW b \in Buffers, Contains(b, NUL)
  PROVE  \E z \in 1 .. USB_MSG_MAXLEN : b[z] = NUL /\ \A i \in 1 .. z - 1 : b[i] # NUL
<1> DEFINE k == SelectInSeq(b, LAMBDA x : x = NUL)
<1>1. Len(b) = USB_MSG_MAXLEN
  BY BufferFacts
<1>2. IsFirst(b, {NUL}, k)
  <2> DEFINE I == {i \in 1 .. Len(b) : b[i] = NUL}
             J == {i \in 1 .. Len(b) : b[i] \in {NUL}}
  <2>1. k = IF I # {} THEN Min(I) ELSE 0
    BY DEF SelectInSeq
  <2>2. I = J
    OBVIOUS
  <2> HIDE DEF k
  <2>3. QED
    BY <1>1, <2>1, <2>2, FirstIsLeast, BufferFacts
<1>3. \E i \in 1 .. USB_MSG_MAXLEN : b[i] = NUL
  BY <1>1 DEF Contains
<1> HIDE DEF k
<1>4. QED
  BY <1>1, <1>2, <1>3 DEF IsFirst

(* Writing one byte changes that byte alone.                                  *)
LEMMA Putting ==
  ASSUME NEW b \in Buffers, NEW i \in 0 .. USB_MSG_MAXLEN, NEW x \in Text
  PROVE  /\ Put(b, i, x) \in Buffers
         /\ \A j \in 1 .. USB_MSG_MAXLEN : Put(b, i, x)[j] = IF j = i THEN x ELSE b[j]
BY DEF Put, Buffers

------------------------------------------------------------------------------
(***************************************************************************)
(* The inductive invariant.                                                *)
(***************************************************************************)

(* A NUL follows the bytes that are counted: searches end in the buffer.      *)
Ended == \E k \in usb_msg_len + 1 .. USB_MSG_MAXLEN : usb_msg_buffer[k] = NUL

(* handle_msg runs on a line that ended with a newline.                       *)
Found == pc = "handle_msg" => end_of_msg # 0

Plain(b, i, j) == \A k \in i .. j : b[k] \notin {LF, NUL}

(* One command at a time: the counted bytes have no newline but the one found,*)
(* and no NUL until it is handled; behind them the string ends.               *)
OneLine == context = "running" /\ ~pipelined =>
  /\ pc = "idle" => Plain(usb_msg_buffer, 1, usb_msg_len)
  /\ pc = "loop" /\ end_of_msg = 0 => Plain(usb_msg_buffer, 1, usb_msg_len)
  /\ pc # "idle" /\ end_of_msg # 0 =>
       /\ end_of_msg \in 1 .. usb_msg_len /\ usb_msg_buffer[usb_msg_len + 1] = NUL
       /\ Plain(usb_msg_buffer, end_of_msg + 1, usb_msg_len)
  /\ pc = "loop" /\ end_of_msg # 0 =>
       usb_msg_buffer[end_of_msg] = LF /\ Plain(usb_msg_buffer, 1, end_of_msg - 1)
  /\ pc = "handle_msg" =>
       /\ usb_msg_buffer[end_of_msg] = NUL /\ Len(line) < end_of_msg
       /\ \A k \in 1 .. end_of_msg - 1 : usb_msg_buffer[k] # LF

(* A NUL before any newline hides the rest of the buffer from strchr.         *)
Shielded == \E k \in 1 .. usb_msg_len :
  usb_msg_buffer[k] = NUL /\ \A i \in 1 .. k - 1 : usb_msg_buffer[i] # LF

(* What a shutdown in the middle of a command leaves to usb_deinit.           *)
Abandoned ==
  /\ context = "running" => ~interrupted
  /\ context \in {"deinit", "off"} => pc = "idle"
  /\ interrupted /\ ~pipelined /\ context = "deinit" => Shielded
  /\ interrupted /\ ~pipelined /\ context = "last" => pc = "loop" /\ end_of_msg = 0

IInv == TypeOK /\ Ended /\ Found /\ OneLine /\ Abandoned

------------------------------------------------------------------------------
(***************************************************************************)
(* What each step does to the buffer.                                      *)
(***************************************************************************)

(* The minimum of two lengths is one of them and exceeds neither.             *)
LEMMA SmallerOfTwo ==
  ASSUME NEW m \in Nat, NEW n \in Nat
  PROVE  Min({m, n}) \in Nat /\ Min({m, n}) <= m /\ Min({m, n}) <= n
<1>1. {m, n} \in SUBSET Nat /\ {m, n} # {}
  OBVIOUS
<1>2. QED
  BY <1>1, Smallest

(* What the callback does to the buffer before it looks for lines.            *)
LEMMA Receiving ==
  ASSUME TypeOK, NEW p \in Packets, Receive(p)
  PROVE  /\ p \in Seq(Bytes) /\ Accepted(p) \in 1 .. Len(p)
         /\ usb_msg_len + Accepted(p) \in 1 .. Limit
         /\ usb_msg_len' = usb_msg_len + Accepted(p)
         /\ usb_msg_buffer' \in Buffers
         /\ \A i \in 1 .. usb_msg_len : usb_msg_buffer'[i] = usb_msg_buffer[i]
         /\ \A i \in 1 .. Accepted(p) : usb_msg_buffer'[usb_msg_len + i] = p[i]
         /\ usb_msg_buffer'[usb_msg_len' + 1] = NUL
         /\ end_of_msg' = strchr(usb_msg_buffer', LF)
<1>1. p \in Seq(Bytes) /\ Len(p) \in Nat \ {0}
  BY UsbLinesAssumption, EmptySeq
<1>2. usb_msg_len \in 0 .. Limit /\ Limit \in Nat /\ USB_MSG_MAXLEN = Limit + 1
  BY BufferFacts DEF TypeOK
<1>3. Accepted(p) \in 1 .. Len(p) /\ usb_msg_len + Accepted(p) \in 1 .. Limit
  BY <1>1, <1>2 DEF Receive, Accepted
<1>4. usb_msg_len' = usb_msg_len + Accepted(p) /\ end_of_msg' = strchr(usb_msg_buffer', LF)
  BY DEF Receive
<1> DEFINE a == Accepted(p)
<1>5. usb_msg_buffer' = [i \in 1 .. USB_MSG_MAXLEN |->
          IF i \in usb_msg_len + 1 .. usb_msg_len + a THEN p[i - usb_msg_len]
          ELSE IF i = usb_msg_len + a + 1 THEN NUL ELSE usb_msg_buffer[i]]
  BY DEF Receive, Received
<1>6. a \in 1 .. Len(p) /\ usb_msg_len + a \in 1 .. Limit /\ usb_msg_len' = usb_msg_len + a
  BY <1>3, <1>4
<1> HIDE DEF a
<1>7. ASSUME NEW i \in 1 .. USB_MSG_MAXLEN PROVE usb_msg_buffer'[i] \in Text
  <2>1. i \in usb_msg_len + 1 .. usb_msg_len + a => p[i - usb_msg_len] \in Bytes
    <3>1. ASSUME i \in usb_msg_len + 1 .. usb_msg_len + a PROVE i - usb_msg_len \in 1 .. Len(p)
      BY <1>1, <1>2, <1>6, <3>1
    <3>2. QED
      BY <1>1, <3>1
  <2>2. usb_msg_buffer[i] \in Text
    BY DEF TypeOK, Text
  <2>3. QED
    BY <1>5, <2>1, <2>2 DEF Text
<1>8. usb_msg_buffer' \in Buffers
  BY <1>5, <1>7 DEF Buffers
<1>9. \A i \in 1 .. usb_msg_len : usb_msg_buffer'[i] = usb_msg_buffer[i]
  BY <1>2, <1>5, <1>6
<1>10. \A i \in 1 .. a : usb_msg_buffer'[usb_msg_len + i] = p[i]
  <2> TAKE i \in 1 .. a
  <2> DEFINE j == usb_msg_len + i
  <2>1. j \in usb_msg_len + 1 .. usb_msg_len + a /\ j \in 1 .. USB_MSG_MAXLEN /\ j - usb_msg_len = i
    BY <1>2, <1>6
  <2> HIDE DEF j
  <2>2. usb_msg_buffer'[j] = p[i]
    BY <1>5, <2>1
  <2>3. QED
    BY <2>2 DEF j
<1>11. usb_msg_buffer'[usb_msg_len' + 1] = NUL
  BY <1>2, <1>5, <1>6
<1>12. QED
  BY <1>1, <1>3, <1>4, <1>8, <1>9, <1>10, <1>11 DEF a

(* The newline becomes a NUL, and a carriage return before it too; the line   *)
(* given to handle_msg ends at the first of them.                             *)
LEMMA Starting ==
  ASSUME TypeOK, StartLine
  PROVE  LET cr == strchr(Put(usb_msg_buffer, end_of_msg, NUL), CR) IN
         /\ end_of_msg \in 1 .. USB_MSG_MAXLEN /\ cr \in 0 .. USB_MSG_MAXLEN
         /\ cr # 0 => cr < end_of_msg /\ usb_msg_buffer[cr] = CR
                      /\ \A i \in 1 .. cr - 1 : usb_msg_buffer[i] \notin {CR, NUL}
         /\ cr = 0 => \A i \in 1 .. end_of_msg - 1 :
              usb_msg_buffer[i] = CR => \E j \in 1 .. i - 1 : usb_msg_buffer[j] = NUL
         /\ usb_msg_buffer' \in Buffers
         /\ \A i \in 1 .. USB_MSG_MAXLEN :
              usb_msg_buffer'[i] = IF i \in {end_of_msg, cr} THEN NUL ELSE usb_msg_buffer[i]
<1> DEFINE ended == Put(usb_msg_buffer, end_of_msg, NUL)
           cr == strchr(ended, CR)
<1>1. end_of_msg \in 1 .. USB_MSG_MAXLEN /\ USB_MSG_MAXLEN \in Nat
  BY BufferFacts DEF TypeOK, StartLine
<1>2. usb_msg_buffer \in Buffers /\ NUL \in Text /\ CR \in Bytes /\ CR # NUL
  BY BufferFacts DEF TypeOK, Buffers, Text
<1>3. /\ ended \in Buffers
      /\ \A i \in 1 .. USB_MSG_MAXLEN : ended[i] = IF i = end_of_msg THEN NUL ELSE usb_msg_buffer[i]
  <2>1. end_of_msg \in 0 .. USB_MSG_MAXLEN
    BY <1>1
  <2>2. QED
    BY <1>2, <2>1, Putting
<1>4. usb_msg_buffer' = Put(ended, cr, NUL)
  BY DEF StartLine
<1> HIDE DEF ended
<1>5. /\ cr \in 0 .. USB_MSG_MAXLEN
      /\ cr # 0 => ended[cr] = CR /\ \A i \in 1 .. cr - 1 : ended[i] \notin {CR, NUL}
      /\ cr = 0 => \A i \in 1 .. USB_MSG_MAXLEN : ended[i] = CR => \E j \in 1 .. i - 1 : ended[j] = NUL
  BY <1>2, <1>3, StrchrFinds
<1>6. /\ usb_msg_buffer' \in Buffers
      /\ \A i \in 1 .. USB_MSG_MAXLEN : usb_msg_buffer'[i] = IF i = cr THEN NUL ELSE ended[i]
  BY <1>2, <1>3, <1>4, <1>5, Putting
<1> HIDE DEF cr
<1>7. ASSUME cr # 0
      PROVE  cr < end_of_msg /\ usb_msg_buffer[cr] = CR
             /\ \A i \in 1 .. cr - 1 : usb_msg_buffer[i] \notin {CR, NUL}
  <2>1. cr \in 1 .. USB_MSG_MAXLEN /\ cr # end_of_msg
    BY <1>1, <1>2, <1>3, <1>5, <1>7
  <2>2. ~(end_of_msg \in 1 .. cr - 1)
    BY <1>1, <1>3, <1>5, <1>7
  <2>3. cr < end_of_msg
    BY <1>1, <2>1, <2>2
  <2>4. QED
    BY <1>1, <1>3, <1>5, <1>7, <2>1, <2>3
<1>8. ASSUME cr = 0, NEW i \in 1 .. end_of_msg - 1, usb_msg_buffer[i] = CR
      PROVE  \E j \in 1 .. i - 1 : usb_msg_buffer[j] = NUL
  <2>1. i \in 1 .. USB_MSG_MAXLEN /\ ended[i] = CR
    BY <1>1, <1>3, <1>8
  <2>2. PICK j \in 1 .. i - 1 : ended[j] = NUL
    BY <1>5, <1>8, <2>1
  <2>3. usb_msg_buffer[j] = NUL
    BY <1>1, <1>3, <2>1, <2>2
  <2>4. QED
    BY <2>3
<1>9. \A i \in 1 .. USB_MSG_MAXLEN :
        usb_msg_buffer'[i] = IF i \in {end_of_msg, cr} THEN NUL ELSE usb_msg_buffer[i]
  BY <1>3, <1>6
<1>10. cr = 0 => \A i \in 1 .. end_of_msg - 1 :
         usb_msg_buffer[i] = CR => \E j \in 1 .. i - 1 : usb_msg_buffer[j] = NUL
  BY <1>8
<1>11. QED
  BY <1>1, <1>5, <1>6, <1>7, <1>9, <1>10, Zenon DEF cr, ended

(* What memmove leaves: the bytes behind the line, moved to the front.        *)
LEMMA Finishing ==
  ASSUME TypeOK, Found, NEW r \in ReplyLengths, NEW S \in SUBSET Colons, FinishLine(r, S)
  PROVE  /\ end_of_msg \in 1 .. USB_MSG_MAXLEN /\ usb_msg_len' \in 0 .. Limit
         /\ usb_msg_len' = IF usb_msg_len < end_of_msg THEN 0 ELSE usb_msg_len - end_of_msg
         /\ usb_msg_buffer' \in Buffers
         /\ \A i \in 1 .. usb_msg_len' :
              usb_msg_buffer'[i] \in {usb_msg_buffer[end_of_msg + i], NUL}
              /\ (end_of_msg + i > Len(line) => usb_msg_buffer'[i] = usb_msg_buffer[end_of_msg + i])
         /\ \A i \in usb_msg_len' + 1 .. USB_MSG_MAXLEN :
              usb_msg_buffer'[i] \in {usb_msg_buffer[i], NUL}
         /\ end_of_msg' = strchr(usb_msg_buffer', LF)
         /\ full_response_len' \in 0 .. USB_BUFFER_SIZE
<1> DEFINE len == IF usb_msg_len < end_of_msg THEN 0 ELSE usb_msg_len - end_of_msg
           t == Tokenized(S)
<1>1. /\ end_of_msg \in 1 .. USB_MSG_MAXLEN /\ USB_MSG_MAXLEN \in Nat
      /\ Limit = USB_MSG_MAXLEN - 1 /\ usb_msg_len \in 0 .. Limit
  BY BufferFacts DEF TypeOK, Found, FinishLine
<1>2. usb_msg_buffer \in Buffers /\ line \in Seq(Bytes)
  BY DEF TypeOK, Buffers, Text
<1>3. DOMAIN usb_msg_buffer = 1 .. USB_MSG_MAXLEN
  BY <1>2 DEF Buffers
<1>4. /\ t \in Buffers
      /\ \A i \in 1 .. USB_MSG_MAXLEN : t[i] \in {usb_msg_buffer[i], NUL}
      /\ \A i \in 1 .. USB_MSG_MAXLEN : i > Len(line) => t[i] = usb_msg_buffer[i]
  <2>1. t = [i \in 1 .. USB_MSG_MAXLEN |-> IF i \in S THEN NUL ELSE usb_msg_buffer[i]]
    BY <1>3 DEF Tokenized
  <2>2. \A i \in S : i \in 1 .. Len(line)
    BY DEF Colons
  <2>3. Len(line) \in Nat
    BY <1>2
  <2> HIDE DEF t
  <2>4. t \in Buffers
    BY <1>2, <2>1 DEF Buffers, Text
  <2>5. \A i \in 1 .. USB_MSG_MAXLEN : i > Len(line) => i \notin S
    BY <2>2, <2>3
  <2>6. QED
    BY <2>1, <2>4, <2>5
<1>5. len \in 0 .. Limit /\ (len # 0 => end_of_msg + len = usb_msg_len)
  BY <1>1
<1>6. usb_msg_len' = len /\ usb_msg_buffer' = Moved(t, len) /\ end_of_msg' = strchr(usb_msg_buffer', LF)
  <2>1. len = IF usb_msg_len - end_of_msg < 0 THEN 0 ELSE usb_msg_len - end_of_msg
    BY <1>1
  <2>2. QED
    BY <2>1 DEF FinishLine
<1> HIDE DEF len, t
<1>7. usb_msg_buffer' = [i \in 1 .. USB_MSG_MAXLEN |-> IF i <= len THEN t[end_of_msg + i] ELSE t[i]]
  <2>1. DOMAIN t = 1 .. USB_MSG_MAXLEN
    BY <1>4 DEF Buffers
  <2>2. QED
    BY <1>6, <2>1 DEF Moved
<1>8. \A i \in 1 .. len : end_of_msg + i \in 1 .. USB_MSG_MAXLEN /\ i \in 1 .. USB_MSG_MAXLEN
  BY <1>1, <1>5
<1>9. usb_msg_buffer' \in Buffers
  <2>1. ASSUME NEW i \in 1 .. USB_MSG_MAXLEN PROVE usb_msg_buffer'[i] \in Text
    <3>1. i <= len => end_of_msg + i \in 1 .. USB_MSG_MAXLEN
      BY <1>5, <1>8
    <3>2. QED
      BY <1>4, <1>7, <3>1 DEF Buffers
  <2>2. QED
    BY <1>7, <2>1 DEF Buffers
<1>10. \A i \in 1 .. len :
         /\ usb_msg_buffer'[i] \in {usb_msg_buffer[end_of_msg + i], NUL}
         /\ end_of_msg + i > Len(line) => usb_msg_buffer'[i] = usb_msg_buffer[end_of_msg + i]
  <2> SUFFICES ASSUME NEW i \in 1 .. len
      PROVE /\ usb_msg_buffer'[i] \in {usb_msg_buffer[end_of_msg + i], NUL}
            /\ end_of_msg + i > Len(line) => usb_msg_buffer'[i] = usb_msg_buffer[end_of_msg + i]
    OBVIOUS
  <2>1. usb_msg_buffer'[i] = t[end_of_msg + i]
    BY <1>5, <1>7, <1>8
  <2>2. QED
    BY <1>4, <1>8, <2>1
<1>11. \A i \in len + 1 .. USB_MSG_MAXLEN : usb_msg_buffer'[i] \in {usb_msg_buffer[i], NUL}
  <2> SUFFICES ASSUME NEW i \in len + 1 .. USB_MSG_MAXLEN
      PROVE usb_msg_buffer'[i] \in {usb_msg_buffer[i], NUL}
    OBVIOUS
  <2>1. i \in 1 .. USB_MSG_MAXLEN /\ ~(i <= len)
    BY <1>1, <1>5
  <2>2. QED
    BY <1>4, <1>7, <2>1
<1>12. full_response_len' \in 0 .. USB_BUFFER_SIZE
  <2>1. r \in Nat /\ USB_BUFFER_SIZE \in Nat \ {0} /\ full_response_len \in 0 .. USB_BUFFER_SIZE
    BY UsbLinesAssumption DEF TypeOK
  <2>2. Appended(r) \in Nat
    BY <2>1 DEF Appended, max_len
  <2>3. full_response_len + 1 + Appended(r) \in Nat
    BY <2>1, <2>2
  <2>4. Lengthened(r) \in 0 .. USB_BUFFER_SIZE
    BY <2>1, <2>3, SmallerOfTwo DEF Lengthened
  <2>5. QED
    BY <2>4 DEF FinishLine
<1>13. usb_msg_len' = IF usb_msg_len < end_of_msg THEN 0 ELSE usb_msg_len - end_of_msg
  BY <1>6 DEF len
<1>14. QED
  BY <1>1, <1>5, <1>6, <1>9, <1>10, <1>11, <1>12, <1>13

------------------------------------------------------------------------------
(***************************************************************************)
(* Every step preserves the invariant.                                     *)
(***************************************************************************)

LEMMA InitIInv == Init => IInv
<1> SUFFICES ASSUME Init PROVE IInv
  OBVIOUS
<1>1. /\ usb_msg_buffer = [i \in 1 .. USB_MSG_MAXLEN |-> NUL] /\ usb_msg_len = 0
      /\ end_of_msg = 0 /\ full_response_len = 0 /\ pc = "idle"
      /\ context = "running" /\ interrupted = FALSE /\ line = <<>> /\ pipelined = FALSE
  BY DEF Init
<1>2. USB_MSG_MAXLEN \in Nat /\ USB_MSG_MAXLEN >= 2 /\ Limit = USB_MSG_MAXLEN - 1
  BY BufferFacts
<1>3. Ended
  BY <1>1, <1>2 DEF Ended
<1>4. TypeOK
  <2>1. Len(usb_msg_buffer) = USB_MSG_MAXLEN
    BY <1>1, <1>2
  <2>2. Contains(usb_msg_buffer, NUL)
    BY <1>1, <1>2, <2>1 DEF Contains
  <2>3. usb_msg_buffer \in [1 .. USB_MSG_MAXLEN -> Bytes \cup {NUL}]
    BY <1>1
  <2>4. USB_BUFFER_SIZE \in Nat
    BY UsbLinesAssumption
  <2>5. line \in Seq(Bytes)
    BY <1>1
  <2>6. usb_msg_len \in 0 .. Limit /\ usb_msg_len < Limit /\ end_of_msg \in 0 .. USB_MSG_MAXLEN
    BY <1>1, <1>2
  <2>7. full_response_len \in 0 .. USB_BUFFER_SIZE
    BY <1>1, <2>4
  <2>8. QED
    BY <1>1, <2>2, <2>3, <2>5, <2>6, <2>7, Zenon DEF TypeOK
<1>5. OneLine
  BY <1>1 DEF OneLine, Plain
<1>6. QED
  BY <1>1, <1>3, <1>4, <1>5 DEF IInv, Found, Abandoned

(* An end behind the counted bytes is an end.                                 *)
LEMMA EndIsThere ==
  ASSUME NEW b \in Buffers, NEW n \in Nat, \E k \in n + 1 .. USB_MSG_MAXLEN : b[k] = NUL
  PROVE  Contains(b, NUL)
<1>1. Len(b) = USB_MSG_MAXLEN
  BY BufferFacts
<1>2. PICK k \in n + 1 .. USB_MSG_MAXLEN : b[k] = NUL
  OBVIOUS
<1>3. k \in 1 .. Len(b)
  BY <1>1, BufferFacts
<1>4. QED
  BY <1>2, <1>3 DEF Contains

(* A packet of one command has one newline at most.                           *)
LEMMA OneNewline ==
  ASSUME NEW p \in Seq(Bytes), ~(Newlines(p) > 1),
         NEW i \in 1 .. Len(p), NEW j \in 1 .. Len(p), p[i] = LF, p[j] = LF
  PROVE  i = j
<1> DEFINE N == {k \in DOMAIN p : p[k] = LF}
<1>1. DOMAIN p = 1 .. Len(p) /\ Len(p) \in Nat
  OBVIOUS
<1>2. IsFiniteSet(N)
  <2>1. IsFiniteSet(1 .. Len(p))
    BY <1>1, FS_Interval
  <2>2. QED
    BY <1>1, <2>1, FS_Subset
<1>3. i \in N /\ j \in N
  BY <1>1
<1>4. Cardinality(N) \in Nat /\ ~(Cardinality(N) > 1)
  BY <1>2, FS_CardinalityType DEF Newlines
<1> HIDE DEF N
<1>5. {i} \in SUBSET N
  BY <1>3
<1>6. Cardinality({i}) = 1
  BY FS_Singleton
<1>7. Cardinality({i}) <= Cardinality(N) /\ (Cardinality(N) = Cardinality({i}) => N = {i})
  BY <1>2, <1>5, FS_Subset
<1>8. Cardinality(N) = 1
  BY <1>4, <1>6, <1>7
<1>9. QED
  BY <1>3, <1>6, <1>7, <1>8

(* A packet arrives.                                                          *)
LEMMA ReceiveKeeps == ASSUME IInv, NEW p \in Packets, Receive(p) PROVE IInv'
<1>1. TypeOK
  BY DEF IInv
<1> DEFINE a == Accepted(p)
<1>2. /\ p \in Seq(Bytes) /\ a \in 1 .. Len(p)
      /\ usb_msg_len + a \in 1 .. Limit /\ usb_msg_len' = usb_msg_len + a
      /\ usb_msg_buffer' \in Buffers
      /\ \A i \in 1 .. usb_msg_len : usb_msg_buffer'[i] = usb_msg_buffer[i]
      /\ \A i \in 1 .. a : usb_msg_buffer'[usb_msg_len + i] = p[i]
      /\ usb_msg_buffer'[usb_msg_len' + 1] = NUL
      /\ end_of_msg' = strchr(usb_msg_buffer', LF)
  BY <1>1, Receiving
<1> HIDE DEF a
<1>3. /\ Limit \in Nat /\ USB_MSG_MAXLEN = Limit + 1 /\ usb_msg_len \in 0 .. Limit
      /\ LF \in Bytes /\ NUL \notin Bytes
  BY <1>1, BufferFacts DEF TypeOK
<1>4. /\ pc = "idle" /\ pc' = "loop" /\ context \in {"running", "deinit"} /\ full_response_len' = 0
      /\ context' = IF context = "deinit" THEN "last" ELSE context
      /\ pipelined' = (pipelined \/ Newlines(p) > 1) /\ interrupted' = interrupted /\ line' = line
  BY DEF Receive
<1>5. /\ end_of_msg' \in 0 .. USB_MSG_MAXLEN
      /\ end_of_msg' # 0 => /\ usb_msg_buffer'[end_of_msg'] = LF
           /\ \A i \in 1 .. end_of_msg' - 1 : usb_msg_buffer'[i] \notin {LF, NUL}
      /\ end_of_msg' = 0 => \A i \in 1 .. USB_MSG_MAXLEN :
           usb_msg_buffer'[i] = LF => \E j \in 1 .. i - 1 : usb_msg_buffer'[j] = NUL
  BY <1>2, <1>3, StrchrFinds
<1>6. usb_msg_len' + 1 \in usb_msg_len' + 1 .. USB_MSG_MAXLEN
  BY <1>2, <1>3
<1>7. Ended'
  BY <1>2, <1>6 DEF Ended
<1>8. TypeOK'
  <2>1. Contains(usb_msg_buffer', NUL)
    <3>1. usb_msg_len' \in Nat
      BY <1>2, <1>3
    <3>2. QED
      BY <1>2, <1>6, <3>1, EndIsThere
  <2>2. usb_msg_buffer' \in [1 .. USB_MSG_MAXLEN -> Bytes \cup {NUL}]
    BY <1>2 DEF Buffers, Text
  <2>3. 0 \in 0 .. USB_BUFFER_SIZE
    BY UsbLinesAssumption
  <2>4. usb_msg_len' \in 0 .. Limit
    BY <1>2, <1>3
  <2>5. QED
    BY <1>1, <1>4, <1>5, <2>1, <2>2, <2>3, <2>4 DEF TypeOK
<1>9. OneLine'
  <2> SUFFICES ASSUME context' = "running", ~pipelined' PROVE
        /\ end_of_msg' = 0 => Plain(usb_msg_buffer', 1, usb_msg_len')
        /\ end_of_msg' # 0 =>
             /\ end_of_msg' \in 1 .. usb_msg_len' /\ usb_msg_buffer'[usb_msg_len' + 1] = NUL
             /\ Plain(usb_msg_buffer', end_of_msg' + 1, usb_msg_len')
             /\ usb_msg_buffer'[end_of_msg'] = LF /\ Plain(usb_msg_buffer', 1, end_of_msg' - 1)
    BY <1>4 DEF OneLine
  <2>1. context = "running" /\ ~pipelined /\ ~(Newlines(p) > 1)
    BY <1>4
  <2>2. Plain(usb_msg_buffer, 1, usb_msg_len)
    BY <1>4, <2>1 DEF IInv, OneLine
  <2>3. \A i \in 1 .. usb_msg_len : usb_msg_buffer'[i] \notin {LF, NUL}
    BY <1>2, <2>2 DEF Plain
  <2>4. ASSUME NEW k \in usb_msg_len + 1 .. usb_msg_len'
        PROVE  k - usb_msg_len \in 1 .. Len(p) /\ usb_msg_buffer'[k] = p[k - usb_msg_len]
               /\ usb_msg_buffer'[k] # NUL
    <3> DEFINE i == k - usb_msg_len
    <3>1. i \in 1 .. a /\ usb_msg_len + i = k /\ i \in 1 .. Len(p)
      BY <1>2, <1>3
    <3> HIDE DEF i
    <3>2. usb_msg_buffer'[k] = p[i]
      BY <1>2, <3>1
    <3>3. p[i] \in Bytes
      BY <1>2, <3>1
    <3>4. QED
      BY <1>3, <3>1, <3>2, <3>3 DEF i
  <2>5. \A k \in 1 .. usb_msg_len' : usb_msg_buffer'[k] # NUL
    <3> TAKE k \in 1 .. usb_msg_len'
    <3>1. k \in 1 .. usb_msg_len \/ k \in usb_msg_len + 1 .. usb_msg_len'
      BY <1>2, <1>3
    <3>2. QED
      BY <2>3, <2>4, <3>1
  <2>6. end_of_msg' = 0 => Plain(usb_msg_buffer', 1, usb_msg_len')
    <3> SUFFICES ASSUME end_of_msg' = 0, NEW k \in 1 .. usb_msg_len', usb_msg_buffer'[k] = LF
        PROVE FALSE
      BY <2>5 DEF Plain
    <3>1. k \in 1 .. USB_MSG_MAXLEN
      BY <1>2, <1>3
    <3>2. PICK j \in 1 .. k - 1 : usb_msg_buffer'[j] = NUL
      BY <1>5, <3>1
    <3>3. j \in 1 .. usb_msg_len'
      BY <1>2, <1>3
    <3>4. QED
      BY <2>5, <3>2, <3>3
  <2>7. ASSUME end_of_msg' # 0
        PROVE  /\ end_of_msg' \in 1 .. usb_msg_len' /\ end_of_msg' > usb_msg_len
               /\ usb_msg_buffer'[end_of_msg'] = LF /\ Plain(usb_msg_buffer', 1, end_of_msg' - 1)
    <3>1. ~(usb_msg_len' + 1 \in 1 .. end_of_msg' - 1)
      BY <1>2, <1>5, <2>7
    <3>2. usb_msg_len' + 1 # end_of_msg'
      BY <1>2, <1>3, <1>5, <2>7
    <3>3. end_of_msg' \in 1 .. usb_msg_len'
      BY <1>2, <1>3, <1>5, <2>7, <3>1, <3>2
    <3>4. end_of_msg' > usb_msg_len
      BY <1>2, <1>3, <1>5, <2>3, <2>7, <3>3
    <3>5. QED
      BY <1>5, <2>7, <3>3, <3>4 DEF Plain
  <2>8. ASSUME end_of_msg' # 0 PROVE Plain(usb_msg_buffer', end_of_msg' + 1, usb_msg_len')
    <3> SUFFICES ASSUME NEW k \in end_of_msg' + 1 .. usb_msg_len', usb_msg_buffer'[k] = LF PROVE FALSE
      <4>1. \A k \in end_of_msg' + 1 .. usb_msg_len' : k \in 1 .. usb_msg_len'
        BY <1>2, <1>3, <1>5
      <4>2. QED
        BY <2>5, <4>1 DEF Plain
    <3>1. /\ k \in usb_msg_len + 1 .. usb_msg_len' /\ end_of_msg' \in usb_msg_len + 1 .. usb_msg_len'
          /\ k # end_of_msg'
      BY <1>2, <1>3, <1>5, <2>7, <2>8
    <3>2. /\ k - usb_msg_len \in 1 .. Len(p) /\ p[k - usb_msg_len] = LF
          /\ end_of_msg' - usb_msg_len \in 1 .. Len(p) /\ p[end_of_msg' - usb_msg_len] = LF
      BY <2>4, <2>7, <2>8, <3>1
    <3>3. k - usb_msg_len = end_of_msg' - usb_msg_len
      BY <1>2, <2>1, <3>2, OneNewline
    <3>4. QED
      BY <1>2, <1>3, <3>1, <3>3
  <2>9. QED
    BY <1>2, <2>6, <2>7, <2>8
<1>10. Abandoned'
  <2>1. context' = "running" => ~interrupted'
    BY <1>4 DEF IInv, Abandoned
  <2>2. context' \notin {"deinit", "off"}
    BY <1>4
  <2>3. ASSUME interrupted', ~pipelined', context' = "last" PROVE end_of_msg' = 0
    <3>1. interrupted /\ ~pipelined /\ context = "deinit"
      BY <1>4, <2>3
    <3>2. PICK k \in 1 .. usb_msg_len :
            usb_msg_buffer[k] = NUL /\ \A i \in 1 .. k - 1 : usb_msg_buffer[i] # LF
      BY <3>1 DEF IInv, Abandoned, Shielded
    <3>3. k \in 1 .. USB_MSG_MAXLEN /\ \A i \in 1 .. k - 1 : i \in 1 .. usb_msg_len
      BY <1>3
    <3>4. usb_msg_buffer'[k] = NUL /\ \A i \in 1 .. k - 1 : usb_msg_buffer'[i] # LF
      BY <1>2, <3>2, <3>3
    <3>5. QED
      BY <1>2, <1>3, <3>3, <3>4, StrchrStops
  <2>4. QED
    BY <1>4, <2>1, <2>2, <2>3 DEF Abandoned
<1>11. Found'
  BY <1>4 DEF Found
<1>12. QED
  BY <1>7, <1>8, <1>9, <1>10, <1>11 DEF IInv

(* A line is handed to handle_msg.                                            *)
LEMMA StartKeeps == ASSUME IInv, StartLine PROVE IInv'
<1>1. TypeOK
  BY DEF IInv
<1> DEFINE cr == strchr(Put(usb_msg_buffer, end_of_msg, NUL), CR)
<1>2. /\ end_of_msg \in 1 .. USB_MSG_MAXLEN /\ cr \in 0 .. USB_MSG_MAXLEN
      /\ cr # 0 => cr < end_of_msg
      /\ usb_msg_buffer' \in Buffers
      /\ \A i \in 1 .. USB_MSG_MAXLEN :
           usb_msg_buffer'[i] = IF i \in {end_of_msg, cr} THEN NUL ELSE usb_msg_buffer[i]
  BY <1>1, Starting, Zenon
<1> HIDE DEF cr
<1>3. /\ Limit \in Nat /\ USB_MSG_MAXLEN = Limit + 1 /\ usb_msg_len \in 0 .. Limit
      /\ LF \in Bytes /\ NUL \notin Bytes
  BY <1>1, BufferFacts DEF TypeOK
<1>4. /\ pc = "loop" /\ end_of_msg # 0 /\ pc' = "handle_msg" /\ line' = String(usb_msg_buffer')
      /\ usb_msg_len' = usb_msg_len /\ end_of_msg' = end_of_msg
      /\ full_response_len' = full_response_len /\ context' = context
      /\ interrupted' = interrupted /\ pipelined' = pipelined
  BY DEF StartLine
<1>5. Ended'
  <2>1. PICK k \in usb_msg_len + 1 .. USB_MSG_MAXLEN : usb_msg_buffer[k] = NUL
    BY DEF IInv, Ended
  <2>2. k \in 1 .. USB_MSG_MAXLEN
    BY <1>3
  <2>3. usb_msg_buffer'[k] = NUL
    BY <1>2, <2>1, <2>2
  <2>4. QED
    BY <1>4, <2>3 DEF Ended
<1>6. Contains(usb_msg_buffer', NUL)
  BY <1>2, <1>3, <1>4, <1>5, EndIsThere DEF Ended
<1>7. PICK z \in 1 .. USB_MSG_MAXLEN :
        usb_msg_buffer'[z] = NUL /\ \A i \in 1 .. z - 1 : usb_msg_buffer'[i] # NUL
  BY <1>2, <1>6, StringHasEnd
<1>8. Len(line') = z - 1 /\ line' \in Seq(Bytes)
  BY <1>2, <1>4, <1>7, StringEnds
<1>9. Len(line') < end_of_msg
  <2>1. usb_msg_buffer'[end_of_msg] = NUL
    BY <1>2
  <2>2. ~(end_of_msg \in 1 .. z - 1)
    BY <1>7, <2>1
  <2>3. QED
    BY <1>2, <1>3, <1>7, <1>8, <2>2
<1>10. TypeOK'
  <2>1. usb_msg_buffer' \in [1 .. USB_MSG_MAXLEN -> Bytes \cup {NUL}]
    BY <1>2 DEF Buffers, Text
  <2>2. pc' # "idle"
    BY <1>4
  <2>3. QED
    BY <1>1, <1>4, <1>6, <1>8, <2>1, <2>2 DEF TypeOK
<1>11. OneLine'
  <2> SUFFICES ASSUME context = "running", ~pipelined PROVE
        /\ end_of_msg \in 1 .. usb_msg_len /\ usb_msg_buffer'[usb_msg_len + 1] = NUL
        /\ Plain(usb_msg_buffer', end_of_msg + 1, usb_msg_len)
        /\ usb_msg_buffer'[end_of_msg] = NUL /\ Len(line') < end_of_msg
        /\ \A k \in 1 .. end_of_msg - 1 : usb_msg_buffer'[k] # LF
    BY <1>4 DEF OneLine
  <2>1. /\ end_of_msg \in 1 .. usb_msg_len /\ usb_msg_buffer[usb_msg_len + 1] = NUL
        /\ Plain(usb_msg_buffer, end_of_msg + 1, usb_msg_len)
        /\ usb_msg_buffer[end_of_msg] = LF /\ Plain(usb_msg_buffer, 1, end_of_msg - 1)
    BY <1>4 DEF IInv, OneLine
  <2>2. usb_msg_len + 1 \in 1 .. USB_MSG_MAXLEN
    BY <1>3
  <2>3. usb_msg_buffer'[usb_msg_len + 1] = NUL
    BY <1>2, <2>1, <2>2
  <2>4. ASSUME NEW k \in end_of_msg + 1 .. usb_msg_len PROVE usb_msg_buffer'[k] \notin {LF, NUL}
    <3>1. k \in 1 .. USB_MSG_MAXLEN /\ k \notin {end_of_msg, cr}
      BY <1>2, <1>3
    <3>2. usb_msg_buffer'[k] = usb_msg_buffer[k]
      BY <1>2, <3>1
    <3>3. QED
      BY <2>1, <3>2 DEF Plain
  <2>5. ASSUME NEW k \in 1 .. end_of_msg - 1 PROVE usb_msg_buffer'[k] # LF
    <3>1. k \in 1 .. USB_MSG_MAXLEN
      BY <1>2, <1>3
    <3>2. usb_msg_buffer[k] # LF
      BY <2>1 DEF Plain
    <3>3. QED
      BY <1>2, <1>3, <3>1, <3>2
  <2>6. usb_msg_buffer'[end_of_msg] = NUL
    BY <1>2
  <2>7. QED
    BY <1>9, <2>1, <2>3, <2>4, <2>5, <2>6 DEF Plain
<1>12. Abandoned'
  BY <1>4 DEF IInv, Abandoned
<1>13. Found'
  BY <1>4 DEF Found
<1>14. QED
  BY <1>5, <1>10, <1>11, <1>12, <1>13 DEF IInv

LEMMA FinishKeeps ==
  ASSUME IInv, NEW r \in ReplyLengths, NEW S \in SUBSET Colons, FinishLine(r, S) PROVE IInv'
<1>1. TypeOK /\ Found
  BY DEF IInv
<1>2. /\ end_of_msg \in 1 .. USB_MSG_MAXLEN /\ usb_msg_len' \in 0 .. Limit
      /\ usb_msg_len' = IF usb_msg_len < end_of_msg THEN 0 ELSE usb_msg_len - end_of_msg
      /\ usb_msg_buffer' \in Buffers
      /\ \A i \in 1 .. usb_msg_len' :
           usb_msg_buffer'[i] \in {usb_msg_buffer[end_of_msg + i], NUL}
           /\ (end_of_msg + i > Len(line) => usb_msg_buffer'[i] = usb_msg_buffer[end_of_msg + i])
      /\ \A i \in usb_msg_len' + 1 .. USB_MSG_MAXLEN :
           usb_msg_buffer'[i] \in {usb_msg_buffer[i], NUL}
      /\ end_of_msg' = strchr(usb_msg_buffer', LF)
      /\ full_response_len' \in 0 .. USB_BUFFER_SIZE
  BY <1>1, Finishing
<1>3. /\ Limit \in Nat /\ USB_MSG_MAXLEN = Limit + 1 /\ usb_msg_len \in 0 .. Limit
      /\ LF \in Bytes /\ NUL \notin Bytes
  BY <1>1, BufferFacts DEF TypeOK
<1>4. /\ pc = "handle_msg" /\ pc' = "loop" /\ context' = context /\ line' = line
      /\ interrupted' = interrupted /\ pipelined' = pipelined
  BY DEF FinishLine
<1>5. usb_msg_len' <= usb_msg_len
  BY <1>2, <1>3
<1>6. Ended'
  <2>1. PICK k \in usb_msg_len + 1 .. USB_MSG_MAXLEN : usb_msg_buffer[k] = NUL
    BY DEF IInv, Ended
  <2>2. k \in usb_msg_len' + 1 .. USB_MSG_MAXLEN
    BY <1>2, <1>3, <1>5
  <2>3. usb_msg_buffer'[k] = NUL
    BY <1>2, <2>1, <2>2
  <2>4. QED
    BY <2>2, <2>3 DEF Ended
<1>7. TypeOK'
  <2>1. Contains(usb_msg_buffer', NUL)
    <3>1. usb_msg_len' \in Nat /\ \E k \in usb_msg_len' + 1 .. USB_MSG_MAXLEN : usb_msg_buffer'[k] = NUL
      BY <1>2, <1>3, <1>6 DEF Ended
    <3>2. QED
      BY <1>2, <3>1, EndIsThere
  <2>2. usb_msg_buffer' \in [1 .. USB_MSG_MAXLEN -> Bytes \cup {NUL}]
    BY <1>2 DEF Buffers, Text
  <2>3. pc' # "idle" /\ end_of_msg' \in 0 .. USB_MSG_MAXLEN
    BY <1>2, <1>3, <1>4, StrchrFinds
  <2>4. QED
    BY <1>1, <1>2, <1>4, <2>1, <2>2, <2>3 DEF TypeOK
<1>8. OneLine'
  <2> SUFFICES ASSUME context = "running", ~pipelined
      PROVE end_of_msg' = 0 /\ Plain(usb_msg_buffer', 1, usb_msg_len')
    BY <1>4 DEF OneLine
  <2>1. /\ end_of_msg \in 1 .. usb_msg_len /\ usb_msg_buffer[usb_msg_len + 1] = NUL
        /\ Plain(usb_msg_buffer, end_of_msg + 1, usb_msg_len)
        /\ usb_msg_buffer[end_of_msg] = NUL /\ Len(line) < end_of_msg
        /\ \A k \in 1 .. end_of_msg - 1 : usb_msg_buffer[k] # LF
    BY <1>1, <1>4 DEF IInv, OneLine, Found
  <2>2. usb_msg_len' = usb_msg_len - end_of_msg
    BY <1>2, <1>3, <2>1
  <2>3. ASSUME NEW i \in 1 .. usb_msg_len' PROVE usb_msg_buffer'[i] \notin {LF, NUL}
    <3>1. end_of_msg + i \in end_of_msg + 1 .. usb_msg_len
      BY <1>2, <1>3, <2>2
    <3>2. end_of_msg + i > Len(line)
      <4>1. Len(line) \in Nat
        BY <1>1 DEF TypeOK
      <4>2. QED
        BY <1>2, <2>1, <4>1
    <3>3. usb_msg_buffer'[i] = usb_msg_buffer[end_of_msg + i]
      BY <1>2, <3>2
    <3>4. QED
      BY <2>1, <3>1, <3>3 DEF Plain
  <2>4. ASSUME NEW i \in usb_msg_len' + 1 .. USB_MSG_MAXLEN, usb_msg_buffer[i] # LF
        PROVE  usb_msg_buffer'[i] # LF
    BY <1>2, <1>3, <2>4
  <2>5. \E k \in 1 .. USB_MSG_MAXLEN :
          usb_msg_buffer'[k] = NUL /\ \A i \in 1 .. k - 1 : usb_msg_buffer'[i] # LF
    <3>1. CASE usb_msg_len' < end_of_msg
      <4>1. end_of_msg \in usb_msg_len' + 1 .. USB_MSG_MAXLEN
        BY <1>2, <1>3, <3>1
      <4>2. usb_msg_buffer'[end_of_msg] = NUL
        BY <1>2, <2>1, <4>1
      <4>3. ASSUME NEW i \in 1 .. end_of_msg - 1 PROVE usb_msg_buffer'[i] # LF
        <5>1. i \in 1 .. usb_msg_len' \/ i \in usb_msg_len' + 1 .. USB_MSG_MAXLEN
          BY <1>2, <1>3
        <5>2. QED
          BY <2>1, <2>3, <2>4, <5>1
      <4>4. QED
        BY <1>2, <4>2, <4>3
    <3>2. CASE usb_msg_len' >= end_of_msg
      <4>1. usb_msg_len + 1 \in usb_msg_len' + 1 .. USB_MSG_MAXLEN /\ usb_msg_len + 1 \in 1 .. USB_MSG_MAXLEN
        BY <1>2, <1>3, <1>5
      <4>2. usb_msg_buffer'[usb_msg_len + 1] = NUL
        BY <1>2, <2>1, <4>1
      <4>3. ASSUME NEW i \in 1 .. usb_msg_len PROVE usb_msg_buffer'[i] # LF
        <5>1. i \in 1 .. usb_msg_len' \/ (i \in usb_msg_len' + 1 .. USB_MSG_MAXLEN /\ i \in end_of_msg + 1 .. usb_msg_len)
          BY <1>2, <1>3, <3>2
        <5>2. QED
          BY <2>1, <2>3, <2>4, <5>1 DEF Plain
      <4>4. \A i \in 1 .. (usb_msg_len + 1) - 1 : usb_msg_buffer'[i] # LF
        BY <1>3, <4>3
      <4>5. QED
        BY <4>1, <4>2, <4>4
    <3>3. QED
      BY <1>2, <1>3, <3>1, <3>2
  <2>6. end_of_msg' = 0
    BY <1>2, <1>3, <2>5, StrchrStops
  <2>7. QED
    BY <2>3, <2>6 DEF Plain
<1>9. Abandoned'
  BY <1>4 DEF IInv, Abandoned
<1>10. Found'
  BY <1>4 DEF Found
<1>11. QED
  BY <1>6, <1>7, <1>8, <1>9, <1>10 DEF IInv

(* A place behind the longer length is behind the shorter one.                *)
LEMMA WiderRange ==
  ASSUME NEW m \in Int, NEW n \in Int, n <= m, NEW top \in Int, NEW k \in m + 1 .. top
  PROVE  k \in n + 1 .. top
OBVIOUS

(* The loop ends, and a full buffer without a newline is dropped.             *)
LEMMA LeaveKeeps == ASSUME IInv, Leave PROVE IInv'
<1>1. TypeOK
  BY DEF IInv
<1>2. /\ Limit \in Nat /\ Limit >= 1 /\ USB_MSG_MAXLEN = Limit + 1 /\ usb_msg_len \in 0 .. Limit
  BY <1>1, BufferFacts DEF TypeOK
<1>3. /\ pc = "loop" /\ end_of_msg = 0 /\ pc' = "idle" /\ usb_msg_len' = Kept
      /\ context' = IF context = "last" THEN "off" ELSE context
      /\ UNCHANGED <<usb_msg_buffer, end_of_msg, full_response_len, interrupted, line, pipelined>>
  BY DEF Leave
<1>4. usb_msg_len' \in 0 .. Limit /\ usb_msg_len' < Limit /\ usb_msg_len' <= usb_msg_len
  BY <1>2, <1>3 DEF Kept
<1>5. Ended'
  <2>1. PICK k \in usb_msg_len + 1 .. USB_MSG_MAXLEN : usb_msg_buffer[k] = NUL
    BY DEF IInv, Ended
  <2>2. k \in usb_msg_len' + 1 .. USB_MSG_MAXLEN
    <3> DEFINE n == usb_msg_len'
    <3>1. n \in Int /\ n <= usb_msg_len
      BY <1>4
    <3>2. usb_msg_len \in Int /\ USB_MSG_MAXLEN \in Int
      BY <1>2
    <3> HIDE DEF n
    <3>3. k \in n + 1 .. USB_MSG_MAXLEN
      BY <3>1, <3>2, WiderRange
    <3>4. QED
      BY <3>3 DEF n
  <2>3. QED
    BY <1>3, <2>1, <2>2 DEF Ended
<1>6. TypeOK'
  BY <1>1, <1>3, <1>4 DEF TypeOK
<1>7. OneLine'
  <2> SUFFICES ASSUME context' = "running", ~pipelined PROVE Plain(usb_msg_buffer, 1, usb_msg_len')
    BY <1>3 DEF OneLine
  <2>1. Plain(usb_msg_buffer, 1, usb_msg_len)
    BY <1>3 DEF IInv, OneLine
  <2>2. QED
    BY <1>2, <1>4, <2>1 DEF Plain
<1>8. Abandoned'
  BY <1>3 DEF IInv, Abandoned
<1>9. Found'
  BY <1>3 DEF Found
<1>10. QED
  BY <1>5, <1>6, <1>7, <1>8, <1>9 DEF IInv

(* A fault abandons the callback; the polls of usb_deinit come next.          *)
LEMMA ShutdownKeeps == ASSUME IInv, Shutdown PROVE IInv'
<1>1. /\ context = "running" /\ context' = "deinit" /\ pc' = "idle" /\ interrupted' = (pc = "handle_msg")
      /\ UNCHANGED <<usb_msg_buffer, usb_msg_len, end_of_msg, full_response_len, line, pipelined>>
  BY DEF Shutdown
<1>2. Ended'
  BY <1>1 DEF IInv, Ended
<1>3. TypeOK'
  BY <1>1 DEF IInv, TypeOK
<1>4. Abandoned'
  <2>1. ASSUME pc = "handle_msg", ~pipelined PROVE Shielded'
    <3>1. /\ end_of_msg \in 1 .. usb_msg_len /\ usb_msg_buffer[end_of_msg] = NUL
          /\ \A k \in 1 .. end_of_msg - 1 : usb_msg_buffer[k] # LF
      BY <1>1, <2>1 DEF IInv, OneLine, Found
    <3>2. Shielded
      BY <3>1 DEF Shielded
    <3>3. QED
      BY <1>1, <3>2 DEF Shielded
  <2>2. QED
    BY <1>1, <2>1 DEF Abandoned
<1>5. QED
  BY <1>1, <1>2, <1>3, <1>4 DEF IInv, OneLine, Found

LEMMA NextIInv == IInv /\ [Next]_vars => IInv'
<1> SUFFICES ASSUME IInv, [Next]_vars PROVE IInv'
  OBVIOUS
<1>1. CASE UNCHANGED vars
  BY <1>1 DEF vars, IInv, TypeOK, Ended, Found, OneLine, Plain, Abandoned, Shielded
<1>2. CASE NoPacket
  <2>1. /\ context = "deinit" /\ pc = "idle" /\ context' = "off"
        /\ UNCHANGED <<usb_msg_buffer, usb_msg_len, end_of_msg, full_response_len, pc,
                       interrupted, line, pipelined>>
    BY <1>2 DEF NoPacket
  <2>2. TypeOK'
    BY <2>1 DEF IInv, TypeOK
  <2>3. Ended' /\ Found' /\ OneLine' /\ Abandoned'
    BY <2>1 DEF IInv, Ended, Found, OneLine, Abandoned
  <2>4. QED
    BY <2>2, <2>3 DEF IInv
<1>3. QED
  BY <1>1, <1>2, ReceiveKeeps, StartKeeps, FinishKeeps, LeaveKeeps, ShutdownKeeps DEF Next, Off

LEMMA Invariance == Spec => []IInv
BY InitIInv, NextIInv, PTL DEF Spec

------------------------------------------------------------------------------
(***************************************************************************)
(* What module UsbLines promises.                                          *)
(***************************************************************************)

(* The buffer keeps its bytes and a NUL to end the last string, every search  *)
(* ends within it, and there is room for another byte between two packets.    *)
THEOREM TypeCorrectness == Spec => []TypeOK
<1>1. IInv => TypeOK
  BY DEF IInv
<1>2. QED
  BY <1>1, Invariance, PTL

(* When a fault abandons a command, no line that reaches the endpoint after   *)
(* it is handled by usb_deinit: the NUL behind the abandoned line hides it.   *)
THEOREM InterruptionHidesRest == Spec => []InterruptedLineHidesRest
<1>1. IInv => InterruptedLineHidesRest
  BY DEF IInv, TypeOK, Abandoned, InterruptedLineHidesRest
<1>2. QED
  BY <1>1, Invariance, PTL

------------------------------------------------------------------------------
(***************************************************************************)
(* The callback implements the stream of lines.                            *)
(***************************************************************************)

Open == context = "running" /\ ~pipelined
Handled == IF pc = "handle_msg" THEN end_of_msg ELSE 0
Waiting == SubSeq(usb_msg_buffer, Handled + 1, usb_msg_len)

(* A part of a buffer.                                                        *)
LEMMA Part ==
  ASSUME NEW b \in Buffers, NEW i \in Nat, NEW n \in 0 .. USB_MSG_MAXLEN, i <= n
  PROVE  /\ SubSeq(b, i + 1, n) \in Seq(Text) /\ Len(SubSeq(b, i + 1, n)) = n - i
         /\ \A k \in 1 .. n - i : SubSeq(b, i + 1, n)[k] = b[i + k]
<1>1. USB_MSG_MAXLEN \in Nat
  BY BufferFacts
<1>2. \A j \in i + 1 .. n : b[j] \in Text
  BY <1>1 DEF Buffers
<1> DEFINE t == SubSeq(b, i + 1, n)
<1>3. i + 1 \in Int /\ n \in Int
  BY <1>1
<1>4. /\ t \in Seq(Text) /\ Len(t) = IF i + 1 <= n THEN n - (i + 1) + 1 ELSE 0
      /\ \A k \in 1 .. n - (i + 1) + 1 : t[k] = b[(i + 1) + k - 1]
  BY <1>2, <1>3, SubSeqProperties
<1> HIDE DEF t
<1>5. Len(t) = n - i
  BY <1>3, <1>4
<1>6. ASSUME NEW k \in 1 .. n - i PROVE t[k] = b[i + k]
  <2>1. k \in 1 .. n - (i + 1) + 1 /\ (i + 1) + k - 1 = i + k
    BY <1>3
  <2>2. QED
    BY <1>4, <2>1
<1>7. QED
  BY <1>4, <1>5, <1>6 DEF t

(* Cutting a sequence at its first byte of a kind, and not cutting it.        *)
LEMMA Cutting ==
  ASSUME NEW s \in Seq(Text), NEW c, NEW k \in 1 .. Len(s),
         s[k] = c, \A i \in 1 .. k - 1 : s[i] # c
  PROVE  /\ Stream!Contains(s, c) /\ Stream!UpTo(s, c) = SubSeq(s, 1, k - 1)
         /\ Stream!Rest(s, c) = SubSeq(s, k + 1, Len(s))
<1> DEFINE f == Stream!SelectInSeq(s, LAMBDA b : b = c)
           I == {i \in 1 .. Len(s) : s[i] = c}
           J == {i \in 1 .. Len(s) : s[i] \in {c}}
<1>1. f = IF I # {} THEN Stream!Min(I) ELSE 0
  BY DEF Stream!SelectInSeq
<1>2. I = J /\ Len(s) \in Nat
  OBVIOUS
<1>3. Stream!Contains(s, c)
  BY DEF Stream!Contains
<1>4. Stream!UpTo(s, c) = SubSeq(s, 1, f - 1) /\ Stream!Rest(s, c) = SubSeq(s, f + 1, Len(s))
  BY <1>3 DEF Stream!UpTo, Stream!Rest
<1> HIDE DEF f
<1>5. Stream!Min(I) = Min(I)
  BY DEF Stream!Min, Min
<1>6. IsFirst(s, {c}, f)
  BY <1>1, <1>2, <1>5, FirstIsLeast
<1>7. f = k
  BY <1>2, <1>6 DEF IsFirst
<1>8. QED
  BY <1>3, <1>4, <1>7

(* A stream without the byte that it is cut at stays whole.                   *)
LEMMA NotCutting ==
  ASSUME NEW s, NEW c, \A i \in 1 .. Len(s) : s[i] # c
  PROVE  ~Stream!Contains(s, c) /\ Stream!UpTo(s, c) = s
<1>1. ~Stream!Contains(s, c)
  BY DEF Stream!Contains
<1>2. QED
  BY <1>1 DEF Stream!UpTo

(* Packets are added to the end of the stream, as much of them as fits.       *)
LEMMA ReceiveExtends ==
  ASSUME IInv, NEW p \in Packets, Receive(p), Open, Open'
  PROVE  Stream!Receive
<1>1. TypeOK
  BY DEF IInv
<1> DEFINE a == Accepted(p)
           len == usb_msg_len
           b == usb_msg_buffer
           s == SubSeq(b, 0 + 1, len)
           t == SubSeq(b', 0 + 1, len + a)
           fit == Stream!Fitting(p)
<1>2. /\ p \in Seq(Bytes) /\ a \in 1 .. Len(p)
      /\ len + a \in 1 .. Limit /\ usb_msg_len' = len + a
      /\ b' \in Buffers
      /\ \A i \in 1 .. len : b'[i] = b[i]
      /\ \A i \in 1 .. a : b'[len + i] = p[i]
  BY <1>1, Receiving
<1>3. /\ Limit \in Nat /\ USB_MSG_MAXLEN = Limit + 1 /\ len \in 0 .. Limit
      /\ b \in Buffers /\ LF # NUL
  BY <1>1, BufferFacts DEF TypeOK, Buffers, Text
<1>4. pc = "idle" /\ pc' = "loop" /\ line' = line
  BY DEF Receive
<1>5. Waiting = s /\ Waiting' = t
  <2>1. Handled = 0 /\ Handled' = 0
    BY <1>4 DEF Handled
  <2>2. QED
    BY <1>2, <2>1 DEF Waiting
<1>6. Plain(b, 1, len)
  BY <1>4 DEF IInv, OneLine, Open
<1>7. a = IF Len(p) <= Limit - len THEN Len(p) ELSE Limit - len
  <2>1. a = IF Len(p) < Limit - len THEN Len(p) ELSE Limit - len
    BY DEF Accepted
  <2>2. Len(p) \in Nat
    BY <1>2
  <2> HIDE DEF a
  <2>3. QED
    BY <1>3, <2>1, <2>2
<1> HIDE DEF a
<1>8. /\ s \in Seq(Text) /\ Len(s) = len /\ \A k \in 1 .. len : s[k] = b[k]
  <2>1. len \in 0 .. USB_MSG_MAXLEN /\ 0 <= len /\ len - 0 = len /\ \A k \in 1 .. len : 0 + k = k
    BY <1>3
  <2>2. /\ s \in Seq(Text) /\ Len(s) = len - 0 /\ \A k \in 1 .. len - 0 : s[k] = b[0 + k]
    BY <1>3, <2>1, Part
  <2> HIDE DEF s, b, len
  <2>3. QED
    BY <2>1, <2>2
<1>9. /\ t \in Seq(Text) /\ Len(t) = len + a /\ \A k \in 1 .. len + a : t[k] = b'[k]
  <2> DEFINE n == len + a
  <2>1. n \in 0 .. USB_MSG_MAXLEN /\ 0 <= n /\ n - 0 = n /\ \A k \in 1 .. n : 0 + k = k
    BY <1>2, <1>3
  <2> HIDE DEF n
  <2> DEFINE u == SubSeq(b', 0 + 1, n)
  <2>2. /\ u \in Seq(Text) /\ Len(u) = n - 0 /\ \A k \in 1 .. n - 0 : u[k] = b'[0 + k]
    BY <1>2, <2>1, Part
  <2> HIDE DEF u
  <2>3. /\ u \in Seq(Text) /\ Len(u) = n /\ \A k \in 1 .. n : u[k] = b'[k]
    BY <2>1, <2>2
  <2>4. QED
    BY <2>3 DEF n, u
<1>10. Waiting = s /\ fit = SubSeq(p, 1, a)
  <2>1. fit = SubSeq(p, 1, IF Len(p) <= Limit - Len(Waiting) THEN Len(p) ELSE Limit - Len(Waiting))
    BY DEF Stream!Fitting, Waiting, Handled
  <2>2. QED
    BY <1>5, <1>7, <1>8, <2>1
<1>11. fit \in Seq(Text) /\ Len(fit) = a /\ \A k \in 1 .. a : fit[k] = p[k]
  <2>1. a \in Nat /\ a <= Len(p) /\ Len(p) \in Nat
    BY <1>2
  <2>2. \A k \in 1 .. a : p[k] \in Text
    BY <1>2, <2>1 DEF Text
  <2>3. /\ SubSeq(p, 1, a) \in Seq(Text) /\ Len(SubSeq(p, 1, a)) = IF 1 <= a THEN a - 1 + 1 ELSE 0
        /\ \A k \in 1 .. a - 1 + 1 : SubSeq(p, 1, a)[k] = p[1 + k - 1]
    BY <2>1, <2>2, SubSeqProperties
  <2>4. a - 1 + 1 = a /\ 1 <= a /\ \A k \in 1 .. a : 1 + k - 1 = k
    BY <1>2
  <2>5. QED
    BY <1>10, <2>3, <2>4
<1> HIDE DEF s, t, fit
<1>12. t = s \o fit
  <2>1. /\ s \o fit \in Seq(Text) /\ Len(s \o fit) = len + a
        /\ \A k \in 1 .. len + a : (s \o fit)[k] = IF k <= len THEN s[k] ELSE fit[k - len]
    BY <1>8, <1>11, ConcatProperties
  <2>2. ASSUME NEW k \in 1 .. len + a PROVE t[k] = (s \o fit)[k]
    <3>1. CASE k <= len
      <4>1. k \in 1 .. len
        BY <1>3, <3>1
      <4>2. t[k] = b'[k] /\ b'[k] = b[k] /\ s[k] = b[k] /\ (s \o fit)[k] = s[k]
        <5> HIDE DEF b, len
        <5>1. b'[k] = b[k]
          BY <1>2, <4>1
        <5>2. t[k] = b'[k]
          BY <1>9
        <5>3. s[k] = b[k]
          BY <1>8, <4>1
        <5>4. (s \o fit)[k] = s[k]
          BY <2>1, <3>1
        <5>5. QED
          BY <5>1, <5>2, <5>3, <5>4
      <4>3. QED
        BY <4>2
    <3>2. CASE ~(k <= len)
      <4> DEFINE i == k - len
      <4>1. i \in 1 .. a /\ len + i = k
        BY <1>2, <1>3, <3>2
      <4>2. b'[len + i] = p[i]
        BY <1>2, <4>1
      <4>3. fit[i] = p[i]
        BY <1>11, <4>1
      <4> HIDE DEF i
      <4>4. b'[k] = fit[i]
        BY <4>1, <4>2, <4>3
      <4>5. QED
        BY <1>9, <2>1, <3>2, <4>4 DEF i
    <3>3. QED
      BY <3>1, <3>2
  <2>3. QED
    BY <1>9, <2>1, <2>2, SeqEqual
<1>13. ~Stream!Contains(Waiting, LF)
  <2>1. \A i \in 1 .. Len(s) : s[i] # LF
    BY <1>6, <1>8 DEF Plain
  <2>2. QED
    BY <1>5, <2>1, NotCutting
<1>14. Waiting' = Waiting \o Stream!Fitting(p)
  BY <1>5, <1>12 DEF fit
<1>15. QED
  BY <1>4, <1>13, <1>14 DEF Stream!Receive, Waiting, Handled, Open

(* Counted from the start of the buffer, a part of it has the same places.    *)
LEMMA Beginning ==
  ASSUME NEW b \in Buffers, NEW n \in 0 .. USB_MSG_MAXLEN
  PROVE  /\ SubSeq(b, 0 + 1, n) \in Seq(Text) /\ Len(SubSeq(b, 0 + 1, n)) = n
         /\ \A k \in 1 .. n : SubSeq(b, 0 + 1, n)[k] = b[k]
<1> DEFINE s == SubSeq(b, 0 + 1, n)
<1>1. 0 \in Nat /\ 0 <= n /\ n - 0 = n /\ \A k \in 1 .. n : 0 + k = k
  OBVIOUS
<1>2. s \in Seq(Text) /\ Len(s) = n - 0 /\ \A k \in 1 .. n - 0 : s[k] = b[0 + k]
  BY <1>1, Part
<1> HIDE DEF s
<1>3. s \in Seq(Text) /\ Len(s) = n /\ \A k \in 1 .. n : s[k] = b[k]
  BY <1>1, <1>2
<1>4. QED
  BY <1>3 DEF s

(* A part of a part.                                                          *)
LEMMA PartOfPart ==
  ASSUME NEW b \in Buffers, NEW n \in 0 .. USB_MSG_MAXLEN, NEW s \in Seq(Text),
         Len(s) = n, \A k \in 1 .. n : s[k] = b[k],
         NEW i \in 0 .. n, NEW m \in i .. n
  PROVE  SubSeq(s, i + 1, m) = SubSeq(b, i + 1, m)
<1> DEFINE t == SubSeq(s, i + 1, m)
           u == SubSeq(b, i + 1, m)
<1>1. USB_MSG_MAXLEN \in Nat
  BY BufferFacts
<1>2. u \in Seq(Text) /\ Len(u) = m - i /\ \A k \in 1 .. m - i : u[k] = b[i + k]
  <2>1. i \in Nat /\ m \in 0 .. USB_MSG_MAXLEN /\ i <= m
    BY <1>1
  <2>2. QED
    BY <2>1, Part
<1>3. \A j \in i + 1 .. m : s[j] \in Text
  <2>1. \A j \in i + 1 .. m : j \in 1 .. Len(s)
    BY <1>1
  <2>2. QED
    BY <2>1
<1>4. i + 1 \in Int /\ m \in Int
  BY <1>1
<1>5. /\ t \in Seq(Text) /\ Len(t) = IF i + 1 <= m THEN m - (i + 1) + 1 ELSE 0
      /\ \A k \in 1 .. m - (i + 1) + 1 : t[k] = s[(i + 1) + k - 1]
  BY <1>3, <1>4, SubSeqProperties
<1> HIDE DEF t, u
<1>6. Len(t) = m - i
  BY <1>1, <1>5
<1>7. ASSUME NEW k \in 1 .. m - i PROVE t[k] = u[k]
  <2>1. k \in 1 .. m - (i + 1) + 1 /\ (i + 1) + k - 1 = i + k /\ i + k \in 1 .. n
    BY <1>1
  <2>2. t[k] = s[i + k] /\ s[i + k] = b[i + k] /\ u[k] = b[i + k]
    BY <1>2, <1>5, <2>1
  <2>3. QED
    BY <2>2
<1>8. t = u
  BY <1>2, <1>5, <1>6, <1>7, SeqEqual
<1>9. QED
  BY <1>8 DEF t, u

(* Parts of two buffers that agree there.                                     *)
LEMMA SamePart ==
  ASSUME NEW b \in Buffers, NEW c \in Buffers, NEW i \in Nat, NEW n \in 0 .. USB_MSG_MAXLEN, i <= n,
         \A k \in i + 1 .. n : b[k] = c[k]
  PROVE  SubSeq(b, i + 1, n) = SubSeq(c, i + 1, n)
<1> DEFINE s == SubSeq(b, i + 1, n)
           t == SubSeq(c, i + 1, n)
<1>1. /\ s \in Seq(Text) /\ Len(s) = n - i /\ \A k \in 1 .. n - i : s[k] = b[i + k]
      /\ t \in Seq(Text) /\ Len(t) = n - i /\ \A k \in 1 .. n - i : t[k] = c[i + k]
  BY Part
<1> HIDE DEF s, t
<1>2. ASSUME NEW k \in 1 .. n - i PROVE s[k] = t[k]
  <2>1. i + k \in i + 1 .. n
    BY BufferFacts
  <2>2. b[i + k] = c[i + k]
    BY <2>1
  <2>3. QED
    BY <1>1, <2>2
<1>3. s = t
  BY <1>1, <1>2, SeqEqual
<1>4. QED
  BY <1>3 DEF s, t

(* A line is what comes before the first newline, and before a carriage       *)
(* return in it, and what follows the newline stays.                          *)
LEMMA StartDelivers ==
  ASSUME IInv, StartLine, Open
  PROVE  Stream!Deliver
<1>1. TypeOK
  BY DEF IInv
<1> DEFINE cr == strchr(Put(usb_msg_buffer, end_of_msg, NUL), CR)
           b == usb_msg_buffer
           e == end_of_msg
           len == usb_msg_len
           s == SubSeq(b, 0 + 1, len)
           text == SubSeq(s, 0 + 1, e - 1)
<1>2. /\ e \in 1 .. USB_MSG_MAXLEN /\ cr \in 0 .. USB_MSG_MAXLEN
      /\ cr # 0 => cr < e /\ b[cr] = CR /\ \A i \in 1 .. cr - 1 : b[i] \notin {CR, NUL}
      /\ cr = 0 => \A i \in 1 .. e - 1 : b[i] = CR => \E j \in 1 .. i - 1 : b[j] = NUL
      /\ b' \in Buffers
      /\ \A i \in 1 .. USB_MSG_MAXLEN : b'[i] = IF i \in {e, cr} THEN NUL ELSE b[i]
  BY <1>1, Starting, Zenon
<1> HIDE DEF cr
<1>3. /\ Limit \in Nat /\ USB_MSG_MAXLEN = Limit + 1 /\ len \in 0 .. USB_MSG_MAXLEN
      /\ b \in Buffers /\ LF # NUL /\ CR # NUL
  BY <1>1, BufferFacts DEF TypeOK, Buffers, Text
<1>4. /\ pc = "loop" /\ e # 0 /\ pc' = "handle_msg" /\ line' = String(b')
      /\ usb_msg_len' = len /\ end_of_msg' = e /\ context' = context /\ pipelined' = pipelined
  BY DEF StartLine
<1>5. /\ e \in 1 .. len /\ b[e] = LF /\ \A k \in 1 .. e - 1 : b[k] \notin {LF, NUL}
  BY <1>4 DEF IInv, OneLine, Open, Plain
<1>6. Waiting = s /\ Waiting' = SubSeq(b', e + 1, len)
  BY <1>4 DEF Waiting, Handled
<1>7. s \in Seq(Text) /\ Len(s) = len /\ \A k \in 1 .. len : s[k] = b[k]
  BY <1>3, Beginning
<1> HIDE DEF s
<1>8. /\ Stream!Contains(s, LF) /\ Stream!UpTo(s, LF) = SubSeq(s, 1, e - 1)
      /\ Stream!Rest(s, LF) = SubSeq(s, e + 1, len)
  <2>1. e \in 1 .. Len(s) /\ s[e] = LF
    BY <1>5, <1>7
  <2>2. \A i \in 1 .. e - 1 : i \in 1 .. len
    BY <1>3, <1>5
  <2>3. \A i \in 1 .. e - 1 : s[i] # LF
    BY <1>5, <1>7, <2>2
  <2>4. QED
    BY <1>7, <2>1, <2>3, Cutting
<1>9. Waiting' = Stream!Rest(s, LF)
  <2>1. SubSeq(s, e + 1, len) = SubSeq(b, e + 1, len)
    <3>1. e \in 0 .. len /\ len \in e .. len
      BY <1>3, <1>5
    <3>2. QED
      BY <1>3, <1>7, <3>1, PartOfPart
  <2>2. SubSeq(b', e + 1, len) = SubSeq(b, e + 1, len)
    <3>1. e \in Nat /\ e <= len
      BY <1>3, <1>5
    <3>2. ASSUME NEW k \in e + 1 .. len PROVE b'[k] = b[k]
      <4>1. k \in 1 .. USB_MSG_MAXLEN /\ k \notin {e, cr}
        BY <1>2, <1>3, <1>5
      <4>2. QED
        BY <1>2, <4>1
    <3>3. QED
      BY <1>2, <1>3, <3>1, <3>2, SamePart
  <2>3. QED
    BY <1>6, <1>8, <2>1, <2>2
<1>10. text = Stream!UpTo(s, LF) /\ text = SubSeq(b, 0 + 1, e - 1)
  <2>1. 0 \in 0 .. len /\ e - 1 \in 0 .. len
    BY <1>3, <1>5
  <2>2. SubSeq(s, 0 + 1, e - 1) = SubSeq(b, 0 + 1, e - 1)
    BY <1>3, <1>7, <2>1, PartOfPart
  <2>3. 0 + 1 = 1
    OBVIOUS
  <2>4. QED
    BY <1>8, <2>2, <2>3
<1>11. text \in Seq(Text) /\ Len(text) = e - 1 /\ \A k \in 1 .. e - 1 : text[k] = b[k]
  <2>1. e - 1 \in 0 .. USB_MSG_MAXLEN
    BY <1>3, <1>5
  <2>2. QED
    BY <1>3, <1>10, <2>1, Beginning
<1> HIDE DEF text
<1>12. line' = Stream!UpTo(text, CR)
  <2>1. CASE cr = 0
    <3>1. \A i \in 1 .. e - 1 : b[i] # CR
      <4> SUFFICES ASSUME NEW i \in 1 .. e - 1, b[i] = CR PROVE FALSE
        OBVIOUS
      <4>1. PICK j \in 1 .. i - 1 : b[j] = NUL
        BY <1>2, <2>1
      <4>2. j \in 1 .. e - 1
        BY <1>2
      <4>3. QED
        BY <1>5, <4>1, <4>2
    <3>2. Stream!UpTo(text, CR) = text
      BY <1>11, <3>1, NotCutting
    <3>3. \A i \in 1 .. e - 1 : b'[i] = b[i]
      <4> TAKE i \in 1 .. e - 1
      <4>1. i \in 1 .. USB_MSG_MAXLEN /\ i # e /\ i # cr
        BY <1>3, <1>2, <2>1
      <4>2. QED
        BY <1>2, <4>1
    <3>4. b'[e] = NUL
      BY <1>2
    <3>5. \A i \in 1 .. e - 1 : b'[i] # NUL
      BY <1>5, <3>3
    <3>6. line' = SubSeq(b', 1, e - 1)
      BY <1>2, <1>4, <3>4, <3>5, StringEnds
    <3>7. SubSeq(b', 0 + 1, e - 1) = SubSeq(b, 0 + 1, e - 1)
      <4>1. 0 \in Nat /\ e - 1 \in 0 .. USB_MSG_MAXLEN /\ 0 <= e - 1 /\ 0 + 1 = 1
        BY <1>3, <1>2
      <4>2. QED
        BY <1>2, <1>3, <3>3, <4>1, SamePart
    <3>8. 0 + 1 = 1
      OBVIOUS
    <3>9. QED
      BY <1>10, <3>2, <3>6, <3>7, <3>8
  <2>2. CASE cr # 0
    <3>1. cr \in 1 .. e - 1 /\ b[cr] = CR /\ \A i \in 1 .. cr - 1 : b[i] \notin {CR, NUL}
      BY <1>2, <2>2
    <3>2. Stream!UpTo(text, CR) = SubSeq(text, 1, cr - 1)
      <4>1. cr \in 1 .. Len(text) /\ text[cr] = CR
        BY <1>11, <3>1
      <4>2. \A i \in 1 .. cr - 1 : i \in 1 .. e - 1
        BY <1>2, <3>1
      <4>3. \A i \in 1 .. cr - 1 : text[i] # CR
        BY <1>11, <3>1, <4>2
      <4>4. QED
        BY <1>11, <4>1, <4>3, Cutting
    <3>3. SubSeq(text, 0 + 1, cr - 1) = SubSeq(b, 0 + 1, cr - 1)
      <4>1. e - 1 \in 0 .. USB_MSG_MAXLEN /\ 0 \in 0 .. e - 1 /\ cr - 1 \in 0 .. e - 1
        BY <1>3, <1>2, <3>1
      <4>2. QED
        BY <1>3, <1>11, <4>1, PartOfPart
    <3>4. \A i \in 1 .. cr - 1 : b'[i] = b[i]
      <4> TAKE i \in 1 .. cr - 1
      <4>1. i \in 1 .. USB_MSG_MAXLEN /\ i # e /\ i # cr
        BY <1>3, <1>2, <3>1
      <4>2. QED
        BY <1>2, <4>1
    <3>5. b'[cr] = NUL /\ cr \in 1 .. USB_MSG_MAXLEN
      BY <1>2, <3>1
    <3>6. \A i \in 1 .. cr - 1 : b'[i] # NUL
      BY <3>1, <3>4
    <3>7. line' = SubSeq(b', 1, cr - 1)
      BY <1>2, <1>4, <3>5, <3>6, StringEnds
    <3>8. SubSeq(b', 0 + 1, cr - 1) = SubSeq(b, 0 + 1, cr - 1)
      <4>1. 0 \in Nat /\ cr - 1 \in 0 .. USB_MSG_MAXLEN /\ 0 <= cr - 1 /\ 0 + 1 = 1
        BY <1>3, <3>5
      <4>2. QED
        BY <1>2, <1>3, <3>4, <4>1, SamePart
    <3>9. 0 + 1 = 1
      OBVIOUS
    <3>10. QED
      BY <3>2, <3>3, <3>7, <3>8, <3>9
  <2>3. QED
    BY <2>1, <2>2
<1>13. Stream!Contains(Waiting, LF) /\ Waiting' = Stream!Rest(Waiting, LF)
  BY <1>6, <1>8, <1>9
<1>14. line' = Stream!UpTo(Stream!UpTo(Waiting, LF), CR)
  BY <1>6, <1>10, <1>12
<1>15. UNCHANGED Open
  BY <1>4 DEF Open
<1>16. QED
  BY <1>13, <1>14, <1>15 DEF Stream!Deliver, Waiting, Handled, Open

(* memmove takes nothing from what has not been handed over, and adds nothing.*)
LEMMA FinishKeepsStream ==
  ASSUME IInv, NEW r \in ReplyLengths, NEW S \in SUBSET Colons, FinishLine(r, S), Open
  PROVE  Waiting' = Waiting
<1>1. TypeOK /\ Found
  BY DEF IInv
<1> DEFINE b == usb_msg_buffer
           e == end_of_msg
           len == usb_msg_len
           n == len - e
           s == SubSeq(b', 0 + 1, n)
           t == SubSeq(b, e + 1, len)
<1>2. /\ b' \in Buffers
      /\ usb_msg_len' = IF len < e THEN 0 ELSE len - e
      /\ \A i \in 1 .. usb_msg_len' : e + i > Len(line) => b'[i] = b[e + i]
  BY <1>1, Finishing
<1>3. /\ USB_MSG_MAXLEN \in Nat /\ len \in 0 .. USB_MSG_MAXLEN /\ b \in Buffers /\ Len(line) \in Nat
  BY <1>1, BufferFacts DEF TypeOK, Buffers, Text
<1>4. pc = "handle_msg" /\ pc' = "loop"
  BY DEF FinishLine
<1>5. e \in 1 .. len /\ Len(line) < e
  BY <1>1, <1>4 DEF IInv, OneLine, Open, Found
<1>6. n \in 0 .. USB_MSG_MAXLEN /\ usb_msg_len' = n /\ e \in Nat /\ e <= len
  BY <1>2, <1>3, <1>5
<1>7. Waiting = t /\ Waiting' = s
  <2>1. Handled = e /\ Handled' = 0
    BY <1>4 DEF Handled
  <2>2. QED
    BY <1>6, <2>1 DEF Waiting
<1>8. \A i \in 1 .. n : b'[i] = b[e + i]
  <2> TAKE i \in 1 .. n
  <2>1. i \in 1 .. usb_msg_len' /\ e + i > Len(line)
    BY <1>3, <1>5, <1>6
  <2>2. QED
    BY <1>2, <2>1
<1>9. t \in Seq(Text) /\ Len(t) = n /\ \A k \in 1 .. n : t[k] = b[e + k]
  BY <1>3, <1>6, Part
<1> HIDE DEF n, t
<1>10. s \in Seq(Text) /\ Len(s) = n /\ \A k \in 1 .. n : s[k] = b'[k]
  BY <1>2, <1>6, Beginning
<1> HIDE DEF s, b
<1>11. \A k \in 1 .. n : s[k] = t[k]
  BY <1>8, <1>9, <1>10
<1>12. s = t
  BY <1>9, <1>10, <1>11, SeqEqual
<1>13. QED
  BY <1>7, <1>12

(* Only a full buffer without a newline is dropped.                           *)
LEMMA LeaveDropsFull ==
  ASSUME IInv, Leave, Open
  PROVE  Stream!Drop \/ Waiting' = Waiting
<1>1. TypeOK
  BY DEF IInv
<1> DEFINE b == usb_msg_buffer
           len == usb_msg_len
           s == SubSeq(b, 0 + 1, len)
<1>2. /\ pc = "loop" /\ end_of_msg = 0 /\ pc' = "idle" /\ usb_msg_len' = Kept /\ b' = b /\ line' = line
      /\ context' = context /\ pipelined' = pipelined
  BY DEF Leave, Open
<1>3. /\ USB_MSG_MAXLEN \in Nat /\ Limit = USB_MSG_MAXLEN - 1 /\ len \in 0 .. USB_MSG_MAXLEN /\ b \in Buffers
  BY <1>1, BufferFacts DEF TypeOK, Buffers, Text
<1>4. Waiting = s /\ Waiting' = SubSeq(b, 0 + 1, Kept)
  BY <1>2 DEF Waiting, Handled
<1>5. s \in Seq(Text) /\ Len(s) = len /\ \A k \in 1 .. len : s[k] = b[k]
  BY <1>3, Beginning
<1>6. Plain(b, 1, len)
  BY <1>2 DEF IInv, OneLine, Open
<1>7. CASE len # Limit
  <2>1. Kept = len
    BY <1>7 DEF Kept
  <2>2. QED
    BY <1>4, <2>1
<1>8. CASE len = Limit
  <2> HIDE DEF s
  <2>1. Waiting' = <<>>
    <3>1. Kept = 0
      BY <1>8 DEF Kept
    <3>2. SubSeq(b, 0 + 1, 0) = <<>>
      BY SubSeqEmpty
    <3>3. QED
      BY <1>4, <3>1, <3>2
  <2>2. \A i \in 1 .. Len(s) : s[i] # LF
    BY <1>5, <1>6 DEF Plain
  <2>3. ~Stream!Contains(Waiting, LF)
    BY <1>4, <2>2, NotCutting
  <2>4. Len(Waiting) = Limit
    BY <1>4, <1>5, <1>8
  <2>5. UNCHANGED Open
    BY <1>2 DEF Open
  <2>6. Stream!Drop
    BY <1>2, <2>1, <2>3, <2>4, <2>5 DEF Stream!Drop, Waiting, Handled, Open
  <2>7. QED
    BY <2>6
<1>9. QED
  BY <1>7, <1>8

LEMMA StepRefines == IInv /\ [Next]_vars => [Stream!Next]_(Stream!lineStreamVars)
<1> SUFFICES ASSUME IInv, [Next]_vars
             PROVE  Stream!Next \/ UNCHANGED Stream!lineStreamVars
  OBVIOUS
<1>1. ASSUME ~Open' PROVE Stream!Next
  BY <1>1 DEF Stream!Next, Stream!Close, Open
<1>2. ASSUME Open, UNCHANGED <<Waiting, line, Open>> PROVE UNCHANGED Stream!lineStreamVars
  BY <1>2 DEF Stream!lineStreamVars, Waiting, Handled, Open
<1>3. ASSUME Open, Stream!Receive \/ Stream!Deliver \/ Stream!Drop PROVE Stream!Next
  BY <1>3 DEF Stream!Next, Open
<1>4. CASE UNCHANGED vars
  BY <1>4 DEF vars, Stream!lineStreamVars
<1>5. ASSUME NEW p \in Packets, Receive(p) PROVE Stream!Next
  <2>1. Open' => Open
    BY <1>5 DEF Receive, Open
  <2>2. QED
    BY <1>1, <1>3, <1>5, <2>1, ReceiveExtends
<1>6. CASE StartLine
  <2>1. Open' => Open
    BY <1>6 DEF StartLine, Open
  <2>2. QED
    BY <1>1, <1>3, <1>6, <2>1, StartDelivers
<1>7. ASSUME NEW r \in ReplyLengths, NEW S \in SUBSET Colons, FinishLine(r, S)
      PROVE  Stream!Next \/ UNCHANGED Stream!lineStreamVars
  <2>1. UNCHANGED <<Open, line>>
    BY <1>7 DEF FinishLine, Open
  <2>2. QED
    BY <1>1, <1>2, <1>7, <2>1, FinishKeepsStream
<1>8. CASE Leave
  <2>1. (Open' => Open) /\ (Open => UNCHANGED <<Open, line>>)
    BY <1>8 DEF Leave, Open
  <2>2. QED
    BY <1>1, <1>2, <1>3, <1>8, <2>1, LeaveDropsFull
<1>9. CASE Shutdown \/ NoPacket
  <2>1. ~Open'
    BY <1>9 DEF Shutdown, NoPacket, Open
  <2>2. QED
    BY <1>1, <2>1
<1>10. QED
  BY <1>4, <1>5, <1>6, <1>7, <1>8, <1>9 DEF Next, Off

(* The receive callback implements LineStream: lines reach handle_msg in      *)
(* order, whole and once, as long as the board serves and the host sends one  *)
(* command at a time, for any size of the buffer and any packets.             *)
THEOREM Refinement == Spec => LinesAreTheStream
<1>1. Init => Stream!Init
  <2> SUFFICES ASSUME Init PROVE Stream!Init
    OBVIOUS
  <2>1. /\ usb_msg_len = 0 /\ pc = "idle" /\ context = "running" /\ line = <<>> /\ pipelined = FALSE
    BY DEF Init
  <2>2. SubSeq(usb_msg_buffer, 0 + 1, 0) = <<>>
    BY SubSeqEmpty
  <2>3. QED
    BY <2>1, <2>2 DEF Stream!Init
<1>2. QED
  BY <1>1, StepRefines, Invariance, PTL DEF Spec, LinesAreTheStream, Stream!Spec

------------------------------------------------------------------------------
(***************************************************************************)
(* The command interpreter, msg_handler.c: module Commands.                *)
(***************************************************************************)

(* The holdoffs are those of the last DELAY_COEFF:SET that was acknowledged.  *)
Stored ==
  /\ coefficients \in [1 .. 5 -> 0 .. UINT16_MAX - 1]
  /\ holdoff = Holdoffs(coefficients)

CInv == CommandsTypeOK /\ Stored /\ HoldoffsReadBack

(* The action of OnlyAcknowledgedLinesAct.                                    *)
Harmless ==
  reply'.kind \in {"NACK", "value"} =>
    /\ UNCHANGED <<gpio, output_inhibited, led, note, holdoff, fan_override>>
    /\ pressed' # pressed => reply'.values = <<Bit(pressed.int), Bit(pressed.ext)>>
                             /\ reply'.kind = "value"

(* Types of everything but the reply.                                         *)
BoardOK ==
  /\ gpio \in [output_t -> BOOLEAN] /\ output_inhibited \in [output_t -> BOOLEAN]
  /\ led \in [{"RUN", "ERR"} -> 0 .. 2] /\ pressed \in [{"int", "ext"} -> BOOLEAN]
  /\ note \in [freq : 1 .. MaxFrequency, remaining : 0 .. UINT32_MAX]
  /\ holdoff \in [{"ADC", "BATT", "REG", "UVLO", "NEG"} -> 0 .. UINT16_MAX - 1]
  /\ fan_override \in BOOLEAN

------------------------------------------------------------------------------
(***************************************************************************)
(* The parameters, and the kinds of answers.                               *)
(***************************************************************************)

(* The widths of the C types.                                                 *)
LEMMA Widths ==
  /\ UINT16_MAX \in Nat /\ UINT16_MAX >= 1
  /\ MaxFrequency \in Nat /\ MaxFrequency >= 1 /\ 523 \in 1 .. MaxFrequency
BY SMT DEF UINT16_MAX, MaxFrequency

(* The constants, and the range of every number a line may hold.              *)
LEMMA CommandsParameters ==
  /\ NumOutputs \in Nat /\ OUT_5V = NumOutputs - 1 /\ BRAIN_OUTPUT \in output_t
  /\ UINT32_MAX \in Nat /\ UINT32_MAX >= 1 /\ UINT16_MAX \in Nat /\ UINT16_MAX >= 1
  /\ MaxFrequency \in Nat /\ MaxFrequency >= 1 /\ 523 \in 1 .. MaxFrequency
  /\ \A word : isdigit(word) => strtoul(word) \in 0 .. UINT32_MAX
<1>1. /\ NumOutputs \in Nat /\ BRAIN_OUTPUT \in 0 .. OUT_5V - 1
      /\ UINT32_MAX \in Nat /\ UINT32_MAX > UINT16_MAX
      /\ \A word \in DOMAIN NumberOf : NumberOf[word] \in Nat
  BY CommandsAssumption
<1>2. OUT_5V = NumOutputs - 1 /\ BRAIN_OUTPUT \in output_t
  <2>1. OUT_5V = NumOutputs - 1
    BY DEF OUT_5V
  <2>2. BRAIN_OUTPUT \in 0 .. OUT_5V
    BY <1>1, <2>1
  <2>3. QED
    BY <2>1, <2>2 DEF output_t
<1>3. /\ UINT16_MAX \in Nat /\ UINT16_MAX >= 1
      /\ MaxFrequency \in Nat /\ MaxFrequency >= 1 /\ 523 \in 1 .. MaxFrequency
  BY Widths
<1>4. \A word : isdigit(word) => strtoul(word) \in 0 .. UINT32_MAX
  BY <1>1 DEF isdigit, strtoul
<1>5. QED
  BY <1>1, <1>2, <1>3, <1>4

(* Five coefficients, as a tuple.                                             *)
LEMMA FiveOfThem ==
  ASSUME NEW S, NEW c \in [1 .. 5 -> S]
  PROVE  c = <<c[1], c[2], c[3], c[4], c[5]>>
OBVIOUS

(* The two latches, as a function.                                            *)
LEMMA Buttons ==
  ASSUME NEW S, NEW a \in S, NEW b \in S
  PROVE  [int |-> a, ext |-> b] \in [{"int", "ext"} -> S]
OBVIOUS

(* The two commanded LEDs, as a function.                                     *)
LEMMA Leds ==
  ASSUME NEW S, NEW a \in S, NEW b \in S
  PROVE  [RUN |-> a, ERR |-> b] \in [{"RUN", "ERR"} -> S]
OBVIOUS

(* A refused line changes the reply alone.                                    *)
LEMMA Refused == ASSUME CInv, NEW msg, Nack(msg) PROVE CInv' /\ Harmless
<1>1. UNCHANGED <<gpio, output_inhibited, led, pressed, note, holdoff, fan_override, coefficients>>
  BY DEF Nack, board
<1>2. reply' = [to |-> msg, kind |-> "NACK", values |-> <<>>]
  BY DEF Nack, Respond
<1>3. reply'.kind = "NACK"
  BY <1>2
<1>4. CommandsTypeOK'
  BY <1>1, <1>3 DEF CInv, CommandsTypeOK
<1>5. Stored' /\ HoldoffsReadBack'
  BY <1>1, <1>3 DEF CInv, Stored, HoldoffsReadBack
<1>6. QED
  BY <1>1, <1>4, <1>5 DEF CInv, Harmless

(* A query changes the reply alone.                                           *)
LEMMA Queried ==
  ASSUME CInv, NEW msg, NEW values, Value(msg, values), UNCHANGED board,
         Word(msg, 1) = "*SYS" /\ Word(msg, 2) = "DELAY_COEFF" => values = coefficients
  PROVE  CInv' /\ Harmless
<1>1. UNCHANGED <<gpio, output_inhibited, led, pressed, note, holdoff, fan_override, coefficients>>
  BY DEF Value, board
<1>2. reply' = [to |-> msg, kind |-> "value", values |-> values]
  BY DEF Value, Respond
<1>3. reply'.kind = "value" /\ reply'.to = msg /\ reply'.values = values
  BY <1>2
<1>4. CommandsTypeOK'
  BY <1>1, <1>3 DEF CInv, CommandsTypeOK
<1>5. Stored' /\ HoldoffsReadBack'
  BY <1>1, <1>3 DEF CInv, Stored, HoldoffsReadBack
<1>6. QED
  BY <1>1, <1>4, <1>5 DEF CInv, Harmless

(* An acknowledged line may change the board, within its types.               *)
LEMMA Acknowledged ==
  ASSUME NEW msg, Ack(msg), BoardOK', Stored'
  PROVE  CInv' /\ Harmless
<1>1. reply' = [to |-> msg, kind |-> "ACK", values |-> <<>>]
  BY DEF Ack, Respond
<1>2. reply'.kind = "ACK"
  BY <1>1
<1>3. CommandsTypeOK' /\ HoldoffsReadBack' /\ Harmless
  BY <1>2 DEF BoardOK, CommandsTypeOK, HoldoffsReadBack, Harmless
<1>4. QED
  BY <1>3 DEF CInv

(* enable_output writes one pin, or none if the output is inhibited.          *)
LEMMA Enabling ==
  ASSUME BoardOK, NEW o, NEW on \in BOOLEAN, enable_output(o, on)
  PROVE  gpio' \in [output_t -> BOOLEAN]
<1>1. gpio' = IF output_inhibited[o] THEN gpio ELSE [gpio EXCEPT ![o] = on]
  BY DEF enable_output
<1>2. QED
  BY <1>1 DEF BoardOK

------------------------------------------------------------------------------
(***************************************************************************)
(* One command at a time.                                                  *)
(***************************************************************************)

LEMMA OutStep == ASSUME CInv, NEW msg, Word(msg, 1) = "OUT", OutCommand(msg) PROVE CInv' /\ Harmless
<1> DEFINE n == IF isdigit(Word(msg, 2)) THEN strtoul(Word(msg, 2)) ELSE NumOutputs
<1>1. n \in Nat
  BY CommandsParameters
<1>2. \/ Nack(msg)
      \/ /\ enable_output(n, Word(msg, 4) \in Ones) /\ Ack(msg)
         /\ UNCHANGED <<output_inhibited, led, pressed, note, holdoff, fan_override, coefficients>>
      \/ \E values : Value(msg, values) /\ UNCHANGED board
  <2> HIDE DEF n
  <2>1. \/ n > OUT_5V
        \/ n <= OUT_5V
    BY <1>1, CommandsParameters
  <2>2. QED
    BY <1>1, <2>1, Zenon DEF OutCommand, n
<1> HIDE DEF n
<1>3. ASSUME enable_output(n, Word(msg, 4) \in Ones), Ack(msg),
             UNCHANGED <<output_inhibited, led, pressed, note, holdoff, fan_override, coefficients>>
      PROVE  CInv' /\ Harmless
  <2>1. gpio' \in [output_t -> BOOLEAN]
    <3>1. BoardOK
      BY DEF CInv, CommandsTypeOK, BoardOK
    <3>2. (Word(msg, 4) \in Ones) \in BOOLEAN
      OBVIOUS
    <3>3. QED
      BY <1>3, <3>1, <3>2, Enabling
  <2>2. BoardOK' /\ Stored'
    BY <1>3, <2>1 DEF CInv, CommandsTypeOK, BoardOK, Stored
  <2>3. QED
    BY <1>3, <2>2, Acknowledged
<1>4. QED
  BY <1>2, <1>3, Refused, Queried

LEMMA LedStep == ASSUME CInv, NEW msg, Word(msg, 1) = "LED", LedCommand(msg) PROVE CInv' /\ Harmless
<1> DEFINE l == Word(msg, 2)
           s == CASE Word(msg, 4) = "0" -> 0 [] Word(msg, 4) = "1" -> 1
                  [] Word(msg, 4) = "F" -> 2 [] OTHER -> 3
<1>1. s \in 0 .. 3
  OBVIOUS
<1>2. \/ Nack(msg)
      \/ /\ s # 3 /\ led' = [led EXCEPT ![l] = s] /\ Ack(msg)
         /\ UNCHANGED <<gpio, output_inhibited, pressed, note, holdoff, fan_override, coefficients>>
      \/ \E values : Value(msg, values) /\ UNCHANGED board
  BY Zenon DEF LedCommand
<1> HIDE DEF s, l
<1>3. ASSUME s # 3, led' = [led EXCEPT ![l] = s], Ack(msg),
             UNCHANGED <<gpio, output_inhibited, pressed, note, holdoff, fan_override, coefficients>>
      PROVE  CInv' /\ Harmless
  <2>1. s \in 0 .. 2
    BY <1>1, <1>3
  <2>2. led' \in [{"RUN", "ERR"} -> 0 .. 2]
    BY <1>3, <2>1 DEF CInv, CommandsTypeOK
  <2>3. BoardOK' /\ Stored'
    BY <1>3, <2>2 DEF CInv, CommandsTypeOK, BoardOK, Stored
  <2>4. QED
    BY <1>3, <2>3, Acknowledged
<1>4. QED
  BY <1>2, <1>3, Refused, Queried

LEMMA BattStep == ASSUME CInv, NEW msg, Word(msg, 1) = "BATT", BattCommand(msg) PROVE CInv' /\ Harmless
BY Refused, Queried DEF BattCommand

(* The one query that changes something: it forgets the presses it reports.   *)
LEMMA BtnStep == ASSUME CInv, NEW msg, Word(msg, 1) = "BTN", BtnCommand(msg) PROVE CInv' /\ Harmless
<1>1. CASE Nack(msg)
  BY <1>1, Refused
<1>2. CASE /\ Value(msg, <<Bit(pressed.int), Bit(pressed.ext)>>)
           /\ pressed' = [int |-> FALSE, ext |-> FALSE]
           /\ UNCHANGED <<gpio, output_inhibited, led, note, holdoff, fan_override>>
  <2>1. reply' = [to |-> msg, kind |-> "value", values |-> <<Bit(pressed.int), Bit(pressed.ext)>>]
        /\ coefficients' = coefficients
    BY <1>2 DEF Value, Respond
  <2>2. /\ reply'.kind = "value" /\ reply'.to = msg
        /\ reply'.values = <<Bit(pressed.int), Bit(pressed.ext)>>
    BY <2>1
  <2>3. pressed' \in [{"int", "ext"} -> BOOLEAN]
    BY <1>2, FALSE \in BOOLEAN, Buttons
  <2>4. CommandsTypeOK'
    BY <1>2, <2>2, <2>3 DEF CInv, CommandsTypeOK
  <2>5. Stored' /\ HoldoffsReadBack'
    BY <1>2, <2>1, <2>2 DEF CInv, Stored, HoldoffsReadBack
  <2>6. Harmless
    BY <1>2, <2>2 DEF Harmless
  <2>7. QED
    BY <2>4, <2>5, <2>6 DEF CInv
<1>3. QED
  BY <1>1, <1>2 DEF BtnCommand

LEMMA NoteStep == ASSUME CInv, NEW msg, Word(msg, 1) = "NOTE", NoteCommand(msg) PROVE CInv' /\ Harmless
<1>1. \/ Nack(msg)
      \/ \E values : Value(msg, values) /\ UNCHANGED board
      \/ /\ isdigit(Word(msg, 2)) /\ isdigit(Word(msg, 3))
         /\ buzzer_note(strtoul(Word(msg, 2)), strtoul(Word(msg, 3))) /\ Ack(msg)
         /\ UNCHANGED <<gpio, output_inhibited, led, pressed, holdoff, fan_override, coefficients>>
  BY Zenon DEF NoteCommand
<1>2. ASSUME isdigit(Word(msg, 2)), isdigit(Word(msg, 3)),
             buzzer_note(strtoul(Word(msg, 2)), strtoul(Word(msg, 3))), Ack(msg),
             UNCHANGED <<gpio, output_inhibited, led, pressed, holdoff, fan_override, coefficients>>
      PROVE  CInv' /\ Harmless
  <2> DEFINE f == strtoul(Word(msg, 2))
             d == strtoul(Word(msg, 3))
  <2>1. f \in 0 .. UINT32_MAX /\ d \in 0 .. UINT32_MAX
    BY <1>2, CommandsParameters
  <2>2. note' = IF f = 0 \/ d = 0 THEN [note EXCEPT !.remaining = 0]
                ELSE [freq |-> IF f > MaxFrequency THEN MaxFrequency ELSE f, remaining |-> d]
    BY <1>2 DEF buzzer_note
  <2> HIDE DEF f, d
  <2>3. note \in [freq : 1 .. MaxFrequency, remaining : 0 .. UINT32_MAX]
    BY DEF CInv, CommandsTypeOK
  <2>4. note' \in [freq : 1 .. MaxFrequency, remaining : 0 .. UINT32_MAX]
    <3>1. 0 \in 0 .. UINT32_MAX
      BY CommandsParameters
    <3>2. CASE f = 0 \/ d = 0
      BY <2>2, <2>3, <3>1, <3>2
    <3>3. CASE ~(f = 0 \/ d = 0)
      <4> DEFINE g == IF f > MaxFrequency THEN MaxFrequency ELSE f
      <4>1. g \in 1 .. MaxFrequency
        BY <2>1, <3>3, CommandsParameters
      <4>2. note' = [freq |-> g, remaining |-> d]
        BY <2>2, <3>3
      <4> HIDE DEF g
      <4>3. QED
        BY <2>1, <4>1, <4>2
    <3>4. QED
      BY <3>2, <3>3
  <2>5. BoardOK' /\ Stored'
    BY <1>2, <2>4 DEF CInv, CommandsTypeOK, BoardOK, Stored
  <2>6. QED
    BY <1>2, <2>5, Acknowledged
<1>3. QED
  BY <1>1, <1>2, Refused, Queried

LEMMA StatusStep ==
  ASSUME CInv, NEW msg, Word(msg, 1) = "*STATUS?", StatusCommand(msg) PROVE CInv' /\ Harmless
BY Queried DEF StatusCommand

LEMMA TextStep ==
  ASSUME CInv, NEW msg, Word(msg, 1) # "*SYS", TextCommand(msg) PROVE CInv' /\ Harmless
BY Queried DEF TextCommand

(* *RESET keeps the holdoffs, and with them what GET? answers.                *)
LEMMA ResetStep == ASSUME CInv, NEW msg, ResetCommand(msg) PROVE CInv' /\ Harmless
<1>1. /\ output_inhibited' = [o \in output_t |-> FALSE]
      /\ gpio' = [o \in output_t |-> o = BRAIN_OUTPUT]
      /\ led' = [RUN |-> 0, ERR |-> 0]
      /\ note' = [note EXCEPT !.remaining = 0]
      /\ pressed' = [int |-> FALSE, ext |-> FALSE]
      /\ Ack(msg)
      /\ UNCHANGED <<holdoff, fan_override, coefficients>>
  BY DEF ResetCommand
<1>2. output_inhibited' \in [output_t -> BOOLEAN] /\ gpio' \in [output_t -> BOOLEAN]
  BY <1>1
<1>3. led' \in [{"RUN", "ERR"} -> 0 .. 2] /\ pressed' \in [{"int", "ext"} -> BOOLEAN]
  BY <1>1, FALSE \in BOOLEAN, 0 \in 0 .. 2, Buttons, Leds
<1>4. note' \in [freq : 1 .. MaxFrequency, remaining : 0 .. UINT32_MAX]
  <2>1. note \in [freq : 1 .. MaxFrequency, remaining : 0 .. UINT32_MAX] /\ 0 \in 0 .. UINT32_MAX
    BY CommandsParameters DEF CInv, CommandsTypeOK
  <2>2. QED
    BY <1>1, <2>1
<1>5. BoardOK' /\ Stored'
  BY <1>1, <1>2, <1>3, <1>4 DEF CInv, CommandsTypeOK, BoardOK, Stored
<1>6. QED
  BY <1>1, <1>5, Acknowledged

(* The holdoffs, the brain's supply and the fan override.                     *)
LEMMA SysStep == ASSUME CInv, NEW msg, Word(msg, 1) = "*SYS", SysCommand(msg) PROVE CInv' /\ Harmless
<1>1. \/ Word(msg, 2) = "DELAY_COEFF" /\ DelayCommand(msg)
      \/ Word(msg, 2) = "BRAIN" /\ BrainCommand(msg)
      \/ Word(msg, 2) = "FAN" /\ FanCommand(msg)
      \/ Nack(msg)
  BY Zenon DEF SysCommand
<1>2. ASSUME DelayCommand(msg) PROVE CInv' /\ Harmless
  <2>1. \/ Nack(msg)
        \/ /\ \A i \in 1 .. 5 : IsCoefficient(Word(msg, 3 + i))
           /\ StoreHoldoffs(Coefficients(msg)) /\ Ack(msg)
           /\ coefficients' = Coefficients(msg)
           /\ UNCHANGED <<gpio, output_inhibited, led, pressed, note, fan_override>>
        \/ /\ Value(msg, <<holdoff.ADC, holdoff.BATT, holdoff.REG, holdoff.UVLO, holdoff.NEG>>)
           /\ UNCHANGED board
    BY <1>2, Zenon DEF DelayCommand
  <2>2. ASSUME \A i \in 1 .. 5 : IsCoefficient(Word(msg, 3 + i)),
               StoreHoldoffs(Coefficients(msg)), Ack(msg), coefficients' = Coefficients(msg),
               UNCHANGED <<gpio, output_inhibited, led, pressed, note, fan_override>>
        PROVE  CInv' /\ Harmless
    <3> DEFINE c == Coefficients(msg)
    <3>1. \A i \in 1 .. 5 : strtoul(Word(msg, 3 + i)) \in 0 .. UINT16_MAX - 1
      <4> TAKE i \in 1 .. 5
      <4>1. isdigit(Word(msg, 3 + i)) /\ strtoul(Word(msg, 3 + i)) <= UINT16_MAX - 1
        BY <2>2 DEF IsCoefficient
      <4>2. strtoul(Word(msg, 3 + i)) \in 0 .. UINT32_MAX
        BY <4>1, CommandsParameters
      <4>3. QED
        BY <4>1, <4>2, CommandsParameters
    <3>2. c \in [1 .. 5 -> 0 .. UINT16_MAX - 1]
      BY <3>1 DEF Coefficients
    <3>3. holdoff' = Holdoffs(c) /\ coefficients' = c
      BY <2>2 DEF StoreHoldoffs
    <3> HIDE DEF c
    <3>4. Holdoffs(c) \in [{"ADC", "BATT", "REG", "UVLO", "NEG"} -> 0 .. UINT16_MAX - 1]
      BY <3>2 DEF Holdoffs
    <3>5. Stored'
      BY <3>2, <3>3 DEF Stored, Holdoffs
    <3>6. BoardOK'
      BY <2>2, <3>3, <3>4 DEF CInv, CommandsTypeOK, BoardOK
    <3>7. QED
      BY <2>2, <3>5, <3>6, Acknowledged
  <2>3. <<holdoff.ADC, holdoff.BATT, holdoff.REG, holdoff.UVLO, holdoff.NEG>> = coefficients
    <3>1. coefficients \in [1 .. 5 -> 0 .. UINT16_MAX - 1] /\ holdoff = Holdoffs(coefficients)
      BY DEF CInv, Stored
    <3>2. /\ holdoff.ADC = coefficients[1] /\ holdoff.BATT = coefficients[2] /\ holdoff.REG = coefficients[3]
          /\ holdoff.UVLO = coefficients[4] /\ holdoff.NEG = coefficients[5]
      BY <3>1 DEF Holdoffs
    <3>3. coefficients = <<coefficients[1], coefficients[2], coefficients[3], coefficients[4], coefficients[5]>>
      BY <3>1, FiveOfThem
    <3>4. QED
      BY <3>2, <3>3, Zenon
  <2>4. QED
    BY <2>1, <2>2, <2>3, Refused, Queried
<1>3. ASSUME BrainCommand(msg) PROVE CInv' /\ Harmless
  <2>1. ASSUME enable_output(BRAIN_OUTPUT, Word(msg, 4) \in Ones), Ack(msg),
               UNCHANGED <<output_inhibited, led, pressed, note, holdoff, fan_override, coefficients>>
        PROVE  CInv' /\ Harmless
    <3>1. gpio' \in [output_t -> BOOLEAN]
      <4>1. BoardOK
        BY DEF CInv, CommandsTypeOK, BoardOK
      <4>2. (Word(msg, 4) \in Ones) \in BOOLEAN
        OBVIOUS
      <4>3. QED
        BY <2>1, <4>1, <4>2, Enabling
    <3>2. BoardOK' /\ Stored'
      BY <2>1, <3>1 DEF CInv, CommandsTypeOK, BoardOK, Stored
    <3>3. QED
      BY <2>1, <3>2, Acknowledged
  <2>2. QED
    BY <1>3, <2>1, Refused DEF BrainCommand
<1>4. ASSUME FanCommand(msg) PROVE CInv' /\ Harmless
  <2>1. ASSUME fan_override' = (Word(msg, 4) \in Ones), Ack(msg),
               UNCHANGED <<gpio, output_inhibited, led, pressed, note, holdoff, coefficients>>
        PROVE  CInv' /\ Harmless
    <3>1. BoardOK' /\ Stored'
      BY <2>1 DEF CInv, CommandsTypeOK, BoardOK, Stored
    <3>2. QED
      BY <2>1, <3>1, Acknowledged
  <2>2. QED
    BY <1>4, <2>1, Refused DEF FanCommand
<1>5. QED
  BY <1>1, <1>2, <1>3, <1>4, Refused

------------------------------------------------------------------------------
(***************************************************************************)
(* Every step.                                                             *)
(***************************************************************************)

(* An interrupt changes neither the holdoffs nor what was stored last.        *)
LEMMA InterruptStep ==
  ASSUME CInv, Interrupt, BoardOK', holdoff' = holdoff
  PROVE  CInv' /\ Harmless
<1>1. reply' = [to |-> NoLine, kind |-> "none", values |-> <<>>] /\ coefficients' = coefficients
  BY DEF Interrupt
<1>2. reply'.kind = "none"
  BY <1>1
<1>3. CommandsTypeOK' /\ HoldoffsReadBack' /\ Harmless
  BY <1>2 DEF BoardOK, CommandsTypeOK, HoldoffsReadBack, Harmless
<1>4. Stored'
  BY <1>1 DEF CInv, Stored
<1>5. QED
  BY <1>3, <1>4 DEF CInv

(* One case for each first word, and one for each interrupt.                  *)
LEMMA CommandStep == ASSUME CInv, CommandsNext PROVE CInv' /\ Harmless
<1>1. ASSUME NEW msg \in Lines, handle_msg(msg) PROVE CInv' /\ Harmless
  <2>1. \/ Word(msg, 1) = "OUT" /\ OutCommand(msg)
        \/ Word(msg, 1) = "LED" /\ LedCommand(msg)
        \/ Word(msg, 1) = "BATT" /\ BattCommand(msg)
        \/ Word(msg, 1) = "BTN" /\ BtnCommand(msg)
        \/ Word(msg, 1) = "NOTE" /\ NoteCommand(msg)
        \/ Word(msg, 1) \in {"*IDN?", "ECHO"} /\ TextCommand(msg)
        \/ Word(msg, 1) = "*STATUS?" /\ StatusCommand(msg)
        \/ Word(msg, 1) = "*RESET" /\ ResetCommand(msg)
        \/ Word(msg, 1) = "*SYS" /\ SysCommand(msg)
        \/ Nack(msg)
    BY <1>1, Zenon DEF handle_msg
  <2>2. QED
    BY <2>1, OutStep, LedStep, BattStep, BtnStep, NoteStep, TextStep, StatusStep, ResetStep,
       SysStep, Refused
<1>2. ASSUME NEW o \in output_t, set_overcurrent(o) PROVE CInv' /\ Harmless
  <2>1. /\ gpio \in [output_t -> BOOLEAN] /\ output_inhibited \in [output_t -> BOOLEAN]
        /\ gpio' = [gpio EXCEPT ![o] = FALSE]
        /\ output_inhibited' = [output_inhibited EXCEPT ![o] = TRUE]
        /\ UNCHANGED <<led, pressed, note, holdoff, fan_override>> /\ Interrupt
    BY <1>2 DEF CInv, CommandsTypeOK, set_overcurrent
  <2>2. gpio' \in [output_t -> BOOLEAN] /\ output_inhibited' \in [output_t -> BOOLEAN]
    BY <2>1
  <2>3. BoardOK'
    BY <2>1, <2>2 DEF CInv, CommandsTypeOK, BoardOK
  <2>4. QED
    BY <2>1, <2>3, InterruptStep
<1>3. ASSUME sample_buttons PROVE CInv' /\ Harmless
  <2>1. pressed' \in [{"int", "ext"} -> BOOLEAN]
    <3>1. pressed.int \in BOOLEAN /\ pressed.ext \in BOOLEAN
      BY DEF CInv, CommandsTypeOK
    <3>2. pressed' = [int |-> TRUE, ext |-> pressed.ext] \/ pressed' = [int |-> pressed.int, ext |-> TRUE]
      BY <1>3 DEF sample_buttons
    <3>3. /\ [int |-> TRUE, ext |-> pressed.ext] \in [{"int", "ext"} -> BOOLEAN]
          /\ [int |-> pressed.int, ext |-> TRUE] \in [{"int", "ext"} -> BOOLEAN]
      BY <3>1, TRUE \in BOOLEAN, Buttons
    <3>4. QED
      BY <3>2, <3>3, Zenon
  <2>2. BoardOK'
    BY <1>3, <2>1 DEF CInv, CommandsTypeOK, BoardOK, sample_buttons
  <2>3. QED
    BY <1>3, <2>2, InterruptStep DEF sample_buttons
<1>4. ASSUME NoteEnds PROVE CInv' /\ Harmless
  <2>1. note \in [freq : 1 .. MaxFrequency, remaining : 0 .. UINT32_MAX] /\ 0 \in 0 .. UINT32_MAX
    BY CommandsParameters DEF CInv, CommandsTypeOK
  <2>2. note' \in [freq : 1 .. MaxFrequency, remaining : 0 .. UINT32_MAX]
    BY <1>4, <2>1 DEF NoteEnds
  <2>3. BoardOK'
    BY <1>4, <2>2 DEF CInv, CommandsTypeOK, BoardOK, NoteEnds
  <2>4. QED
    BY <1>4, <2>3, InterruptStep DEF NoteEnds
<1>5. QED
  BY <1>1, <1>2, <1>3, <1>4 DEF CommandsNext

LEMMA InitCommands == CommandsInit => CInv
<1> SUFFICES ASSUME CommandsInit PROVE CInv
  OBVIOUS
<1>1. DefaultHoldoff \in [1 .. 5 -> 0 .. UINT16_MAX - 1]
  BY CommandsAssumption
<1>2. /\ gpio = [o \in output_t |-> o = BRAIN_OUTPUT]
      /\ output_inhibited = [o \in output_t |-> FALSE]
      /\ led = [RUN |-> 1, ERR |-> 1] /\ pressed = [int |-> FALSE, ext |-> FALSE]
      /\ note = [freq |-> 523, remaining |-> 0]
      /\ holdoff = Holdoffs(DefaultHoldoff) /\ fan_override = FALSE
      /\ reply = [to |-> NoLine, kind |-> "none", values |-> <<>>]
      /\ coefficients = DefaultHoldoff
  BY DEF CommandsInit
<1>3. gpio \in [output_t -> BOOLEAN] /\ output_inhibited \in [output_t -> BOOLEAN]
  BY <1>2
<1>4. led \in [{"RUN", "ERR"} -> 0 .. 2] /\ pressed \in [{"int", "ext"} -> BOOLEAN]
  BY <1>2, FALSE \in BOOLEAN, 1 \in 0 .. 2, Buttons, Leds
<1>5. note \in [freq : 1 .. MaxFrequency, remaining : 0 .. UINT32_MAX]
  <2>1. 523 \in 1 .. MaxFrequency /\ 0 \in 0 .. UINT32_MAX
    BY CommandsParameters
  <2>2. QED
    BY <1>2, <2>1
<1>6. holdoff \in [{"ADC", "BATT", "REG", "UVLO", "NEG"} -> 0 .. UINT16_MAX - 1]
  BY <1>1, <1>2 DEF Holdoffs
<1>7. reply.kind = "none"
  BY <1>2
<1>8. CommandsTypeOK
  BY <1>2, <1>3, <1>4, <1>5, <1>6, <1>7 DEF CommandsTypeOK
<1>9. QED
  BY <1>1, <1>2, <1>7, <1>8 DEF CInv, Stored, HoldoffsReadBack

LEMMA CommandsInvariance == CommandsSpec => []CInv
<1>1. CInv /\ [CommandsNext]_commandsVars => CInv'
  <2>1. ASSUME CInv, UNCHANGED commandsVars PROVE CInv'
    BY <2>1 DEF commandsVars, board, CInv, CommandsTypeOK, Stored, HoldoffsReadBack
  <2>2. QED
    BY <2>1, CommandStep
<1>2. QED
  BY <1>1, InitCommands, PTL DEF CommandsSpec

(* The board keeps its types whatever the host sends: no holdoff is 65535 or  *)
(* more, which the 16-bit counters could not exceed.                          *)
THEOREM CommandsTypeCorrectness == CommandsSpec => []CommandsTypeOK
<1>1. CInv => CommandsTypeOK
  BY DEF CInv
<1>2. QED
  BY <1>1, CommandsInvariance, PTL

(* What DELAY_COEFF:GET? answers is what the last SET was acknowledged for,   *)
(* in the same order, whatever was refused in between (msg_handler.c).        *)
THEOREM GetAnswersSet == CommandsSpec => []HoldoffsReadBack
<1>1. CInv => HoldoffsReadBack
  BY DEF CInv
<1>2. QED
  BY <1>1, CommandsInvariance, PTL

(* A line changes the board only if it is acknowledged, at whatever word it   *)
(* may have been refused; the query of the buttons forgets what it reports.   *)
THEOREM RefusedLinesDoNothing == CommandsSpec => OnlyAcknowledgedLinesAct
<1>1. CInv /\ [CommandsNext]_commandsVars => [Harmless]_commandsVars
  BY CommandStep
<1>2. QED
  BY <1>1, CommandsInvariance, PTL DEF CommandsSpec, OnlyAcknowledgedLinesAct, Harmless
=============================================================================
