--------------------------- MODULE KeyboardProofs ---------------------------
(***************************************************************************)
(* Proofs about the sources of the emulated keyboard, for every table of   *)
(* keys, every number of pads, buttons and touches and every capacity of   *)
(* the queue.                                                              *)
(***************************************************************************)
EXTENDS Keyboard, FiniteSetTheorems, WellFoundedInduction, TLAPS

-----------------------------------------------------------------------------
(* The least member of a set of numbers: what the inductions rest on.      *)
LEMMA Least ==
  ASSUME NEW T \in SUBSET Nat, T # {}
  PROVE  \E m \in T : \A n \in T : m <= n
<1> DEFINE R == {p \in Nat \X Nat : p[1] < p[2]}
<1>1. IsWellFoundedOn(R, Nat)
  BY NatLessThanWellFounded, Zenon DEF OpToRel
<1>2. \A x, y \in Nat : <<y, x>> \in R <=> y < x
  OBVIOUS
<1> HIDE DEF R
<1>3. PICK m \in T : \A n \in T : ~(<<n, m>> \in R)
  BY <1>1, WFMin
<1>4. ASSUME NEW n \in T PROVE m <= n
  <2>1. m \in Nat /\ n \in Nat
    OBVIOUS
  <2>2. ~(n < m)
    BY <1>2, <1>3, <2>1
  <2> QED
    BY <2>1, <2>2
<1> QED
  BY <1>4

(* What holds at first and is kept by each step holds after n steps.       *)
LEMMA Steps ==
  ASSUME NEW n \in Nat, NEW T, 0 \in T,
         \A m \in 1 .. n : m - 1 \in T => m \in T
  PROVE  \A m \in 0 .. n : m \in T
<1> DEFINE Bad == {m \in 0 .. n : m \notin T}
<1>1. Bad = {}
  <2> SUFFICES ASSUME Bad # {} PROVE FALSE
    OBVIOUS
  <2>1. Bad \in SUBSET Nat
    OBVIOUS
  <2>2. PICK m \in Bad : \A x \in Bad : m <= x
    BY <2>1, Least
  <2>3. m \in 1 .. n
    BY <2>2
  <2>4. m - 1 \notin Bad /\ m - 1 \in 0 .. n
    BY <2>2, <2>3
  <2> QED
    BY <2>2, <2>3, <2>4
<1> QED
  BY <1>1

(* The elements of a finite set come once each.                            *)
LEMMA InTurn ==
  ASSUME NEW S, IsFiniteSet(S)
  PROVE  /\ SetToSeq(S) \in Seq(S)
         /\ DOMAIN SetToSeq(S) = 1 .. Len(SetToSeq(S))
         /\ \A x \in S : \E i \in DOMAIN SetToSeq(S) : SetToSeq(S)[i] = x
         /\ \A i, j \in DOMAIN SetToSeq(S) : SetToSeq(S)[i] = SetToSeq(S)[j] => i = j
<1> DEFINE n == Cardinality(S)
           f == SetToSeq(S)
<1>1. n \in Nat /\ ExistsBijection(1 .. n, S)
  BY FS_CardinalityType
<1>2. \E g \in [1 .. n -> S] : IsInjective(g)
  BY <1>1 DEF ExistsBijection, Bijection, Injection
<1>3. f \in [1 .. n -> S] /\ IsInjective(f)
  BY <1>2 DEF SetToSeq
<1> HIDE DEF f, n
<1>4. f \in Seq(S) /\ DOMAIN f = 1 .. n /\ Len(f) = n
  BY <1>1, <1>3
<1>5. Cardinality(1 .. n) = Cardinality(S)
  BY <1>1, FS_Interval DEF n
<1>6. f \in Surjection(1 .. n, S)
  BY <1>3, <1>5, FS_Injection DEF Injection
<1>7. \A x \in S : \E i \in 1 .. n : f[i] = x
  BY <1>6 DEF Surjection
<1> QED
  BY <1>3, <1>4, <1>7 DEF f, IsInjective

(* The states a loop goes through: they exist because each is made of the  *)
(* one before.                                                             *)
SendsTrace(after, k, seq) ==
  /\ after[0] = k
  /\ \A n \in 1 .. Len(seq) : after[n] = send_keycode(after[n - 1], seq[n].code, seq[n].up)
  /\ Sends(k, seq) = after[Len(seq)]

(* The states a sequence of events goes through.                           *)
LEMMA SendsRun ==
  ASSUME NEW k, NEW seq, Len(seq) \in Nat
  PROVE  \E after : SendsTrace(after, k, seq)
<1> DEFINE step(f, n) == send_keycode(f[n - 1], seq[n].code, seq[n].up)
           Is(f, m) == f = [n \in 0 .. m |-> IF n = 0 THEN k ELSE step(f, n)]
           Runs == {m \in Nat : \E f : Is(f, m)}
<1>1. 0 \in Runs
  <2> DEFINE g == [n \in 0 .. 0 |-> k]
  <2>1. Is(g, 0)
    OBVIOUS
  <2> QED BY <2>1
<1>2. ASSUME NEW m \in Nat \ {0}, m - 1 \in Runs PROVE m \in Runs
  <2>1. PICK f : Is(f, m - 1)
    BY <1>2
  <2> DEFINE g == [n \in 0 .. m |-> IF n = m THEN step(f, m) ELSE f[n]]
  <2>2. Is(g, m)
    BY <2>1
  <2> QED BY <2>2
<1> HIDE DEF Runs
<1>3. Len(seq) \in Runs
  BY <1>1, <1>2, Steps
<1>4. PICK h : Is(h, Len(seq))
  BY <1>3 DEF Runs
<1> DEFINE after == CHOOSE f : Is(f, Len(seq))
<1>5. Is(after, Len(seq))
  BY <1>4
<1>6. Sends(k, seq) = after[Len(seq)]
  BY DEF Sends, Each
<1> HIDE DEF after
<1>7. after[0] = k /\ \A n \in 1 .. Len(seq) : after[n] = step(after, n)
  BY <1>5
<1> QED
  BY <1>6, <1>7 DEF SendsTrace

UnlatchTrace(after, k, seq) ==
  /\ after[0] = k
  /\ \A n \in 1 .. Len(seq) : after[n] = unlatch(after[n - 1], seq[n])
  /\ osd_clear_latches(k) = after[Len(seq)]

(* Those of osd_clear_latches, one modifier after the other.               *)
LEMMA UnlatchRun ==
  ASSUME NEW k, NEW seq, seq = SetToSeq(Modifier), Len(seq) \in Nat
  PROVE  \E after : UnlatchTrace(after, k, seq)
<1> DEFINE step(f, n) == unlatch(f[n - 1], seq[n])
           Is(f, m) == f = [n \in 0 .. m |-> IF n = 0 THEN k ELSE step(f, n)]
           Runs == {m \in Nat : \E f : Is(f, m)}
<1>1. 0 \in Runs
  <2> DEFINE g == [n \in 0 .. 0 |-> k]
  <2>1. Is(g, 0)
    OBVIOUS
  <2> QED BY <2>1
<1>2. ASSUME NEW m \in Nat \ {0}, m - 1 \in Runs PROVE m \in Runs
  <2>1. PICK f : Is(f, m - 1)
    BY <1>2
  <2> DEFINE g == [n \in 0 .. m |-> IF n = m THEN step(f, m) ELSE f[n]]
  <2>2. Is(g, m)
    BY <2>1
  <2> QED BY <2>2
<1> HIDE DEF Runs
<1>3. Len(seq) \in Runs
  BY <1>1, <1>2, Steps
<1>4. PICK h : Is(h, Len(seq))
  BY <1>3 DEF Runs
<1> DEFINE after == CHOOSE f : Is(f, Len(seq))
<1>5. Is(after, Len(seq))
  BY <1>4
<1>6. osd_clear_latches(k) = after[Len(seq)]
  BY DEF Each, osd_clear_latches
<1> HIDE DEF after
<1>7. after[0] = k /\ \A n \in 1 .. Len(seq) : after[n] = step(after, n)
  BY <1>5
<1> QED
  BY <1>6, <1>7 DEF UnlatchTrace

AuxTrace(after, w, P, R, seq) ==
  /\ after[0] = w
  /\ \A n \in 1 .. Len(seq) : after[n] = osd_aux(after[n - 1], seq[n], P, R)
  /\ AuxKeys(w, P, R) = after[Len(seq)]

(* Those of the pad's own keys.                                            *)
LEMMA AuxRun ==
  ASSUME NEW w, NEW P, NEW R, NEW seq,
         seq = SetToSeq(DOMAIN AuxCode), Len(seq) \in Nat
  PROVE  \E after : AuxTrace(after, w, P, R, seq)
<1> DEFINE step(f, n) == osd_aux(f[n - 1], seq[n], P, R)
           Is(f, m) == f = [n \in 0 .. m |-> IF n = 0 THEN w ELSE step(f, n)]
           Runs == {m \in Nat : \E f : Is(f, m)}
<1>1. 0 \in Runs
  <2> DEFINE g == [n \in 0 .. 0 |-> w]
  <2>1. Is(g, 0)
    OBVIOUS
  <2> QED BY <2>1
<1>2. ASSUME NEW m \in Nat \ {0}, m - 1 \in Runs PROVE m \in Runs
  <2>1. PICK f : Is(f, m - 1)
    BY <1>2
  <2> DEFINE g == [n \in 0 .. m |-> IF n = m THEN step(f, m) ELSE f[n]]
  <2>2. Is(g, m)
    BY <2>1
  <2> QED BY <2>2
<1> HIDE DEF Runs
<1>3. Len(seq) \in Runs
  BY <1>1, <1>2, Steps
<1>4. PICK h : Is(h, Len(seq))
  BY <1>3 DEF Runs
<1> DEFINE after == CHOOSE f : Is(f, Len(seq))
<1>5. Is(after, Len(seq))
  BY <1>4
<1>6. AuxKeys(w, P, R) = after[Len(seq)]
  BY DEF Each, AuxKeys
<1> HIDE DEF after
<1>7. after[0] = w /\ \A n \in 1 .. Len(seq) : after[n] = step(after, n)
  BY <1>5
<1> QED
  BY <1>6, <1>7 DEF AuxTrace

UpdateTrace(after, w, p, res, sends, seq) ==
  /\ after[0] = w
  /\ \A n \in 1 .. Len(seq) : after[n] = joy2key_action(after[n - 1], p, seq[n], res, sends)
  /\ joy2key_update(w, p, res, sends) = after[Len(seq)]

(* Those of the buttons of joy2key_update.                                 *)
LEMMA UpdateRun ==
  ASSUME NEW w, NEW p, NEW res, NEW sends, NEW seq,
         seq = SetToSeq(Button), Len(seq) \in Nat
  PROVE  \E after : UpdateTrace(after, w, p, res, sends, seq)
<1> DEFINE step(f, n) == joy2key_action(f[n - 1], p, seq[n], res, sends)
           Is(f, m) == f = [n \in 0 .. m |-> IF n = 0 THEN w ELSE step(f, n)]
           Runs == {m \in Nat : \E f : Is(f, m)}
<1>1. 0 \in Runs
  <2> DEFINE g == [n \in 0 .. 0 |-> w]
  <2>1. Is(g, 0)
    OBVIOUS
  <2> QED BY <2>1
<1>2. ASSUME NEW m \in Nat \ {0}, m - 1 \in Runs PROVE m \in Runs
  <2>1. PICK f : Is(f, m - 1)
    BY <1>2
  <2> DEFINE g == [n \in 0 .. m |-> IF n = m THEN step(f, m) ELSE f[n]]
  <2>2. Is(g, m)
    BY <2>1
  <2> QED BY <2>2
<1> HIDE DEF Runs
<1>3. Len(seq) \in Runs
  BY <1>1, <1>2, Steps
<1>4. PICK h : Is(h, Len(seq))
  BY <1>3 DEF Runs
<1> DEFINE after == CHOOSE f : Is(f, Len(seq))
<1>5. Is(after, Len(seq))
  BY <1>4
<1>6. joy2key_update(w, p, res, sends) = after[Len(seq)]
  BY DEF Each, joy2key_update
<1> HIDE DEF after
<1>7. after[0] = w /\ \A n \in 1 .. Len(seq) : after[n] = step(after, n)
  BY <1>5
<1> QED
  BY <1>6, <1>7 DEF UpdateTrace

-----------------------------------------------------------------------------
(* What send_keycode and the counts keep.                                  *)
KeyStates ==
  [waiting : Seq(Event), down : SUBSET Code, repeat : Repeating \union {NoKey},
   Joy2KeyRefs : [Code -> Nat], osd_refs : [Code -> Nat], osd_latched : SUBSET Modifier]

GoodKeys(k) ==
  /\ k \in KeyStates /\ Len(k.waiting) <= Capacity
  /\ k.repeat # NoKey => k.repeat \in k.down

HeldBy(H, c) == \E h \in H \intersect DOMAIN KeyTable : KeyTable[h] = c

DownHeld(k, H) ==
  \A c \in k.down : k.osd_refs[c] > 0 \/ k.Joy2KeyRefs[c] > 0 \/ HeldBy(H, c)

SameOsd(j, k) == j.osd_refs = k.osd_refs /\ j.osd_latched = k.osd_latched
SameJoy(j, k) == j.Joy2KeyRefs = k.Joy2KeyRefs

(* An event counts nobody.                                                 *)
LEMMA Sent ==
  ASSUME NEW k, GoodKeys(k), NEW c \in Code, NEW up \in BOOLEAN
  PROVE  /\ GoodKeys(send_keycode(k, c, up))
         /\ SameOsd(send_keycode(k, c, up), k) /\ SameJoy(send_keycode(k, c, up), k)
         /\ send_keycode(k, c, up).down = IF up THEN k.down \ {c} ELSE k.down \union {c}
<1> DEFINE event == [code |-> c, up |-> up]
           sent == IF Len(k.waiting) >= Capacity THEN k.waiting ELSE Append(k.waiting, event)
<1>1. sent \in Seq(Event) /\ Len(sent) <= Capacity
  <2>1. event \in Event /\ k.waiting \in Seq(Event) /\ Len(k.waiting) <= Capacity
    BY DEF Event, GoodKeys, KeyStates
  <2> HIDE DEF event
  <2> QED
    BY <2>1, SizeAssumption
<1> DEFINE repeat == IF up THEN IF k.repeat = c THEN NoKey ELSE k.repeat
                     ELSE IF c \notin k.down /\ c \in Repeating THEN c ELSE k.repeat
           down == IF up THEN k.down \ {c} ELSE k.down \union {c}
<1>2. repeat \in Repeating \union {NoKey}
          /\ (repeat # NoKey => repeat \in down) /\ down \subseteq Code
  BY CodeAssumption DEF GoodKeys, KeyStates
<1>3. send_keycode(k, c, up) = [waiting |-> sent, down |-> down, repeat |-> repeat,
        Joy2KeyRefs |-> k.Joy2KeyRefs, osd_refs |-> k.osd_refs, osd_latched |-> k.osd_latched]
  BY DEF send_keycode, GoodKeys, KeyStates
<1> HIDE DEF sent, repeat, down
<1>4. send_keycode(k, c, up).down = down /\ send_keycode(k, c, up) \in KeyStates
  BY <1>1, <1>2, <1>3 DEF GoodKeys, KeyStates
<1> QED
  BY <1>1, <1>2, <1>3, <1>4 DEF GoodKeys, SameOsd, SameJoy, down

(* The counts are of KeyStates.                                            *)
LEMMA WithJoyRefs ==
  ASSUME NEW k, GoodKeys(k), NEW r \in [Code -> Nat]
  PROVE  GoodKeys([k EXCEPT !.Joy2KeyRefs = r])
  BY DEF GoodKeys, KeyStates

LEMMA WithOsdRefs ==
  ASSUME NEW k, GoodKeys(k), NEW r \in [Code -> Nat], NEW l \in SUBSET Modifier
  PROVE  GoodKeys([k EXCEPT !.osd_refs = r, !.osd_latched = l])
  BY DEF GoodKeys, KeyStates

(* joy2key_press: one holder more, and a key that is down has one.         *)
LEMMA Pressed ==
  ASSUME NEW k, GoodKeys(k), NEW c \in Code
  PROVE  /\ GoodKeys(joy2key_press(k, c)) /\ SameOsd(joy2key_press(k, c), k)
         /\ joy2key_press(k, c).Joy2KeyRefs = [k.Joy2KeyRefs EXCEPT ![c] = @ + 1]
         /\ \A H : DownHeld(k, H) => DownHeld(joy2key_press(k, c), H)
<1> DEFINE j == IF k.Joy2KeyRefs[c] = 0 THEN send_keycode(k, c, FALSE) ELSE k
           r == [k.Joy2KeyRefs EXCEPT ![c] = @ + 1]
<1>1. /\ GoodKeys(j) /\ SameOsd(j, k) /\ SameJoy(j, k)
      /\ j.down \subseteq k.down \union {c}
  BY Sent DEF SameOsd, SameJoy
<1> HIDE DEF j
<1>2. r \in [Code -> Nat] /\ r[c] > 0 /\ \A x \in Code : k.Joy2KeyRefs[x] > 0 => r[x] > 0
  BY DEF GoodKeys, KeyStates
<1>3. joy2key_press(k, c) = [j EXCEPT !.Joy2KeyRefs = r]
  BY <1>1 DEF joy2key_press, j, SameJoy, GoodKeys, KeyStates
<1> HIDE DEF r
<1>4. GoodKeys(joy2key_press(k, c))
  BY <1>1, <1>2, <1>3, WithJoyRefs
<1>5. /\ joy2key_press(k, c).Joy2KeyRefs = r /\ joy2key_press(k, c).down = j.down
      /\ SameOsd(joy2key_press(k, c), k)
  BY <1>1, <1>3 DEF GoodKeys, KeyStates, SameOsd
<1>6. k.down \subseteq Code
  BY DEF GoodKeys, KeyStates
<1> QED
  BY <1>1, <1>2, <1>4, <1>5, <1>6 DEF DownHeld, SameOsd, r

(* joy2key_release: one holder less, and with the last the key is up.      *)
LEMMA Released ==
  ASSUME NEW k, GoodKeys(k), NEW c \in Code, k.Joy2KeyRefs[c] > 0
  PROVE  /\ GoodKeys(joy2key_release(k, c)) /\ SameOsd(joy2key_release(k, c), k)
         /\ joy2key_release(k, c).Joy2KeyRefs = [k.Joy2KeyRefs EXCEPT ![c] = @ - 1]
         /\ \A H : DownHeld(k, H) => DownHeld(joy2key_release(k, c), H)
<1> DEFINE r == [k.Joy2KeyRefs EXCEPT ![c] = @ - 1]
           left == [k EXCEPT !.Joy2KeyRefs = r]
           j == joy2key_release(k, c)
<1>1. /\ r \in [Code -> Nat]
      /\ \A x \in Code : k.Joy2KeyRefs[x] > 0 => (r[x] > 0 \/ (x = c /\ k.Joy2KeyRefs[c] = 1))
  BY DEF GoodKeys, KeyStates
<1>2. j = IF k.Joy2KeyRefs[c] = 1 THEN send_keycode(left, c, TRUE) ELSE left
  <2>1. [k EXCEPT !.Joy2KeyRefs[c] = @ - 1] = left
    BY DEF GoodKeys, KeyStates
  <2>2. k.Joy2KeyRefs[c] # 0
    BY DEF GoodKeys, KeyStates
  <2> HIDE DEF left
  <2> QED
    BY <2>1, <2>2, Zenon DEF joy2key_release
<1> HIDE DEF r, j
<1>3. GoodKeys(left)
  BY <1>1, WithJoyRefs
<1>4. left.Joy2KeyRefs = r /\ left.down = k.down /\ SameOsd(left, k)
  BY DEF GoodKeys, KeyStates, SameOsd
<1> HIDE DEF left
<1>5. /\ GoodKeys(j) /\ SameOsd(j, k) /\ j.Joy2KeyRefs = r
      /\ j.down \subseteq k.down /\ (k.Joy2KeyRefs[c] = 1 => c \notin j.down)
  <2>1. /\ GoodKeys(send_keycode(left, c, TRUE)) /\ SameOsd(send_keycode(left, c, TRUE), left)
        /\ SameJoy(send_keycode(left, c, TRUE), left)
        /\ send_keycode(left, c, TRUE).down = left.down \ {c}
    BY <1>3, Sent
  <2> QED
    BY <1>2, <1>3, <1>4, <2>1 DEF SameOsd, SameJoy
<1>6. k.down \subseteq Code
  BY DEF GoodKeys, KeyStates
<1> QED
  BY <1>1, <1>5, <1>6 DEF DownHeld, SameOsd, r, j

(* The same for a key of the OSD.                                          *)
LEMMA OsdPressed ==
  ASSUME NEW k, GoodKeys(k), NEW c \in Code
  PROVE  /\ GoodKeys(osd_code_down(k, c)) /\ SameJoy(osd_code_down(k, c), k)
         /\ osd_code_down(k, c).osd_refs = [k.osd_refs EXCEPT ![c] = @ + 1]
         /\ osd_code_down(k, c).osd_latched = k.osd_latched
         /\ \A H : DownHeld(k, H) => DownHeld(osd_code_down(k, c), H)
<1> DEFINE j == IF k.osd_refs[c] = 0 THEN send_keycode(k, c, FALSE) ELSE k
           r == [k.osd_refs EXCEPT ![c] = @ + 1]
<1>1. /\ GoodKeys(j) /\ SameOsd(j, k) /\ SameJoy(j, k)
      /\ j.down \subseteq k.down \union {c}
  BY Sent DEF SameOsd, SameJoy
<1> HIDE DEF j
<1>2. r \in [Code -> Nat] /\ r[c] > 0 /\ \A x \in Code : k.osd_refs[x] > 0 => r[x] > 0
  BY DEF GoodKeys, KeyStates
<1>3. osd_code_down(k, c) = [j EXCEPT !.osd_refs = r, !.osd_latched = k.osd_latched]
  BY <1>1 DEF osd_code_down, j, SameOsd, GoodKeys, KeyStates
<1> HIDE DEF r
<1>4. GoodKeys(osd_code_down(k, c))
  <2>1. k.osd_latched \in SUBSET Modifier
    BY DEF GoodKeys, KeyStates
  <2> DEFINE l == k.osd_latched
  <2> HIDE DEF l
  <2>2. GoodKeys([j EXCEPT !.osd_refs = r, !.osd_latched = l])
    BY <1>1, <1>2, <2>1, WithOsdRefs, Zenon DEF l
  <2> QED
    BY <1>3, <2>2, Zenon DEF l
<1>5. /\ osd_code_down(k, c).osd_refs = r /\ osd_code_down(k, c).down = j.down
      /\ osd_code_down(k, c).osd_latched = k.osd_latched
      /\ SameJoy(osd_code_down(k, c), k)
  BY <1>1, <1>3 DEF GoodKeys, KeyStates, SameJoy, SameOsd
<1>6. k.down \subseteq Code
  BY DEF GoodKeys, KeyStates
<1> QED
  BY <1>1, <1>2, <1>4, <1>5, <1>6 DEF DownHeld, SameJoy, r

(* ... and its release.                                                    *)
LEMMA OsdReleased ==
  ASSUME NEW k, GoodKeys(k), NEW c \in Code, k.osd_refs[c] > 0
  PROVE  /\ GoodKeys(osd_code_up(k, c)) /\ SameJoy(osd_code_up(k, c), k)
         /\ osd_code_up(k, c).osd_refs = [k.osd_refs EXCEPT ![c] = @ - 1]
         /\ osd_code_up(k, c).osd_latched = k.osd_latched
         /\ \A H : DownHeld(k, H) => DownHeld(osd_code_up(k, c), H)
<1> DEFINE r == [k.osd_refs EXCEPT ![c] = @ - 1]
           left == [k EXCEPT !.osd_refs = r, !.osd_latched = k.osd_latched]
           j == osd_code_up(k, c)
<1>1. /\ r \in [Code -> Nat]
      /\ \A x \in Code : k.osd_refs[x] > 0 => (r[x] > 0 \/ (x = c /\ k.osd_refs[c] = 1))
  BY DEF GoodKeys, KeyStates
<1>2. j = IF k.osd_refs[c] = 1 THEN send_keycode(left, c, TRUE) ELSE left
  <2>1. [k EXCEPT !.osd_refs[c] = @ - 1] = left
    BY DEF GoodKeys, KeyStates
  <2>2. k.osd_refs[c] # 0
    BY DEF GoodKeys, KeyStates
  <2> HIDE DEF left
  <2> QED
    BY <2>1, <2>2, Zenon DEF osd_code_up
<1> HIDE DEF r, j
<1>3. GoodKeys(left)
  BY <1>1, WithOsdRefs DEF GoodKeys, KeyStates
<1>4. /\ left.osd_refs = r /\ left.down = k.down /\ left.osd_latched = k.osd_latched
      /\ SameJoy(left, k)
  BY DEF GoodKeys, KeyStates, SameJoy
<1> HIDE DEF left
<1>5. /\ GoodKeys(j) /\ SameJoy(j, k) /\ j.osd_refs = r /\ j.osd_latched = k.osd_latched
      /\ j.down \subseteq k.down /\ (k.osd_refs[c] = 1 => c \notin j.down)
  <2>1. /\ GoodKeys(send_keycode(left, c, TRUE)) /\ SameOsd(send_keycode(left, c, TRUE), left)
        /\ SameJoy(send_keycode(left, c, TRUE), left)
        /\ send_keycode(left, c, TRUE).down = left.down \ {c}
    BY <1>3, Sent
  <2> QED
    BY <1>2, <1>3, <1>4, <2>1 DEF SameOsd, SameJoy
<1>6. k.down \subseteq Code
  BY DEF GoodKeys, KeyStates
<1> QED
  BY <1>1, <1>5, <1>6 DEF DownHeld, SameJoy, r, j

-----------------------------------------------------------------------------
(* Counting holders.  A set that gains or loses one member.                *)
One(x, c) == IF x = c THEN 1 ELSE 0

(* Two sets that differ in one element at most.                            *)
LEMMA OneMoves ==
  ASSUME NEW S, NEW T, NEW d, IsFiniteSet(S), S \ {d} = T \ {d}
  PROVE  /\ IsFiniteSet(T) /\ Cardinality(S) \in Nat /\ Cardinality(T) \in Nat
         /\ Cardinality(T) = Cardinality(S) + (IF d \in T THEN 1 ELSE 0)
                                           - (IF d \in S THEN 1 ELSE 0)
<1> DEFINE U == S \ {d}
<1>1. IsFiniteSet(U) /\ Cardinality(U) = IF d \in S THEN Cardinality(S) - 1 ELSE Cardinality(S)
  BY FS_RemoveElement
<1>2. d \notin U /\ T = IF d \in T THEN U \union {d} ELSE U
  OBVIOUS
<1>3. IsFiniteSet(U \union {d}) /\ Cardinality(U \union {d}) = Cardinality(U) + 1
  BY <1>1, <1>2, FS_AddElement
<1>4. IsFiniteSet(T) /\ Cardinality(T) = IF d \in T THEN Cardinality(U) + 1 ELSE Cardinality(U)
  BY <1>1, <1>2, <1>3
<1>5. Cardinality(S) \in Nat /\ Cardinality(T) \in Nat /\ Cardinality(U) \in Nat
  BY <1>1, <1>4, FS_CardinalityType
<1> HIDE DEF U
<1> QED
  BY <1>1, <1>4, <1>5

PadStates ==
  [prev : SUBSET Button, block : SUBSET Button, code : (Code \ Modifier) \union {NoKey},
   aux : [DOMAIN AuxCode -> Code \union {NoKey}]]
PtrStates ==
  [down : BOOLEAN, wait : BOOLEAN, code : (Code \ Modifier) \union {NoKey}]
JoyStates ==
  [Previous : [Button -> Code \union {NoKey, OsdKeyboard}], JoyBlock : SUBSET Button,
   WasOsd : BOOLEAN]

PadSet(pads, c) == {p \in Port : pads[p].code = c}
AuxSet(pads, c) == {pb \in Port \X DOMAIN AuxCode : pads[pb[1]].aux[pb[2]] = c}
PtrSet(ptrs, c) == {q \in Pointer : ptrs[q].code = c}
LatchSet(latched, c) == {c} \intersect latched
JoySet(j, c) == {pb \in Port \X Button : j[pb[1]].Previous[pb[2]] = c}

(* There are finitely many holders.                                        *)
LEMMA Finite ==
  ASSUME NEW pads, NEW ptrs, NEW j, NEW latched, NEW c
  PROVE  /\ IsFiniteSet(PadSet(pads, c)) /\ IsFiniteSet(AuxSet(pads, c))
         /\ IsFiniteSet(PtrSet(ptrs, c)) /\ IsFiniteSet(JoySet(j, c))
         /\ IsFiniteSet(LatchSet(latched, c))
<1>1. IsFiniteSet(Port)
  BY FS_Interval, PortAssumption DEF Port
<1>2. IsFiniteSet(DOMAIN AuxCode)
  BY FS_Subset, SizeAssumption, MapAssumption
<1>3. IsFiniteSet(Port \X DOMAIN AuxCode) /\ IsFiniteSet(Port \X Button)
  BY <1>1, <1>2, FS_Product, SizeAssumption
<1>4. IsFiniteSet({c})
  BY FS_Singleton
<1>5. /\ PadSet(pads, c) \subseteq Port /\ AuxSet(pads, c) \subseteq Port \X DOMAIN AuxCode
      /\ PtrSet(ptrs, c) \subseteq Pointer /\ JoySet(j, c) \subseteq Port \X Button
      /\ LatchSet(latched, c) \subseteq {c}
  BY DEF LatchSet, PadSet, AuxSet, PtrSet, JoySet
<1> QED
  BY <1>1, <1>3, <1>4, <1>5, FS_Subset, SizeAssumption

(* The sum, of numbers.                                                    *)
LEMMA HoldersAre ==
  ASSUME NEW pads, NEW ptrs, NEW latched, NEW c
  PROVE  /\ Cardinality(PadSet(pads, c)) \in Nat /\ Cardinality(AuxSet(pads, c)) \in Nat
         /\ Cardinality(PtrSet(ptrs, c)) \in Nat /\ Cardinality(LatchSet(latched, c)) \in Nat
         /\ OsdHolders(pads, ptrs, latched, c) =
              Cardinality(PadSet(pads, c)) + Cardinality(AuxSet(pads, c))
              + Cardinality(PtrSet(ptrs, c)) + Cardinality(LatchSet(latched, c))
<1>1. /\ IsFiniteSet(PadSet(pads, c)) /\ IsFiniteSet(AuxSet(pads, c))
      /\ IsFiniteSet(PtrSet(ptrs, c)) /\ IsFiniteSet(LatchSet(latched, c))
  BY Finite, Zenon
<1>2. /\ Cardinality(PadSet(pads, c)) \in Nat /\ Cardinality(AuxSet(pads, c)) \in Nat
      /\ Cardinality(PtrSet(ptrs, c)) \in Nat /\ Cardinality(LatchSet(latched, c)) \in Nat
  BY <1>1, FS_CardinalityType
<1> QED
  BY <1>2 DEF OsdHolders, PadSet, AuxSet, PtrSet, LatchSet

PadMoved(new, pads, p, x) ==
  \A r \in Port :
    /\ new[r].code = IF r = p THEN x ELSE pads[r].code
    /\ \A y \in DOMAIN AuxCode : new[r].aux[y] = pads[r].aux[y]

(* A pad takes another key.                                                *)
LEMMA PadMoves ==
  ASSUME NEW pads, NEW p \in Port, NEW x, NEW new, PadMoved(new, pads, p, x),
         NEW ptrs, NEW latched, NEW c
  PROVE  /\ OsdHolders(pads, ptrs, latched, c) \in Nat
         /\ OsdHolders(new, ptrs, latched, c) =
              OsdHolders(pads, ptrs, latched, c) + One(x, c) - One(pads[p].code, c)
<1>2. PadSet(pads, c) \ {p} = PadSet(new, c) \ {p}
  BY DEF PadSet, PadMoved
<1>3. (p \in PadSet(new, c) <=> x = c) /\ (p \in PadSet(pads, c) <=> pads[p].code = c)
  BY DEF PadSet, PadMoved
<1>4. Cardinality(PadSet(new, c)) =
        Cardinality(PadSet(pads, c)) + One(x, c) - One(pads[p].code, c)
  <2>1. IsFiniteSet(PadSet(pads, c))
    BY Finite, Zenon
  <2>2. /\ Cardinality(PadSet(pads, c)) \in Nat
        /\ Cardinality(PadSet(new, c)) =
                  Cardinality(PadSet(pads, c)) + (IF p \in PadSet(new, c) THEN 1 ELSE 0)
                                - (IF p \in PadSet(pads, c) THEN 1 ELSE 0)
    BY <1>2, <2>1, OneMoves
  <2> QED
    BY <1>3, <2>2 DEF One
<1>5. AuxSet(new, c) = AuxSet(pads, c)
  BY DEF AuxSet, PadMoved
<1>6. /\ Cardinality(PadSet(pads, c)) \in Nat /\ Cardinality(AuxSet(pads, c)) \in Nat
      /\ Cardinality(PtrSet(ptrs, c)) \in Nat /\ Cardinality(LatchSet(latched, c)) \in Nat
      /\ OsdHolders(pads, ptrs, latched, c) =
            Cardinality(PadSet(pads, c)) + Cardinality(AuxSet(pads, c))
            + Cardinality(PtrSet(ptrs, c)) + Cardinality(LatchSet(latched, c))
      /\ OsdHolders(new, ptrs, latched, c) =
            Cardinality(PadSet(new, c)) + Cardinality(AuxSet(new, c))
            + Cardinality(PtrSet(ptrs, c)) + Cardinality(LatchSet(latched, c))
  BY HoldersAre
<1> QED
  BY <1>4, <1>5, <1>6 DEF One

(* One of a pad's own keys is exchanged.                                   *)
AuxMoved(new, pads, p, b, x) ==
  \A r \in Port :
    /\ new[r].code = pads[r].code
    /\ \A y \in DOMAIN AuxCode :
         new[r].aux[y] = IF r = p /\ y = b THEN x ELSE pads[r].aux[y]

(* A key of its own goes down or up under a pad's button.                  *)
LEMMA AuxMoves ==
  ASSUME NEW pads, NEW p \in Port, NEW b \in DOMAIN AuxCode, NEW x, NEW new,
         AuxMoved(new, pads, p, b, x), NEW ptrs, NEW latched, NEW c
  PROVE  OsdHolders(new, ptrs, latched, c) =
           OsdHolders(pads, ptrs, latched, c) + One(x, c) - One(pads[p].aux[b], c)
<1>2. AuxSet(pads, c) \ {<<p, b>>} = AuxSet(new, c) \ {<<p, b>>}
  BY DEF AuxSet, AuxMoved
<1>3. /\ <<p, b>> \in AuxSet(new, c) <=> x = c
      /\ <<p, b>> \in AuxSet(pads, c) <=> pads[p].aux[b] = c
  BY DEF AuxSet, AuxMoved
<1>4. Cardinality(AuxSet(new, c)) =
        Cardinality(AuxSet(pads, c)) + One(x, c) - One(pads[p].aux[b], c)
  <2>1. IsFiniteSet(AuxSet(pads, c))
    BY Finite, Zenon
  <2>2. /\ Cardinality(AuxSet(pads, c)) \in Nat
        /\ Cardinality(AuxSet(new, c)) =
                  Cardinality(AuxSet(pads, c)) + (IF <<p, b>> \in AuxSet(new, c) THEN 1 ELSE 0)
                                - (IF <<p, b>> \in AuxSet(pads, c) THEN 1 ELSE 0)
    BY <1>2, <2>1, OneMoves
  <2> QED
    BY <1>3, <2>2 DEF One
<1>5. PadSet(new, c) = PadSet(pads, c)
  BY DEF PadSet, AuxMoved
<1>6. /\ Cardinality(PadSet(pads, c)) \in Nat /\ Cardinality(AuxSet(pads, c)) \in Nat
      /\ Cardinality(PtrSet(ptrs, c)) \in Nat /\ Cardinality(LatchSet(latched, c)) \in Nat
      /\ OsdHolders(pads, ptrs, latched, c) =
            Cardinality(PadSet(pads, c)) + Cardinality(AuxSet(pads, c))
            + Cardinality(PtrSet(ptrs, c)) + Cardinality(LatchSet(latched, c))
      /\ OsdHolders(new, ptrs, latched, c) =
            Cardinality(PadSet(new, c)) + Cardinality(AuxSet(new, c))
            + Cardinality(PtrSet(ptrs, c)) + Cardinality(LatchSet(latched, c))
  BY HoldersAre
<1> QED
  BY <1>4, <1>5, <1>6 DEF One

PtrMoved(new, ptrs, q, x) ==
  \A r \in Pointer : new[r].code = IF r = q THEN x ELSE ptrs[r].code

(* A touch takes another key.                                              *)
LEMMA PtrMoves ==
  ASSUME NEW ptrs, NEW q \in Pointer, NEW x, NEW new, PtrMoved(new, ptrs, q, x),
         NEW pads, NEW latched, NEW c
  PROVE  OsdHolders(pads, new, latched, c) =
           OsdHolders(pads, ptrs, latched, c) + One(x, c) - One(ptrs[q].code, c)
<1>2. PtrSet(ptrs, c) \ {q} = PtrSet(new, c) \ {q}
  BY DEF PtrSet, PtrMoved
<1>3. (q \in PtrSet(new, c) <=> x = c) /\ (q \in PtrSet(ptrs, c) <=> ptrs[q].code = c)
  BY DEF PtrSet, PtrMoved
<1>4. Cardinality(PtrSet(new, c)) =
        Cardinality(PtrSet(ptrs, c)) + One(x, c) - One(ptrs[q].code, c)
  <2>1. IsFiniteSet(PtrSet(ptrs, c))
    BY Finite, Zenon
  <2>2. /\ Cardinality(PtrSet(ptrs, c)) \in Nat
        /\ Cardinality(PtrSet(new, c)) =
                  Cardinality(PtrSet(ptrs, c)) + (IF q \in PtrSet(new, c) THEN 1 ELSE 0)
                                - (IF q \in PtrSet(ptrs, c) THEN 1 ELSE 0)
    BY <1>2, <2>1, OneMoves
  <2> QED
    BY <1>3, <2>2 DEF One
<1>6. /\ Cardinality(PadSet(pads, c)) \in Nat /\ Cardinality(AuxSet(pads, c)) \in Nat
      /\ Cardinality(PtrSet(ptrs, c)) \in Nat /\ Cardinality(LatchSet(latched, c)) \in Nat
      /\ OsdHolders(pads, ptrs, latched, c) =
            Cardinality(PadSet(pads, c)) + Cardinality(AuxSet(pads, c))
            + Cardinality(PtrSet(ptrs, c)) + Cardinality(LatchSet(latched, c))
      /\ OsdHolders(pads, new, latched, c) =
            Cardinality(PadSet(pads, c)) + Cardinality(AuxSet(pads, c))
            + Cardinality(PtrSet(new, c)) + Cardinality(LatchSet(latched, c))
  BY HoldersAre
<1> QED
  BY <1>4, <1>6 DEF One

(* A modifier is latched or unlatched.                                     *)
LEMMA LatchMoves ==
  ASSUME NEW pads, NEW ptrs, NEW latched, NEW m, NEW other, NEW c,
         \/ m \notin latched /\ other = latched \union {m}
         \/ m \notin other /\ latched = other \union {m}
  PROVE  OsdHolders(pads, ptrs, other, c) =
           OsdHolders(pads, ptrs, latched, c) + (IF m \in other THEN One(m, c) ELSE 0)
                                              - (IF m \in latched THEN One(m, c) ELSE 0)
<1> DEFINE S == LatchSet(latched, c)
           T == LatchSet(other, c)
<1>1. OsdHolders(pads, ptrs, latched, c) =
        Cardinality(PadSet(pads, c)) + Cardinality(AuxSet(pads, c))
        + Cardinality(PtrSet(ptrs, c)) + Cardinality(S)
  BY HoldersAre
<1>2. /\ OsdHolders(pads, ptrs, other, c) =
           Cardinality(PadSet(pads, c)) + Cardinality(AuxSet(pads, c))
           + Cardinality(PtrSet(ptrs, c)) + Cardinality(T)
      /\ Cardinality(PadSet(pads, c)) \in Nat /\ Cardinality(AuxSet(pads, c)) \in Nat
      /\ Cardinality(PtrSet(ptrs, c)) \in Nat
  BY HoldersAre
<1>3. IsFiniteSet(S)
  BY Finite, Zenon
<1>4. S \ {m} = T \ {m}
  BY DEF LatchSet
<1>5. /\ m \in S <=> (m = c /\ m \in latched)
      /\ m \in T <=> (m = c /\ m \in other)
  BY DEF LatchSet
<1> HIDE DEF S, T
<1>6. /\ Cardinality(S) \in Nat /\ Cardinality(T) \in Nat
      /\ Cardinality(T) = Cardinality(S) + (IF m \in T THEN 1 ELSE 0)
                                        - (IF m \in S THEN 1 ELSE 0)
  BY <1>3, <1>4, OneMoves
<1> QED
  BY <1>1, <1>2, <1>5, <1>6 DEF One

JoyMoved(new, j, p, b, x) ==
  \A r \in Port : \A y \in Button :
    new[r].Previous[y] = IF r = p /\ y = b THEN x ELSE j[r].Previous[y]

(* A button of Joy2Key takes another key.                                  *)
LEMMA JoyMoves ==
  ASSUME NEW j, NEW p \in Port, NEW b \in Button, NEW x, NEW new, JoyMoved(new, j, p, b, x),
         NEW c
  PROVE  /\ JoyHolders(j, c) \in Nat
         /\ JoyHolders(new, c) = JoyHolders(j, c) + One(x, c) - One(j[p].Previous[b], c)
<1>2. JoySet(j, c) \ {<<p, b>>} = JoySet(new, c) \ {<<p, b>>}
  BY DEF JoySet, JoyMoved
<1>3. /\ <<p, b>> \in JoySet(new, c) <=> x = c
      /\ <<p, b>> \in JoySet(j, c) <=> j[p].Previous[b] = c
  BY DEF JoySet, JoyMoved
<1>4. /\ Cardinality(JoySet(j, c)) \in Nat
      /\ Cardinality(JoySet(new, c)) =
           Cardinality(JoySet(j, c)) + One(x, c) - One(j[p].Previous[b], c)
  <2>1. IsFiniteSet(JoySet(j, c))
    BY Finite, Zenon
  <2>2. /\ Cardinality(JoySet(j, c)) \in Nat
        /\ Cardinality(JoySet(new, c)) =
                  Cardinality(JoySet(j, c)) + (IF <<p, b>> \in JoySet(new, c) THEN 1 ELSE 0)
                                - (IF <<p, b>> \in JoySet(j, c) THEN 1 ELSE 0)
    BY <1>2, <2>1, OneMoves
  <2> QED
    BY <1>3, <2>2 DEF One
<1> QED
  BY <1>4 DEF JoyHolders, JoySet

(* The sum is a number.                                                    *)
LEMMA HoldersNat ==
  ASSUME NEW pads, NEW ptrs, NEW latched, NEW c
  PROVE  OsdHolders(pads, ptrs, latched, c) \in Nat
  BY HoldersAre

-----------------------------------------------------------------------------
(* A sequence of events counts nobody, and leaves down what it pressed or  *)
(* what was down and it did not release.                                   *)
LEMMA AllSent ==
  ASSUME NEW k, GoodKeys(k), NEW seq, Len(seq) \in Nat,
         \A i \in 1 .. Len(seq) : seq[i].code \in Code /\ seq[i].up \in BOOLEAN
  PROVE  /\ GoodKeys(Sends(k, seq)) /\ SameOsd(Sends(k, seq), k) /\ SameJoy(Sends(k, seq), k)
         /\ \A c \in Sends(k, seq).down :
              \/ \E i \in 1 .. Len(seq) : seq[i].code = c /\ ~seq[i].up
              \/ c \in k.down /\ \A i \in 1 .. Len(seq) : seq[i].code = c => ~seq[i].up
<1>0. PICK after : SendsTrace(after, k, seq)
  BY SendsRun
<1>1. /\ after[0] = k
      /\ \A n \in 1 .. Len(seq) : after[n] = send_keycode(after[n - 1], seq[n].code, seq[n].up)
      /\ Sends(k, seq) = after[Len(seq)]
  BY <1>0 DEF SendsTrace
<1> DEFINE Kept(n, j) == GoodKeys(j) /\ SameOsd(j, k) /\ SameJoy(j, k)
           Left(n, j) == \A c \in j.down :
              \/ \E i \in 1 .. n : seq[i].code = c /\ ~seq[i].up
              \/ c \in k.down /\ \A i \in 1 .. n : seq[i].code = c => ~seq[i].up
           T == {n \in Nat : Kept(n, after[n]) /\ Left(n, after[n])}
<1>2. 0 \in T
  BY <1>1 DEF SameOsd, SameJoy
<1>3. ASSUME NEW n \in 1 .. Len(seq), n - 1 \in T PROVE n \in T
  <2> DEFINE j == after[n - 1]
             c == seq[n].code
             up == seq[n].up
             l == after[n]
  <2>1. Kept(n - 1, j) /\ Left(n - 1, j) /\ n \in Nat
    BY <1>3
  <2>2. c \in Code /\ up \in BOOLEAN /\ l = send_keycode(j, c, up)
    BY <1>1
  <2> HIDE DEF c, up, j, l
  <2>3. /\ GoodKeys(l) /\ SameOsd(l, j) /\ SameJoy(l, j)
        /\ l.down = IF up THEN j.down \ {c} ELSE j.down \union {c}
    BY <2>1, <2>2, Sent
  <2>4. Kept(n, l)
    BY <2>1, <2>3 DEF SameOsd, SameJoy
  <2>5. Left(n, l)
    <3> SUFFICES ASSUME NEW x \in l.down,
                        ~ \E i \in 1 .. n : seq[i].code = x /\ ~seq[i].up
                 PROVE  x \in k.down /\ \A i \in 1 .. n : seq[i].code = x => ~seq[i].up
      OBVIOUS
    <3>1. 1 .. n = (1 .. n - 1) \union {n}
      BY <2>1
    <3>2. x \in j.down /\ (c = x => ~up)
      BY <2>2, <2>3, <3>1 DEF c, up
    <3>3. x \in k.down /\ \A i \in 1 .. n - 1 : seq[i].code = x => ~seq[i].up
      BY <2>1, <3>1, <3>2
    <3> QED
      BY <3>1, <3>2, <3>3 DEF c, up
  <2> QED
    BY <2>1, <2>4, <2>5 DEF l
<1> HIDE DEF T
<1>4. \A n \in 0 .. Len(seq) : n \in T
  <2>1. \A n \in 1 .. Len(seq) : n - 1 \in T => n \in T
    BY <1>3
  <2> QED
    BY <1>2, <2>1, Steps, Zenon
<1>5. Len(seq) \in 0 .. Len(seq)
  OBVIOUS
<1> QED
  BY <1>1, <1>4, <1>5 DEF T

(* Keyboard_OSDReleaseAll: nothing is held on the screen any more, and     *)
(* what was held by it alone is up.                                        *)
LEMMA AllReleased ==
  ASSUME NEW k, GoodKeys(k)
  PROVE  /\ GoodKeys(ReleasedKeys(k)) /\ SameJoy(ReleasedKeys(k), k)
         /\ ReleasedKeys(k).osd_refs = [c \in Code |-> 0] /\ ReleasedKeys(k).osd_latched = {}
         /\ \A H : DownHeld(k, H) => DownHeld(ReleasedKeys(k), H)
<1> DEFINE Screen == {c \in Code : k.osd_refs[c] > 0}
           held == SetToSeq(Screen)
           ups == [i \in DOMAIN held |-> [code |-> held[i], up |-> TRUE]]
           j == Sends(k, ups)
           zero == [c \in Code |-> 0]
<1>1. IsFiniteSet(Screen)
  BY FS_Subset, SizeAssumption
<1>2. /\ held \in Seq(Screen) /\ DOMAIN held = 1 .. Len(held)
      /\ \A x \in Screen : \E i \in DOMAIN held : held[i] = x
  BY <1>1, InTurn
<1> HIDE DEF held, Screen
<1>3. Len(held) \in Nat
  BY <1>2
<1>4. ups = [i \in 1 .. Len(held) |-> [code |-> held[i], up |-> TRUE]]
  BY <1>2
<1>5. /\ Len(ups) \in Nat /\ Len(ups) = Len(held)
      /\ \A i \in 1 .. Len(ups) : ups[i].code = held[i] /\ ups[i].up = TRUE
  BY <1>3, <1>4
<1>6. \A i \in 1 .. Len(ups) : ups[i].code \in Code /\ ups[i].up \in BOOLEAN
  <2>1. \A i \in 1 .. Len(ups) : held[i] \in Screen
    BY <1>2, <1>5
  <2>2. Screen \subseteq Code
    BY DEF Screen
  <2> HIDE DEF ups
  <2> QED
    BY <1>5, <2>1, <2>2
<1> HIDE DEF ups
<1>7. /\ GoodKeys(j) /\ SameOsd(j, k) /\ SameJoy(j, k)
      /\ \A c \in j.down :
           \/ \E i \in 1 .. Len(ups) : ups[i].code = c /\ ~ups[i].up
           \/ c \in k.down /\ \A i \in 1 .. Len(ups) : ups[i].code = c => ~ups[i].up
  BY <1>5, <1>6, AllSent
<1>8. \A c \in j.down : c \in k.down /\ c \notin Screen
  BY <1>2, <1>5, <1>7
<1>9. ReleasedKeys(k) = [j EXCEPT !.osd_refs = zero, !.osd_latched = {}]
  BY DEF ReleasedKeys, held, Screen, ups
<1> HIDE DEF j
<1>10. zero \in [Code -> Nat] /\ {} \in SUBSET Modifier
  OBVIOUS
<1> HIDE DEF zero
<1>11. GoodKeys(ReleasedKeys(k))
  <2> DEFINE none == {}
  <2> HIDE DEF none
  <2>1. GoodKeys([j EXCEPT !.osd_refs = zero, !.osd_latched = none])
    BY <1>7, <1>10, WithOsdRefs, Zenon DEF none
  <2> QED
    BY <1>9, <2>1, Zenon DEF none
<1>12. /\ ReleasedKeys(k).osd_refs = zero /\ ReleasedKeys(k).osd_latched = {}
       /\ ReleasedKeys(k).down = j.down /\ ReleasedKeys(k).Joy2KeyRefs = k.Joy2KeyRefs
  BY <1>7, <1>9 DEF GoodKeys, KeyStates, SameJoy
<1>13. ASSUME NEW H, DownHeld(k, H) PROVE DownHeld(ReleasedKeys(k), H)
  <2> SUFFICES ASSUME NEW c \in j.down PROVE k.Joy2KeyRefs[c] > 0 \/ HeldBy(H, c)
    BY <1>12 DEF DownHeld
  <2>1. c \in k.down /\ c \notin Screen /\ c \in Code
    BY <1>8 DEF GoodKeys, KeyStates
  <2> QED
    BY <1>13, <2>1 DEF DownHeld, Screen
<1> QED
  BY <1>11, <1>12, <1>13 DEF SameJoy, zero

-----------------------------------------------------------------------------
(* The keyboard on screen.                                                 *)
OsdCounted(k, pads, ptrs) ==
  \A x \in Code : k.osd_refs[x] = OsdHolders(pads, ptrs, k.osd_latched, x)

(* What every operation of it keeps.                                       *)
OsdKeeps(k, j) ==
  /\ GoodKeys(j) /\ SameJoy(j, k)
  /\ \A H : DownHeld(k, H) => DownHeld(j, H)

(* A latched modifier is let go.                                           *)
LEMMA Unlatched ==
  ASSUME NEW k, GoodKeys(k), NEW pads, NEW ptrs, OsdCounted(k, pads, ptrs),
         NEW c \in k.osd_latched
  PROVE  LET j == osd_code_up([k EXCEPT !.osd_latched = @ \ {c}], c)
         IN  OsdKeeps(k, j) /\ OsdCounted(j, pads, ptrs)
<1> DEFINE l == k.osd_latched \ {c}
           free == [k EXCEPT !.osd_refs = k.osd_refs, !.osd_latched = l]
           j == osd_code_up(free, c)
           r == k.osd_refs
<1>1. c \in Code /\ r \in [Code -> Nat] /\ l \in SUBSET Modifier
  BY CodeAssumption DEF GoodKeys, KeyStates
<1>2. \A x \in Code : r[x] = OsdHolders(pads, ptrs, l, x) + One(c, x)
  <2> SUFFICES ASSUME NEW x \in Code PROVE r[x] = OsdHolders(pads, ptrs, l, x) + One(c, x)
    OBVIOUS
  <2>1. c \notin l /\ k.osd_latched = l \union {c}
    OBVIOUS
  <2>2. OsdHolders(pads, ptrs, k.osd_latched, x) \in Nat /\ OsdHolders(pads, ptrs, l, x) \in Nat
    BY HoldersNat
  <2> HIDE DEF l
  <2>3. OsdHolders(pads, ptrs, k.osd_latched, x) =
          OsdHolders(pads, ptrs, l, x) + (IF c \in k.osd_latched THEN One(c, x) ELSE 0)
                                       - (IF c \in l THEN One(c, x) ELSE 0)
    BY <2>1, LatchMoves
  <2> QED
    BY <2>1, <2>2, <2>3 DEF OsdCounted, One
<1>3. r[c] > 0
  <2>1. OsdHolders(pads, ptrs, l, c) \in Nat
    BY HoldersNat
  <2> QED
    BY <1>1, <1>2, <2>1 DEF One
<1>4. free = [k EXCEPT !.osd_latched = @ \ {c}]
  BY DEF GoodKeys, KeyStates
<1>5. GoodKeys(free)
  BY <1>1, WithOsdRefs, Zenon
<1>6. /\ free.osd_refs = r /\ free.osd_latched = l /\ SameJoy(free, k) /\ free.down = k.down
  BY DEF GoodKeys, KeyStates, SameJoy
<1> HIDE DEF free, l, r
<1>7. /\ GoodKeys(j) /\ SameJoy(j, free) /\ j.osd_refs = [r EXCEPT ![c] = @ - 1]
      /\ j.osd_latched = l /\ \A H : DownHeld(free, H) => DownHeld(j, H)
  BY <1>1, <1>3, <1>5, <1>6, OsdReleased
<1>8. \A H : DownHeld(k, H) => DownHeld(free, H)
  BY <1>6 DEF DownHeld, SameJoy, r
<1>9. OsdKeeps(k, j)
  BY <1>6, <1>7, <1>8 DEF OsdKeeps, SameJoy
<1>10. OsdCounted(j, pads, ptrs)
  <2> SUFFICES ASSUME NEW x \in Code PROVE j.osd_refs[x] = OsdHolders(pads, ptrs, l, x)
    BY <1>7 DEF OsdCounted
  <2>1. OsdHolders(pads, ptrs, l, x) \in Nat
    BY HoldersNat
  <2> QED
    BY <1>1, <1>2, <1>7, <2>1 DEF One
<1> QED
  BY <1>4, <1>9, <1>10

(* osd_key_press: a modifier is latched or unlatched; any other key is     *)
(* owed to whoever is to hold it.                                          *)
LEMMA KeyPressed ==
  ASSUME NEW k, GoodKeys(k), NEW pads, NEW ptrs, OsdCounted(k, pads, ptrs), NEW c \in Code
  PROVE  /\ OsdKeeps(k, osd_key_press(k, c))
         /\ \A x \in Code : osd_key_press(k, c).osd_refs[x] =
              OsdHolders(pads, ptrs, osd_key_press(k, c).osd_latched, x) + One(ToRelease(c), x)
<1> DEFINE j == osd_key_press(k, c)
<1>0. \A x \in Code : One(NoKey, x) = 0
  BY CodeAssumption DEF One
<1>1. CASE c \notin Modifier
  <2>1. j = osd_code_down(k, c) /\ ToRelease(c) = c
    BY <1>1 DEF osd_key_press, ToRelease
  <2>2. /\ GoodKeys(j) /\ SameJoy(j, k) /\ j.osd_refs = [k.osd_refs EXCEPT ![c] = @ + 1]
        /\ j.osd_latched = k.osd_latched /\ \A H : DownHeld(k, H) => DownHeld(j, H)
    BY <2>1, OsdPressed
  <2>3. k.osd_refs \in [Code -> Nat]
    BY DEF GoodKeys, KeyStates
  <2> HIDE DEF j
  <2>4. \A x \in Code : j.osd_refs[x] = k.osd_refs[x] + One(c, x)
    BY <2>2, <2>3 DEF One
  <2> QED
    BY <2>1, <2>2, <2>4 DEF OsdKeeps, OsdCounted, j
<1>2. CASE c \in k.osd_latched /\ c \in Modifier
  <2>1. j = osd_code_up([k EXCEPT !.osd_latched = @ \ {c}], c) /\ ToRelease(c) = NoKey
    BY <1>2 DEF osd_key_press, ToRelease
  <2>2. OsdKeeps(k, j) /\ OsdCounted(j, pads, ptrs)
    BY <1>2, <2>1, Unlatched
  <2> HIDE DEF j
  <2>3. \A x \in Code : OsdHolders(pads, ptrs, j.osd_latched, x) \in Nat
    BY HoldersNat
  <2>4. \A x \in Code : j.osd_refs[x] =
            OsdHolders(pads, ptrs, j.osd_latched, x) + One(ToRelease(c), x)
    <3> SUFFICES ASSUME NEW x \in Code
                 PROVE  j.osd_refs[x] =
                          OsdHolders(pads, ptrs, j.osd_latched, x) + One(ToRelease(c), x)
      OBVIOUS
    <3>1. One(ToRelease(c), x) = 0
      BY <1>0, <2>1
    <3> QED
      BY <2>2, <2>3, <3>1 DEF OsdCounted
  <2> QED
    BY <2>2, <2>4 DEF j
<1>3. CASE c \notin k.osd_latched /\ c \in Modifier
  <2> DEFINE l == k.osd_latched \union {c}
             r == k.osd_refs
             free == [k EXCEPT !.osd_refs = r, !.osd_latched = l]
  <2>1. j = osd_code_down([k EXCEPT !.osd_latched = l], c) /\ ToRelease(c) = NoKey
    BY <1>3 DEF osd_key_press, ToRelease
  <2>2. [k EXCEPT !.osd_latched = l] = free
    BY DEF GoodKeys, KeyStates
  <2>3. r \in [Code -> Nat] /\ l \in SUBSET Modifier
    BY <1>3 DEF GoodKeys, KeyStates
  <2>4. GoodKeys(free)
    BY <2>3, WithOsdRefs, Zenon
  <2>5. /\ free.osd_refs = r /\ free.osd_latched = l /\ SameJoy(free, k) /\ free.down = k.down
    BY DEF GoodKeys, KeyStates, SameJoy
  <2>6. \A x \in Code : OsdHolders(pads, ptrs, l, x) = r[x] + One(c, x)
    <3> SUFFICES ASSUME NEW x \in Code PROVE OsdHolders(pads, ptrs, l, x) = r[x] + One(c, x)
      OBVIOUS
    <3>1. /\ OsdHolders(pads, ptrs, k.osd_latched, x) \in Nat
          /\ OsdHolders(pads, ptrs, l, x) \in Nat
      BY HoldersNat
    <3>2. OsdHolders(pads, ptrs, l, x) =
            OsdHolders(pads, ptrs, k.osd_latched, x) + (IF c \in l THEN One(c, x) ELSE 0)
                                       - (IF c \in k.osd_latched THEN One(c, x) ELSE 0)
      BY <1>3, LatchMoves
    <3> QED
      BY <1>3, <3>1, <3>2 DEF OsdCounted, One
  <2>7. j = osd_code_down(free, c)
    BY <2>1, <2>2
  <2> HIDE DEF free, l, r, j
  <2>8. /\ GoodKeys(j) /\ SameJoy(j, free) /\ j.osd_refs = [r EXCEPT ![c] = @ + 1]
        /\ j.osd_latched = l /\ \A H : DownHeld(free, H) => DownHeld(j, H)
    BY <2>4, <2>5, <2>7, OsdPressed
  <2>9. \A H : DownHeld(k, H) => DownHeld(free, H)
    BY <2>5 DEF DownHeld, SameJoy, r
  <2>10. OsdKeeps(k, j)
    BY <2>5, <2>8, <2>9 DEF OsdKeeps, SameJoy
  <2>11. \A x \in Code : j.osd_refs[x] = r[x] + One(c, x)
    BY <2>3, <2>8 DEF One
  <2>12. \A x \in Code : OsdHolders(pads, ptrs, l, x) \in Nat
    BY HoldersNat
  <2>13. \A x \in Code : j.osd_refs[x] =
            OsdHolders(pads, ptrs, j.osd_latched, x) + One(ToRelease(c), x)
    BY <1>0, <2>1, <2>6, <2>8, <2>11, <2>12
  <2> QED
    BY <2>10, <2>13 DEF j
<1> QED
  BY <1>1, <1>2, <1>3

(* osd_clear_latches.                                                      *)
LEMMA LatchesCleared ==
  ASSUME NEW k, GoodKeys(k), NEW pads, NEW ptrs, OsdCounted(k, pads, ptrs)
  PROVE  OsdKeeps(k, osd_clear_latches(k)) /\ OsdCounted(osd_clear_latches(k), pads, ptrs)
<1> DEFINE seq == SetToSeq(Modifier)
<1>1. IsFiniteSet(Modifier)
  BY FS_Subset, SizeAssumption, CodeAssumption
<1>2. seq \in Seq(Modifier)
  BY <1>1, InTurn
<1> HIDE DEF seq
<1>3. Len(seq) \in Nat
  BY <1>2
<1>4. PICK after : UnlatchTrace(after, k, seq)
  BY <1>3, UnlatchRun DEF seq
<1>5. /\ after[0] = k /\ osd_clear_latches(k) = after[Len(seq)]
      /\ \A n \in 1 .. Len(seq) : after[n] = unlatch(after[n - 1], seq[n])
  BY <1>4 DEF UnlatchTrace
<1> DEFINE T == {n \in Nat : OsdKeeps(k, after[n]) /\ OsdCounted(after[n], pads, ptrs)}
<1>6. 0 \in T
  BY <1>5 DEF OsdKeeps, SameJoy
<1>7. ASSUME NEW n \in 1 .. Len(seq), n - 1 \in T PROVE n \in T
  <2> DEFINE j == after[n - 1]
             l == after[n]
             c == seq[n]
  <2>1. GoodKeys(j) /\ OsdKeeps(k, j) /\ OsdCounted(j, pads, ptrs) /\ n \in Nat
    BY <1>7 DEF OsdKeeps
  <2>2. l = IF c \in j.osd_latched
            THEN osd_code_up([j EXCEPT !.osd_latched = @ \ {c}], c) ELSE j
    BY <1>5 DEF unlatch
  <2> HIDE DEF j, l, c
  <2>3. CASE c \in j.osd_latched
    <3>1. OsdKeeps(j, l) /\ OsdCounted(l, pads, ptrs)
      BY <2>1, <2>2, <2>3, Unlatched
    <3> QED
      BY <2>1, <3>1 DEF OsdKeeps, SameJoy, l
  <2> QED
    BY <2>1, <2>2, <2>3 DEF l
<1> HIDE DEF T
<1>8. \A n \in 0 .. Len(seq) : n \in T
  <2>1. \A n \in 1 .. Len(seq) : n - 1 \in T => n \in T
    BY <1>7
  <2> QED
    BY <1>3, <1>6, <2>1, Steps, Zenon
<1>9. Len(seq) \in 0 .. Len(seq)
  BY <1>3
<1> QED
  BY <1>5, <1>8, <1>9 DEF T

-----------------------------------------------------------------------------
(* A pad keeps a key down only with a button it holds.                     *)
PadKeeps(d) ==
  /\ d.code # NoKey => CONFIRM \in d.prev
  /\ \A b \in DOMAIN AuxCode : d.aux[b] # NoKey => b \in d.prev

(* What an update of a pad works on: the key state and the pad's own,      *)
(* counted among the others'.                                              *)
AtPad(w, pads, p, ptrs) ==
  /\ w = [key |-> w.key, pad |-> w.pad] /\ GoodKeys(w.key) /\ w.pad \in PadStates
  /\ OsdCounted(w.key, [pads EXCEPT ![p] = w.pad], ptrs)

AuxAfter(x, b, P, R) == IF b \in P THEN AuxCode[b] ELSE IF b \in R THEN NoKey ELSE x

(* One of the buttons with a key of its own.                               *)
LEMMA AuxStep ==
  ASSUME NEW pads \in [Port -> PadStates], NEW p \in Port, NEW ptrs,
         NEW w, AtPad(w, pads, p, ptrs),
         NEW b \in DOMAIN AuxCode, NEW P, NEW R, b \in P => w.pad.aux[b] = NoKey
  PROVE  LET v == osd_aux(w, b, P, R)
         IN  /\ AtPad(v, pads, p, ptrs) /\ OsdKeeps(w.key, v.key)
             /\ v.pad.prev = w.pad.prev /\ v.pad.code = w.pad.code
             /\ \A y \in DOMAIN AuxCode :
                  v.pad.aux[y] = IF y = b THEN AuxAfter(w.pad.aux[b], b, P, R) ELSE w.pad.aux[y]
<1>state. /\ w = [key |-> w.key, pad |-> w.pad] /\ GoodKeys(w.key) /\ w.pad \in PadStates
      /\ OsdCounted(w.key, [pads EXCEPT ![p] = w.pad], ptrs)
  BY DEF AtPad
<1> USE <1>state
<1> DEFINE k == w.key
           d == w.pad
           old == [pads EXCEPT ![p] = d]
           v == osd_aux(w, b, P, R)
           with(x) == [d EXCEPT !.aux[b] = x]
<1>goal. SUFFICES /\ v = [key |-> v.key, pad |-> v.pad] /\ v.pad \in PadStates
               /\ OsdKeeps(w.key, v.key)
               /\ OsdCounted(v.key, [pads EXCEPT ![p] = v.pad], ptrs)
               /\ v.pad.prev = w.pad.prev /\ v.pad.code = w.pad.code
               /\ v.pad.aux = [w.pad.aux EXCEPT ![b] =
                    IF b \in P THEN AuxCode[b] ELSE IF b \in R THEN NoKey ELSE @]
  <2> HIDE DEF with, old, v
  <2>7. GoodKeys(v.key)
    BY <1>goal DEF OsdKeeps
  <2>8. w.pad.aux \in [DOMAIN AuxCode -> Code \union {NoKey}]
    BY DEF PadStates
  <2>9. \A y \in DOMAIN AuxCode :
          v.pad.aux[y] = IF y = b THEN AuxAfter(w.pad.aux[b], b, P, R) ELSE w.pad.aux[y]
    BY <1>goal, <2>8 DEF AuxAfter
  <2>10. AtPad(v, pads, p, ptrs)
    BY <1>goal, <2>7 DEF AtPad
  <2> QED
    BY <1>goal, <2>9, <2>10 DEF v
<1>0. /\ old \in [Port -> PadStates] /\ old[p] = d /\ d.aux[b] \in Code \union {NoKey}
      /\ AuxCode[b] \in Code /\ \A x \in Code : One(NoKey, x) = 0
  BY MapAssumption, CodeAssumption DEF Range, PadStates, One
<1>1. ASSUME NEW x \in Code \union {NoKey}
      PROVE  /\ with(x) \in PadStates /\ with(x).prev = d.prev /\ with(x).code = d.code
             /\ with(x).aux = [d.aux EXCEPT ![b] = x]
             /\ \A c \in Code : OsdHolders([pads EXCEPT ![p] = with(x)], ptrs, k.osd_latched, c) =
                  k.osd_refs[c] + One(x, c) - One(d.aux[b], c)
  <2> DEFINE t == with(x)
  <2>1. [pads EXCEPT ![p] = t] = [old EXCEPT ![p] = t]
    BY <1>0
  <2>2. /\ with(x) \in PadStates /\ with(x).prev = d.prev /\ with(x).code = d.code
        /\ with(x).aux = [d.aux EXCEPT ![b] = x]
    BY <1>1 DEF PadStates
  <2> HIDE DEF with, old, d
  <2>3. ASSUME NEW c \in Code
        PROVE  OsdHolders([pads EXCEPT ![p] = with(x)], ptrs, k.osd_latched, c) =
                 k.osd_refs[c] + One(x, c) - One(d.aux[b], c)
    <3> DEFINE latched == k.osd_latched
               new == [old EXCEPT ![p] = t]
    <3>1. AuxMoved(new, old, p, b, x)
      BY <1>0, <2>2 DEF AuxMoved, t, PadStates
    <3> HIDE DEF t, latched, new
    <3>3. OsdHolders(new, ptrs, latched, c) =
            OsdHolders(old, ptrs, latched, c) + One(x, c) - One(old[p].aux[b], c)
      BY <3>1, AuxMoves
    <3>2. k.osd_refs[c] = OsdHolders(old, ptrs, k.osd_latched, c)
      BY DEF OsdCounted, old, d
    <3> QED
      BY <1>0, <2>1, <3>3, <3>2 DEF t, latched, new
  <2> QED
    BY <2>2, <2>3
<1>2. k.osd_refs \in [Code -> Nat]
  BY DEF GoodKeys, KeyStates
<1>3. CASE b \in P
  <2> DEFINE a == AuxCode[b]
             j == osd_code_down(k, a)
  <2>1. v = [key |-> j, pad |-> with(a)]
    BY <1>3 DEF osd_aux
  <2> HIDE DEF with
  <2>2. v.key = j /\ v.pad = with(a)
    BY <2>1
  <2>3. /\ GoodKeys(j) /\ SameJoy(j, k) /\ j.osd_refs = [k.osd_refs EXCEPT ![a] = @ + 1]
        /\ j.osd_latched = k.osd_latched /\ \A H : DownHeld(k, H) => DownHeld(j, H)
    BY <1>0, OsdPressed
  <2> HIDE DEF j, a, v
  <2>4. \A x \in Code : j.osd_refs[x] = k.osd_refs[x] + One(a, x)
    BY <1>2, <2>3 DEF One
  <2>5. d.aux[b] = NoKey
    BY <1>3
  <2>6. /\ with(a) \in PadStates /\ with(a).prev = d.prev /\ with(a).code = d.code
        /\ with(a).aux = [d.aux EXCEPT ![b] = a]
        /\ \A c \in Code : OsdHolders([pads EXCEPT ![p] = with(a)], ptrs, k.osd_latched, c) =
             k.osd_refs[c] + One(a, c) - One(d.aux[b], c)
    BY <1>0, <1>1 DEF a
  <2>7. OsdCounted(j, [pads EXCEPT ![p] = with(a)], ptrs)
    <3> DEFINE new == [pads EXCEPT ![p] = with(a)]
    <3> SUFFICES ASSUME NEW x \in Code
                 PROVE  j.osd_refs[x] = OsdHolders(new, ptrs, k.osd_latched, x)
      BY <2>3 DEF OsdCounted
    <3>1. OsdHolders(new, ptrs, k.osd_latched, x) = k.osd_refs[x] + One(a, x) - One(NoKey, x)
      BY <2>5, <2>6
    <3>2. One(NoKey, x) = 0 /\ One(a, x) \in Int /\ k.osd_refs[x] \in Int
      BY <1>0, <1>2 DEF One
    <3> HIDE DEF new
    <3> QED
      BY <2>4, <3>1, <3>2
  <2> QED
    BY <1>3, <2>1, <2>2, <2>3, <2>6, <2>7 DEF OsdKeeps, v, a
<1>4. CASE b \notin P /\ b \in R /\ d.aux[b] # NoKey
  <2> DEFINE a == d.aux[b]
             j == osd_code_up(k, a)
  <2>1. v = [key |-> j, pad |-> with(NoKey)]
    BY <1>4 DEF osd_aux
  <2> HIDE DEF with
  <2>2. v.key = j /\ v.pad = with(NoKey) /\ a \in Code
    BY <1>0, <1>4, <2>1
  <2>3. /\ with(NoKey) \in PadStates /\ with(NoKey).prev = d.prev /\ with(NoKey).code = d.code
        /\ with(NoKey).aux = [d.aux EXCEPT ![b] = NoKey]
        /\ \A c \in Code : OsdHolders([pads EXCEPT ![p] = with(NoKey)], ptrs, k.osd_latched, c) =
             k.osd_refs[c] + One(NoKey, c) - One(a, c)
    BY <1>1
  <2> DEFINE new == [pads EXCEPT ![p] = with(NoKey)]
  <2> HIDE DEF new
  <2>4. \A c \in Code : OsdHolders(new, ptrs, k.osd_latched, c) \in Nat
    BY HoldersNat
  <2>5. \A c \in Code : OsdHolders(new, ptrs, k.osd_latched, c) = k.osd_refs[c] - One(a, c)
    <3> SUFFICES ASSUME NEW c \in Code
                 PROVE  OsdHolders(new, ptrs, k.osd_latched, c) = k.osd_refs[c] - One(a, c)
      OBVIOUS
    <3>1. OsdHolders(new, ptrs, k.osd_latched, c) = k.osd_refs[c] + One(NoKey, c) - One(a, c)
      BY <2>3 DEF new
    <3>2. One(NoKey, c) = 0 /\ One(a, c) \in Int /\ k.osd_refs[c] \in Int
      BY <1>0, <1>2 DEF One
    <3> HIDE DEF a
    <3> QED
      BY <3>1, <3>2
  <2>6. k.osd_refs[a] > 0
    BY <1>2, <2>2, <2>4, <2>5 DEF One
  <2> HIDE DEF a, v, j
  <2>7. /\ GoodKeys(j) /\ SameJoy(j, k) /\ j.osd_refs = [k.osd_refs EXCEPT ![a] = @ - 1]
        /\ j.osd_latched = k.osd_latched /\ \A H : DownHeld(k, H) => DownHeld(j, H)
    BY <2>2, <2>6, OsdReleased DEF j
  <2>8. \A x \in Code : j.osd_refs[x] = k.osd_refs[x] - One(a, x)
    BY <1>2, <2>2, <2>7 DEF One
  <2>9. OsdCounted(j, new, ptrs)
    BY <2>5, <2>7, <2>8 DEF OsdCounted
  <2> QED
    BY <1>4, <2>1, <2>2, <2>3, <2>7, <2>9 DEF OsdKeeps, v, new
<1>5. CASE b \notin P /\ ~(b \in R /\ d.aux[b] # NoKey)
  <2>1. v = w
    BY <1>5 DEF osd_aux
  <2>2. d.aux = [d.aux EXCEPT ![b] = IF b \in P THEN AuxCode[b] ELSE IF b \in R THEN NoKey ELSE @]
    BY <1>5 DEF PadStates
  <2> HIDE DEF v
  <2> QED
    BY <2>1, <2>2 DEF OsdKeeps, SameJoy, v
<1> QED
  BY <1>3, <1>4, <1>5

(* All of them: each is as its button says.                                *)
LEMMA AuxDone ==
  ASSUME NEW pads \in [Port -> PadStates], NEW p \in Port, NEW ptrs,
         NEW w, AtPad(w, pads, p, ptrs), NEW P, NEW R,
         \A b \in DOMAIN AuxCode : b \in P => w.pad.aux[b] = NoKey
  PROVE  /\ AtPad(AuxKeys(w, P, R), pads, p, ptrs) /\ OsdKeeps(w.key, AuxKeys(w, P, R).key)
         /\ AuxKeys(w, P, R).pad.prev = w.pad.prev
         /\ AuxKeys(w, P, R).pad.code = w.pad.code
         /\ \A b \in DOMAIN AuxCode :
              AuxKeys(w, P, R).pad.aux[b] = AuxAfter(w.pad.aux[b], b, P, R)
<1> DEFINE seq == SetToSeq(DOMAIN AuxCode)
<1>1. IsFiniteSet(DOMAIN AuxCode)
  BY FS_Subset, SizeAssumption, MapAssumption
<1>2. /\ seq \in Seq(DOMAIN AuxCode) /\ DOMAIN seq = 1 .. Len(seq)
      /\ \A b \in DOMAIN AuxCode : \E i \in DOMAIN seq : seq[i] = b
      /\ \A i, j \in DOMAIN seq : seq[i] = seq[j] => i = j
  BY <1>1, InTurn
<1> HIDE DEF seq
<1>3. Len(seq) \in Nat /\ \A i \in 1 .. Len(seq) : seq[i] \in DOMAIN AuxCode
  BY <1>2
<1>4. PICK after : AuxTrace(after, w, P, R, seq)
  BY <1>3, AuxRun DEF seq
<1>5. /\ after[0] = w /\ AuxKeys(w, P, R) = after[Len(seq)]
      /\ \A n \in 1 .. Len(seq) : after[n] = osd_aux(after[n - 1], seq[n], P, R)
  BY <1>4 DEF AuxTrace
<1> DEFINE Kept(v) == /\ AtPad(v, pads, p, ptrs) /\ OsdKeeps(w.key, v.key)
                      /\ v.pad.prev = w.pad.prev /\ v.pad.code = w.pad.code
           So(v, n) == \A i \in 1 .. Len(seq) : v.pad.aux[seq[i]] =
                         IF i <= n THEN AuxAfter(w.pad.aux[seq[i]], seq[i], P, R)
                                   ELSE w.pad.aux[seq[i]]
           T == {n \in Nat : Kept(after[n]) /\ So(after[n], n)}
<1>6. 0 \in T
  <2>1. OsdKeeps(w.key, w.key)
    BY DEF OsdKeeps, SameJoy, AtPad
  <2>2. \A i \in 1 .. Len(seq) : ~ i <= 0
    BY <1>3
  <2>3. Kept(w) /\ So(w, 0)
    BY <2>1, <2>2
  <2> HIDE DEF Kept, So
  <2> QED
    BY <1>5, <2>3
<1>7. ASSUME NEW n \in 1 .. Len(seq), n - 1 \in T PROVE n \in T
  <2> DEFINE u == after[n - 1]
             v == after[n]
             b == seq[n]
             a == AuxAfter(w.pad.aux[b], b, P, R)
  <2>1. Kept(u) /\ So(u, n - 1) /\ n \in Nat /\ b \in DOMAIN AuxCode
    BY <1>3, <1>7
  <2>2. v = osd_aux(u, b, P, R)
    BY <1>5
  <2>3. u.pad.aux[b] = w.pad.aux[b]
    BY <2>1
  <2> HIDE DEF u, v, b
  <2>4. b \in P => u.pad.aux[b] = NoKey
    BY <2>1, <2>3
  <2>5. /\ AtPad(v, pads, p, ptrs) /\ OsdKeeps(u.key, v.key)
        /\ v.pad.prev = u.pad.prev /\ v.pad.code = u.pad.code
        /\ \A y \in DOMAIN AuxCode :
             v.pad.aux[y] = IF y = b THEN AuxAfter(u.pad.aux[b], b, P, R) ELSE u.pad.aux[y]
    BY <2>1, <2>2, <2>4, AuxStep
  <2>6. Kept(v)
    BY <2>1, <2>5 DEF OsdKeeps, SameJoy
  <2>7. \A x \in DOMAIN AuxCode : v.pad.aux[x] = IF x = b THEN a ELSE u.pad.aux[x]
    BY <2>3, <2>5
  <2> HIDE DEF a
  <2>8. So(v, n)
    <3> SUFFICES ASSUME NEW i \in 1 .. Len(seq)
                 PROVE  v.pad.aux[seq[i]] = IF i <= n THEN AuxAfter(w.pad.aux[seq[i]], seq[i], P, R)
                                                      ELSE w.pad.aux[seq[i]]
      OBVIOUS
    <3>1. seq[i] = b <=> i = n
      BY <1>2 DEF b
    <3>2. seq[i] \in DOMAIN AuxCode
      BY <1>3
    <3>3. v.pad.aux[seq[i]] = IF i = n THEN a ELSE u.pad.aux[seq[i]]
      BY <2>7, <3>1, <3>2
    <3>4. i = n => a = AuxAfter(w.pad.aux[seq[i]], seq[i], P, R)
      BY <3>1 DEF a
    <3>5. i # n => (i <= n - 1 <=> i <= n)
      BY <2>1
    <3> QED
      BY <2>1, <3>3, <3>4, <3>5
  <2> QED
    BY <2>1, <2>6, <2>8 DEF v
<1> HIDE DEF T
<1>8. \A n \in 0 .. Len(seq) : n \in T
  <2>1. \A n \in 1 .. Len(seq) : n - 1 \in T => n \in T
    BY <1>7
  <2> QED
    BY <1>3, <1>6, <2>1, Steps, Zenon
<1> DEFINE done == after[Len(seq)]
<1>9. Kept(done) /\ So(done, Len(seq))
  BY <1>3, <1>8 DEF T
<1> HIDE DEF done
<1>10. \A b \in DOMAIN AuxCode : done.pad.aux[b] = AuxAfter(w.pad.aux[b], b, P, R)
  BY <1>2, <1>3, <1>9
<1>11. AuxKeys(w, P, R) = done
  BY <1>5 DEF done
<1> QED
  BY <1>9, <1>10, <1>11

(* A pad or a touch lets go of its key.                                    *)
LEMMA LetGo ==
  ASSUME NEW k, GoodKeys(k), NEW pads, NEW ptrs, OsdCounted(k, pads, ptrs), NEW a \in Code,
         NEW pads2, NEW ptrs2,
         \A c \in Code : OsdHolders(pads2, ptrs2, k.osd_latched, c) =
                           OsdHolders(pads, ptrs, k.osd_latched, c) - One(a, c)
  PROVE  OsdKeeps(k, osd_code_up(k, a)) /\ OsdCounted(osd_code_up(k, a), pads2, ptrs2)
<1> DEFINE j == osd_code_up(k, a)
           r == k.osd_refs
<1>1. \A c \in Code : OsdHolders(pads2, ptrs2, k.osd_latched, c) \in Nat
  BY HoldersNat
<1>2. r \in [Code -> Nat]
  BY DEF GoodKeys, KeyStates
<1>3. \A c \in Code : OsdHolders(pads2, ptrs2, k.osd_latched, c) = r[c] - One(a, c)
  BY DEF OsdCounted
<1>4. r[a] > 0
  BY <1>1, <1>2, <1>3 DEF One
<1>5. /\ GoodKeys(j) /\ SameJoy(j, k) /\ j.osd_refs = [r EXCEPT ![a] = @ - 1]
      /\ j.osd_latched = k.osd_latched /\ \A H : DownHeld(k, H) => DownHeld(j, H)
  BY <1>4, OsdReleased
<1> HIDE DEF j, r
<1>6. \A c \in Code : j.osd_refs[c] = r[c] - One(a, c)
  BY <1>2, <1>5 DEF One
<1> QED
  BY <1>3, <1>5, <1>6 DEF OsdKeeps, OsdCounted, j

(* ... and takes the key that was pressed for it.                          *)
LEMMA Takes ==
  ASSUME NEW k, GoodKeys(k), NEW pads, NEW ptrs, OsdCounted(k, pads, ptrs), NEW a \in Code,
         NEW pads2, NEW ptrs2,
         \A latched : \A c \in Code : OsdHolders(pads2, ptrs2, latched, c) =
                           OsdHolders(pads, ptrs, latched, c) + One(ToRelease(a), c)
  PROVE  OsdKeeps(k, osd_key_press(k, a)) /\ OsdCounted(osd_key_press(k, a), pads2, ptrs2)
<1> DEFINE j == osd_key_press(k, a)
<1>1. /\ OsdKeeps(k, j)
      /\ \A x \in Code : j.osd_refs[x] =
           OsdHolders(pads, ptrs, j.osd_latched, x) + One(ToRelease(a), x)
  BY KeyPressed
<1> HIDE DEF j
<1> QED
  BY <1>1 DEF OsdCounted, j

(* Keyboard_OSDPadUpdate.                                                  *)
LEMMA PadUpdated ==
  ASSUME NEW pads \in [Port -> PadStates], NEW p \in Port, NEW ptrs, NEW k, GoodKeys(k),
         OsdCounted(k, pads, ptrs), PadKeeps(pads[p]),
         NEW buttons \in SUBSET Button, NEW c \in Code, NEW clears \in BOOLEAN
  PROVE  LET u == Keyboard_OSDPadUpdate(k, pads[p], buttons, c, clears)
         IN  AtPad(u, pads, p, ptrs) /\ OsdKeeps(k, u.key) /\ PadKeeps(u.pad)
<1> DEFINE d == pads[p]
           now == buttons \ d.block
           P == now \ d.prev
           R == d.prev \ now
           polled == [d EXCEPT !.prev = now, !.block = @ \intersect buttons]
           confirmed ==
             IF CONFIRM \in P
             THEN [key |-> osd_key_press(k, c), pad |-> [polled EXCEPT !.code = ToRelease(c)]]
             ELSE IF CONFIRM \in R /\ d.code # NoKey
             THEN [key |-> osd_code_up(k, d.code), pad |-> [polled EXCEPT !.code = NoKey]]
             ELSE [key |-> k, pad |-> polled]
           done == AuxKeys(confirmed, P, R)
           u == Keyboard_OSDPadUpdate(k, d, buttons, c, clears)
<1>1. d \in PadStates /\ PadKeeps(d)
  BY Zenon
<1>2. u = IF clears THEN [done EXCEPT !.key = osd_clear_latches(@)] ELSE done
  BY DEF Keyboard_OSDPadUpdate
<1> HIDE DEF d, u
<1>3. now \in SUBSET Button
  OBVIOUS
<1>4. ASSUME NEW x \in (Code \ Modifier) \union {NoKey}
      PROVE  LET t == [polled EXCEPT !.code = x]
             IN  t \in PadStates /\ t.code = x /\ t.prev = now /\ t.aux = d.aux
  BY <1>1, <1>3, <1>4 DEF PadStates
<1>5. [polled EXCEPT !.code = d.code] = polled /\ d.code \in (Code \ Modifier) \union {NoKey}
  BY <1>1 DEF PadStates
<1>6. ASSUME NEW t \in PadStates, t.aux = d.aux
      PROVE  \A latched, y : OsdHolders([pads EXCEPT ![p] = t], ptrs, latched, y) =
               OsdHolders(pads, ptrs, latched, y) + One(t.code, y) - One(d.code, y)
  <2> SUFFICES ASSUME NEW latched, NEW y
               PROVE  OsdHolders([pads EXCEPT ![p] = t], ptrs, latched, y) =
                        OsdHolders(pads, ptrs, latched, y) + One(t.code, y) - One(d.code, y)
    OBVIOUS
  <2>1. t.aux = pads[p].aux /\ d.code = pads[p].code
    BY <1>6, Zenon DEF d
  <2> DEFINE new == [pads EXCEPT ![p] = t]
             x == t.code
  <2>2. PadMoved(new, pads, p, x)
    BY <2>1 DEF PadMoved
  <2> HIDE DEF new, x
  <2>3. OsdHolders(new, ptrs, latched, y) =
          OsdHolders(pads, ptrs, latched, y) + One(x, y) - One(pads[p].code, y)
    BY <2>2, PadMoves
  <2> QED
    BY <2>1, <2>3 DEF new, x
<1>7. \A latched, y : OsdHolders(pads, ptrs, latched, y) \in Nat
  BY HoldersNat
<1>8. \A y \in Code : One(NoKey, y) = 0
  BY CodeAssumption DEF One
<1>9. \A x, y : One(x, y) \in Nat
  BY DEF One
<1> HIDE DEF polled
<1> DEFINE Ready(v) == /\ AtPad(v, pads, p, ptrs) /\ OsdKeeps(k, v.key)
                       /\ v.pad.prev = now /\ v.pad.aux = d.aux
                       /\ v.pad.code # NoKey => CONFIRM \in now
<1>10. Ready(confirmed)
  <2>1. CASE CONFIRM \in P
    <3> DEFINE x == ToRelease(c)
               t == [polled EXCEPT !.code = x]
               j == osd_key_press(k, c)
               new == [pads EXCEPT ![p] = t]
    <3>1. x \in (Code \ Modifier) \union {NoKey}
      BY DEF ToRelease
    <3> HIDE DEF x
    <3>2. t \in PadStates /\ t.code = x /\ t.prev = now /\ t.aux = d.aux
      BY <1>4, <3>1
    <3>3. d.code = NoKey
      BY <1>1, <2>1 DEF PadKeeps
    <3> HIDE DEF t
    <3>4. \A latched : \A y \in Code :
            OsdHolders(new, ptrs, latched, y) = OsdHolders(pads, ptrs, latched, y) + One(x, y)
      <4> SUFFICES ASSUME NEW latched, NEW y \in Code
                   PROVE OsdHolders(new, ptrs, latched, y) =
                            OsdHolders(pads, ptrs, latched, y) + One(x, y)
        OBVIOUS
      <4>1. OsdHolders(new, ptrs, latched, y) =
              OsdHolders(pads, ptrs, latched, y) + One(x, y) - One(NoKey, y)
        BY <1>6, <3>2, <3>3
      <4> HIDE DEF new
      <4> QED
        BY <1>7, <1>8, <1>9, <4>1
    <3> HIDE DEF new, j
    <3>5. OsdKeeps(k, j) /\ OsdCounted(j, new, ptrs)
      BY <3>4, Takes DEF x, j
    <3>6. confirmed = [key |-> j, pad |-> t]
      BY <2>1 DEF j, t, x
    <3> HIDE DEF confirmed
    <3>7. confirmed.key = j /\ confirmed.pad = t
              /\ confirmed = [key |-> confirmed.key, pad |-> confirmed.pad]
      BY <3>6
    <3>8. AtPad(confirmed, pads, p, ptrs)
      BY <3>2, <3>5, <3>7 DEF AtPad, OsdKeeps, new
    <3> QED
      BY <2>1, <3>2, <3>5, <3>7, <3>8
  <2>2. CASE CONFIRM \notin P /\ CONFIRM \in R /\ d.code # NoKey
    <3> DEFINE x == d.code
               t == [polled EXCEPT !.code = NoKey]
               j == osd_code_up(k, x)
               new == [pads EXCEPT ![p] = t]
    <3>1. x \in Code
      BY <1>1, <2>2 DEF PadStates
    <3>2. t \in PadStates /\ t.code = NoKey /\ t.prev = now /\ t.aux = d.aux
      BY <1>4
    <3> HIDE DEF t
    <3>4. \A y \in Code :
            OsdHolders(new, ptrs, k.osd_latched, y) =
                      OsdHolders(pads, ptrs, k.osd_latched, y) - One(x, y)
      <4> SUFFICES ASSUME NEW y \in Code
                   PROVE OsdHolders(new, ptrs, k.osd_latched, y) =
                            OsdHolders(pads, ptrs, k.osd_latched, y) - One(x, y)
        OBVIOUS
      <4>1. OsdHolders(new, ptrs, k.osd_latched, y) =
              OsdHolders(pads, ptrs, k.osd_latched, y) + One(NoKey, y) - One(x, y)
        BY <1>6, <3>2
      <4> HIDE DEF new
      <4> QED
        BY <1>7, <1>8, <1>9, <4>1
    <3> HIDE DEF new, j, x
    <3>5. OsdKeeps(k, j) /\ OsdCounted(j, new, ptrs)
      BY <3>1, <3>4, LetGo DEF j
    <3>6. confirmed = [key |-> j, pad |-> t]
      BY <2>2 DEF j, t, x
    <3> HIDE DEF confirmed
    <3>7. confirmed.key = j /\ confirmed.pad = t
              /\ confirmed = [key |-> confirmed.key, pad |-> confirmed.pad]
      BY <3>6
    <3>8. AtPad(confirmed, pads, p, ptrs)
      BY <3>2, <3>5, <3>7 DEF AtPad, OsdKeeps, new
    <3> QED
      BY <2>2, <3>2, <3>5, <3>7, <3>8
  <2>3. CASE CONFIRM \notin P /\ ~(CONFIRM \in R /\ d.code # NoKey)
    <3> DEFINE new == [pads EXCEPT ![p] = polled]
    <3>1. polled \in PadStates /\ polled.code = d.code /\ polled.prev = now /\ polled.aux = d.aux
      BY <1>4, <1>5
    <3>2. OsdCounted(k, new, ptrs)
      <4> SUFFICES ASSUME NEW y \in Code
                   PROVE  k.osd_refs[y] = OsdHolders(new, ptrs, k.osd_latched, y)
        BY DEF OsdCounted
      <4>1. OsdHolders(new, ptrs, k.osd_latched, y) =
              OsdHolders(pads, ptrs, k.osd_latched, y) + One(d.code, y) - One(d.code, y)
        BY <1>6, <3>1
      <4>2. k.osd_refs[y] = OsdHolders(pads, ptrs, k.osd_latched, y)
        BY DEF OsdCounted
      <4> HIDE DEF new
      <4> QED
        BY <1>7, <1>9, <4>1, <4>2
    <3>3. confirmed = [key |-> k, pad |-> polled]
      BY <2>3
    <3>4. OsdKeeps(k, k)
      BY DEF OsdKeeps, SameJoy
    <3> HIDE DEF confirmed, new
    <3>7. confirmed.key = k /\ confirmed.pad = polled
              /\ confirmed = [key |-> confirmed.key, pad |-> confirmed.pad]
      BY <3>3
    <3>8. AtPad(confirmed, pads, p, ptrs)
      BY <3>1, <3>2, <3>7 DEF AtPad, new
    <3>9. d.code # NoKey => CONFIRM \in now
      BY <1>1, <2>3 DEF PadKeeps
    <3> QED
      BY <3>1, <3>4, <3>7, <3>8, <3>9
  <2> QED
    BY <2>1, <2>2, <2>3
<1> HIDE DEF confirmed
<1>11. \A b \in DOMAIN AuxCode : b \in P => confirmed.pad.aux[b] = NoKey
  BY <1>1, <1>10 DEF PadKeeps
<1>12. /\ AtPad(done, pads, p, ptrs) /\ OsdKeeps(confirmed.key, done.key)
       /\ done.pad.prev = confirmed.pad.prev /\ done.pad.code = confirmed.pad.code
       /\ \A b \in DOMAIN AuxCode : done.pad.aux[b] = AuxAfter(confirmed.pad.aux[b], b, P, R)
  <2> HIDE DEF P, R
  <2> QED
    BY <1>10, <1>11, AuxDone
<1> HIDE DEF done
<1>13. OsdKeeps(k, done.key)
  BY <1>10, <1>12 DEF OsdKeeps, SameJoy
<1>14. PadKeeps(done.pad)
  <2>1. ASSUME NEW b \in DOMAIN AuxCode, done.pad.aux[b] # NoKey PROVE b \in now
    BY <1>1, <1>10, <1>12, <2>1 DEF PadKeeps, AuxAfter
  <2> QED
    BY <1>10, <1>12, <2>1 DEF PadKeeps
<1>15. CASE ~clears
  BY <1>2, <1>12, <1>13, <1>14, <1>15 DEF u, d
<1>16. CASE clears
  <2> DEFINE e == osd_clear_latches(done.key)
             new == [pads EXCEPT ![p] = done.pad]
  <2>1. /\ GoodKeys(done.key) /\ OsdCounted(done.key, new, ptrs)
        /\ done = [key |-> done.key, pad |-> done.pad] /\ done.pad \in PadStates
    BY <1>12 DEF AtPad
  <2> HIDE DEF new
  <2>2. OsdKeeps(done.key, e) /\ OsdCounted(e, new, ptrs)
    BY <2>1, LatchesCleared
  <2>3. u = [key |-> e, pad |-> done.pad]
    BY <1>2, <1>16, <2>1
  <2> HIDE DEF e
  <2>4. u.key = e /\ u.pad = done.pad /\ u = [key |-> u.key, pad |-> u.pad]
    BY <2>3
  <2>5. AtPad(u, pads, p, ptrs) /\ OsdKeeps(k, u.key)
    BY <1>13, <2>1, <2>2, <2>4 DEF AtPad, OsdKeeps, SameJoy, new
  <2> QED
    BY <1>14, <2>4, <2>5 DEF u, d
<1> QED
  BY <1>15, <1>16

-----------------------------------------------------------------------------
(* The whole of what Joystick_Update works on.                             *)
NothingOn(d) == d.code = NoKey /\ \A b \in DOMAIN AuxCode : d.aux[b] = NoKey

(* Nobody holds a key when the OSD was let go of.                          *)
LEMMA NobodyHolds ==
  ASSUME NEW pads, NEW ptrs, \A p \in Port : NothingOn(pads[p]),
         \A q \in Pointer : ptrs[q].code = NoKey, NEW c \in Code
  PROVE  OsdHolders(pads, ptrs, {}, c) = 0
<1>1. /\ PadSet(pads, c) = {} /\ AuxSet(pads, c) = {} /\ PtrSet(ptrs, c) = {}
      /\ LatchSet({}, c) = {}
  BY CodeAssumption DEF PadSet, AuxSet, PtrSet, LatchSet, NothingOn
<1>2. Cardinality({}) = 0
  BY FS_EmptySet
<1> DEFINE none == {}
<1>3. OsdHolders(pads, ptrs, none, c) =
        Cardinality(PadSet(pads, c)) + Cardinality(AuxSet(pads, c))
        + Cardinality(PtrSet(ptrs, c)) + Cardinality(LatchSet(none, c))
  <2> HIDE DEF none
  <2> QED BY HoldersAre
<1> QED
  BY <1>1, <1>2, <1>3

(* What a counted keyboard on screen is: a key is on a pad only while the  *)
(* OSD is open, and on a touch only while it is down.                      *)
OsdGood(k, shown, pads, ptrs) ==
  /\ GoodKeys(k) /\ shown \in BOOLEAN
  /\ pads \in [Port -> PadStates] /\ ptrs \in [Pointer -> PtrStates]
  /\ OsdCounted(k, pads, ptrs)
  /\ \A p \in Port : PadKeeps(pads[p])
  /\ ~shown => \A p \in Port : NothingOn(pads[p])
  /\ \A q \in Pointer : ptrs[q].code # NoKey => ptrs[q].down

(* Keyboard_OSDReleaseAll, whether the OSD stays or goes.                  *)
LEMMA LetGoOfAll ==
  ASSUME NEW k, NEW shown, NEW pads, NEW ptrs, OsdGood(k, shown, pads, ptrs),
         NEW remains \in BOOLEAN
  PROVE  /\ OsdGood(ReleasedKeys(k), remains, ReleasedPads(pads), ReleasedPtrs(ptrs))
         /\ OsdKeeps(k, ReleasedKeys(k))
<1> DEFINE j == ReleasedKeys(k)
           new == ReleasedPads(pads)
           up == ReleasedPtrs(ptrs)
<1>1. /\ GoodKeys(j) /\ SameJoy(j, k) /\ j.osd_refs = [c \in Code |-> 0] /\ j.osd_latched = {}
      /\ \A H : DownHeld(k, H) => DownHeld(j, H)
  BY AllReleased DEF OsdGood
<1>2. /\ new \in [Port -> PadStates]
      /\ \A p \in Port : NothingOn(new[p])
  <2>1. pads \in [Port -> PadStates]
    BY DEF OsdGood
  <2>2. \A p \in Port : /\ [pads[p] EXCEPT !.code = NoKey, !.aux = NoAux] \in PadStates
                        /\ NothingOn([pads[p] EXCEPT !.code = NoKey, !.aux = NoAux])
    BY <2>1 DEF PadStates, NoAux, NothingOn
  <2> QED
    BY <2>2 DEF ReleasedPads
<1>3. /\ up \in [Pointer -> PtrStates]
      /\ \A q \in Pointer : up[q].code = NoKey
  <2>1. ptrs \in [Pointer -> PtrStates]
    BY DEF OsdGood
  <2> QED
    BY <2>1 DEF ReleasedPtrs, PtrStates
<1> HIDE DEF j, new, up
<1>4. OsdCounted(j, new, up)
  BY <1>1, <1>2, <1>3, NobodyHolds DEF OsdCounted
<1>5. \A p \in Port : PadKeeps(new[p])
  BY <1>2 DEF PadKeeps, NothingOn
<1> QED
  BY <1>1, <1>2, <1>3, <1>4, <1>5 DEF OsdGood, OsdKeeps, j, new, up

(* The record joy2key_update works on.                                     *)
Whole(w) ==
  w = [key |-> w.key, joy |-> w.joy, visible |-> w.visible, pad |-> w.pad, ptr |-> w.ptr]
WholeGood(w) ==
  Whole(w) /\ OsdGood(w.key, w.visible, w.pad, w.ptr) /\ w.joy \in [Port -> JoyStates]

(* Keyboard_ToggleSwKeyboard: an OSD that opens finds no key held.         *)
LEMMA Toggled ==
  ASSUME NEW w, WholeGood(w)
  PROVE  /\ WholeGood(Keyboard_ToggleSwKeyboard(w))
         /\ OsdKeeps(w.key, Keyboard_ToggleSwKeyboard(w).key)
         /\ Keyboard_ToggleSwKeyboard(w).joy = w.joy
<1> DEFINE v == Keyboard_ToggleSwKeyboard(w)
<1>1. Whole(w) /\ OsdGood(w.key, w.visible, w.pad, w.ptr) /\ w.joy \in [Port -> JoyStates]
  BY DEF WholeGood
<1>2. CASE w.visible
  <2> DEFINE j == ReleasedKeys(w.key)
             new == ReleasedPads(w.pad)
             up == ReleasedPtrs(w.ptr)
  <2>1. v = [key |-> j, joy |-> w.joy, visible |-> FALSE, pad |-> new, ptr |-> up]
    BY <1>1, <1>2 DEF Keyboard_ToggleSwKeyboard, Whole
  <2> HIDE DEF v
  <2>2. /\ v.key = j /\ v.joy = w.joy /\ v.visible = FALSE /\ v.pad = new /\ v.ptr = up
    BY <2>1
  <2>3. OsdGood(j, FALSE, new, up) /\ OsdKeeps(w.key, j)
    BY <1>1, LetGoOfAll
  <2> HIDE DEF j, new, up
  <2> QED
    BY <1>1, <2>1, <2>2, <2>3 DEF WholeGood, Whole, v
<1>3. CASE ~w.visible
  <2> DEFINE new == [p \in Port |-> [w.pad[p] EXCEPT !.prev = {}, !.block = Button]]
             waits == [q \in Pointer |-> [w.ptr[q] EXCEPT !.wait = TRUE]]
  <2>1. v = [key |-> w.key, joy |-> w.joy, visible |-> TRUE, pad |-> new, ptr |-> waits]
    BY <1>1, <1>3 DEF Keyboard_ToggleSwKeyboard, Whole
  <2> HIDE DEF v
  <2>2. /\ v.key = w.key /\ v.joy = w.joy /\ v.visible = TRUE /\ v.pad = new /\ v.ptr = waits
    BY <2>1
  <2>3. w.pad \in [Port -> PadStates] /\ \A p \in Port : NothingOn(w.pad[p])
    BY <1>1, <1>3 DEF OsdGood
  <2>4. /\ new \in [Port -> PadStates]
        /\ \A p \in Port : new[p].code = w.pad[p].code /\ new[p].aux = w.pad[p].aux
    BY <2>3 DEF PadStates
  <2>5. w.ptr \in [Pointer -> PtrStates]
            /\ \A q \in Pointer : w.ptr[q].code # NoKey => w.ptr[q].down
    BY <1>1 DEF OsdGood
  <2>6. /\ waits \in [Pointer -> PtrStates]
        /\ \A q \in Pointer : waits[q].code = w.ptr[q].code /\ waits[q].down = w.ptr[q].down
    BY <2>5 DEF PtrStates
  <2> HIDE DEF new, waits
  <2>7. OsdCounted(w.key, new, waits)
    <3> SUFFICES ASSUME NEW c \in Code
                 PROVE  w.key.osd_refs[c] = OsdHolders(new, waits, w.key.osd_latched, c)
      BY DEF OsdCounted
    <3>1. /\ PadSet(new, c) = PadSet(w.pad, c) /\ AuxSet(new, c) = AuxSet(w.pad, c)
          /\ PtrSet(waits, c) = PtrSet(w.ptr, c)
      BY <2>4, <2>6 DEF PadSet, AuxSet, PtrSet
    <3>2. OsdHolders(new, waits, w.key.osd_latched, c) =
            OsdHolders(w.pad, w.ptr, w.key.osd_latched, c)
      BY <3>1, HoldersAre
    <3>3. OsdCounted(w.key, w.pad, w.ptr)
      BY <1>1 DEF OsdGood
    <3> QED
      BY <3>2, <3>3 DEF OsdCounted
  <2>8. \A p \in Port : PadKeeps(new[p])
    BY <2>3, <2>4 DEF PadKeeps, NothingOn
  <2>9. GoodKeys(w.key)
    BY <1>1 DEF OsdGood
  <2>10. OsdGood(w.key, TRUE, new, waits)
    BY <2>4, <2>5, <2>6, <2>7, <2>8, <2>9 DEF OsdGood
  <2>11. OsdKeeps(w.key, w.key)
    BY <2>9 DEF OsdKeeps, SameJoy
  <2> QED
    BY <1>1, <2>1, <2>2, <2>10, <2>11 DEF WholeGood, Whole, v
<1>4. w.visible \in BOOLEAN
  BY <1>1 DEF OsdGood
<1> QED
  BY <1>2, <1>3, <1>4

-----------------------------------------------------------------------------
(* Joy2Key.                                                                *)
JoyCounted(k, j) == \A c \in Code : k.Joy2KeyRefs[c] = JoyHolders(j, c)

(* What it keeps of the rest.                                              *)
JoyKeeps(k, j) == GoodKeys(j) /\ SameOsd(j, k) /\ \A H : DownHeld(k, H) => DownHeld(j, H)

Rekeyed(w, j) == [w EXCEPT !.key = j]

(* Only the state of the keys is another.                                  *)
LEMMA RekeyedIsWhole ==
  ASSUME NEW w, WholeGood(w), NEW j, JoyKeeps(w.key, j)
  PROVE  /\ WholeGood(Rekeyed(w, j)) /\ Rekeyed(w, j).key = j
         /\ Rekeyed(w, j).joy = w.joy
<1>1. Whole(w) /\ OsdGood(w.key, w.visible, w.pad, w.ptr) /\ w.joy \in [Port -> JoyStates]
  BY DEF WholeGood
<1> DEFINE v == Rekeyed(w, j)
<1>2. v = [key |-> j, joy |-> w.joy, visible |-> w.visible, pad |-> w.pad, ptr |-> w.ptr]
  BY <1>1 DEF Whole, Rekeyed
<1> HIDE DEF v
<1>3. /\ v.key = j /\ v.joy = w.joy /\ v.visible = w.visible /\ v.pad = w.pad /\ v.ptr = w.ptr
      /\ Whole(v)
  BY <1>2 DEF Whole
<1>4. OsdGood(j, w.visible, w.pad, w.ptr)
  BY <1>1 DEF OsdGood, JoyKeeps, SameOsd, OsdCounted
<1> QED
  BY <1>1, <1>3, <1>4 DEF WholeGood, v

(* One button: its old key is released, its new one pressed or the OSD     *)
(* opened or closed, and the counts follow.                                *)
LEMMA JoyStep ==
  ASSUME NEW w, WholeGood(w), JoyCounted(w.key, w.joy), NEW p \in Port, NEW b \in Button,
         NEW res, NEW sends \in BOOLEAN, menu \in BOOLEAN
  PROVE  LET v == joy2key_action(w, p, b, res, sends)
         IN  /\ WholeGood(v) /\ JoyCounted(v.key, v.joy)
             /\ \A H : DownHeld(w.key, H) => DownHeld(v.key, H)
<1> DEFINE code == Joy2KeyMap[b]
           old == w.joy[p].Previous[b]
           down == b \in res /\ IF code = OsdKeyboard THEN ~menu ELSE sends
           releases == old \in Code /\ (~down \/ old # code)
           presses == down /\ code \notin {old, NoKey, OsdKeyboard}
           let_go == IF releases THEN [w EXCEPT !.key = joy2key_release(@, old)] ELSE w
           pressed == IF ~down \/ code \in {old, NoKey} THEN let_go
                      ELSE IF code = OsdKeyboard THEN Keyboard_ToggleSwKeyboard(let_go)
                      ELSE [let_go EXCEPT !.key = joy2key_press(@, code)]
           new == IF down THEN code ELSE NoKey
           v == joy2key_action(w, p, b, res, sends)
           moved == [w.joy EXCEPT ![p].Previous[b] = new]
           gone(c) == IF releases THEN One(old, c) ELSE 0
           come(c) == IF presses THEN One(code, c) ELSE 0
<1>1. v = [pressed EXCEPT !.joy[p].Previous[b] = new]
  BY DEF joy2key_action
<1>2. /\ Whole(w) /\ OsdGood(w.key, w.visible, w.pad, w.ptr) /\ w.joy \in [Port -> JoyStates]
      /\ GoodKeys(w.key) /\ w.key.Joy2KeyRefs \in [Code -> Nat]
  BY DEF WholeGood, OsdGood, GoodKeys, KeyStates
<1>3. /\ code \in Code \union {NoKey, OsdKeyboard} /\ old \in Code \union {NoKey, OsdKeyboard}
      /\ down \in BOOLEAN
  BY <1>2, MapAssumption DEF JoyStates
<1>4. \A x \in Code \union {NoKey, OsdKeyboard} : \A c \in Code :
        JoyHolders([w.joy EXCEPT ![p].Previous[b] = x], c) =
          JoyHolders(w.joy, c) + One(x, c) - One(old, c)
  <2> SUFFICES ASSUME NEW x \in Code \union {NoKey, OsdKeyboard}, NEW c \in Code
               PROVE  JoyHolders([w.joy EXCEPT ![p].Previous[b] = x], c) =
                        JoyHolders(w.joy, c) + One(x, c) - One(old, c)
    OBVIOUS
  <2> DEFINE j == w.joy
             m == [j EXCEPT ![p].Previous[b] = x]
  <2>1. JoyMoved(m, j, p, b, x)
    BY <1>2 DEF JoyMoved, JoyStates
  <2> HIDE DEF m, j
  <2>2. JoyHolders(m, c) = JoyHolders(j, c) + One(x, c) - One(j[p].Previous[b], c)
    BY <2>1, JoyMoves
  <2> QED
    BY <2>2 DEF m, j
<1>5. \A c \in Code : /\ JoyHolders(w.joy, c) \in Nat
                      /\ w.key.Joy2KeyRefs[c] = JoyHolders(w.joy, c)
  BY <1>2 DEF JoyCounted
<1> HIDE DEF v, code, old, down
<1>6. /\ WholeGood(let_go) /\ let_go.joy = w.joy
      /\ \A c \in Code : let_go.key.Joy2KeyRefs[c] = JoyHolders(w.joy, c) - gone(c)
      /\ \A H : DownHeld(w.key, H) => DownHeld(let_go.key, H)
  <2>1. CASE releases
    <3> DEFINE j == joy2key_release(w.key, old)
    <3>1. w.key.Joy2KeyRefs[old] > 0
      <4>1. moved \in [Port -> JoyStates] /\ NoKey \notin Code
        BY <1>2, <1>3, CodeAssumption DEF JoyStates
      <4>2. JoyHolders([w.joy EXCEPT ![p].Previous[b] = NoKey], old) = JoyHolders(w.joy, old) - 1
        BY <1>3, <1>4, <1>5, <2>1, <4>1 DEF One
      <4> DEFINE m == [w.joy EXCEPT ![p].Previous[b] = NoKey]
      <4>3. JoyMoved(w.joy, m, p, b, old)
        BY <1>2 DEF JoyMoved, JoyStates, old
      <4> HIDE DEF m
      <4>4. JoyHolders(m, old) \in Nat
        BY <4>3, JoyMoves
      <4> QED
        BY <1>5, <2>1, <4>2, <4>4 DEF m
    <3>2. /\ GoodKeys(j) /\ SameOsd(j, w.key)
          /\ j.Joy2KeyRefs = [w.key.Joy2KeyRefs EXCEPT ![old] = @ - 1]
          /\ \A H : DownHeld(w.key, H) => DownHeld(j, H)
      BY <1>2, <2>1, <3>1, Released
    <3>3. let_go = Rekeyed(w, j)
      BY <2>1 DEF Rekeyed
    <3> HIDE DEF let_go, j
    <3>4. WholeGood(let_go) /\ let_go.key = j /\ let_go.joy = w.joy
      BY <3>2, <3>3, RekeyedIsWhole DEF JoyKeeps
    <3>5. \A c \in Code : j.Joy2KeyRefs[c] = JoyHolders(w.joy, c) - gone(c)
      BY <1>2, <1>5, <2>1, <3>2 DEF One
    <3> QED
      BY <3>2, <3>4, <3>5
  <2>2. CASE ~releases
    BY <1>5, <2>2
  <2> QED
    BY <2>1, <2>2
<1> HIDE DEF let_go, releases
<1>7. /\ WholeGood(pressed) /\ pressed.joy = w.joy
      /\ \A c \in Code : pressed.key.Joy2KeyRefs[c] = JoyHolders(w.joy, c) - gone(c) + come(c)
      /\ \A H : DownHeld(w.key, H) => DownHeld(pressed.key, H)
  <2> HIDE DEF gone
  <2>0. \A c \in Code : gone(c) \in Nat
    BY DEF gone, One
  <2>1. CASE presses
    <3> DEFINE k == let_go.key
               j == joy2key_press(k, code)
    <3>1. code \in Code /\ GoodKeys(k) /\ k.Joy2KeyRefs \in [Code -> Nat]
      BY <1>3, <1>6, <2>1 DEF WholeGood, OsdGood, GoodKeys, KeyStates
    <3> HIDE DEF k
    <3>2. /\ GoodKeys(j) /\ SameOsd(j, k)
          /\ j.Joy2KeyRefs = [k.Joy2KeyRefs EXCEPT ![code] = @ + 1]
          /\ \A H : DownHeld(k, H) => DownHeld(j, H)
      BY <3>1, Pressed
    <3>3. pressed = Rekeyed(let_go, j)
      BY <2>1 DEF Rekeyed, k
    <3> HIDE DEF pressed, j
    <3>4. WholeGood(pressed) /\ pressed.key = j /\ pressed.joy = let_go.joy
      BY <1>6, <3>2, <3>3, RekeyedIsWhole DEF JoyKeeps, k
    <3>5. \A c \in Code : j.Joy2KeyRefs[c] = k.Joy2KeyRefs[c] + come(c)
      BY <2>1, <3>1, <3>2 DEF One
    <3> HIDE DEF come
    <3> QED
      BY <1>6, <3>2, <3>4, <3>5 DEF k
  <2>2. CASE down /\ code = OsdKeyboard /\ code # old
    <3>1. pressed = Keyboard_ToggleSwKeyboard(let_go) /\ ~presses
      BY <2>2, CodeAssumption
    <3> HIDE DEF pressed
    <3>2. WholeGood(pressed) /\ OsdKeeps(let_go.key, pressed.key) /\ pressed.joy = let_go.joy
      BY <1>6, <3>1, Toggled
    <3>3. \A c \in Code : come(c) = 0
      BY <3>1
    <3> HIDE DEF come
    <3> QED
      BY <1>5, <1>6, <2>0, <3>2, <3>3 DEF OsdKeeps, SameJoy
  <2>3. CASE ~down \/ code \in {old, NoKey}
    <3>1. pressed = let_go /\ ~presses
      BY <2>3
    <3>2. \A c \in Code : come(c) = 0
      BY <3>1
    <3> HIDE DEF come, pressed
    <3> QED
      BY <1>5, <1>6, <2>0, <3>1, <3>2
  <2> QED
    BY <2>1, <2>2, <2>3
<1> HIDE DEF pressed
<1>8. \A c \in Code : One(new, c) - One(old, c) = come(c) - gone(c)
  BY <1>3, CodeAssumption DEF One, releases
<1>9. new \in Code \union {NoKey, OsdKeyboard}
  BY <1>3
<1> HIDE DEF new, presses
<1>10. /\ v = [key |-> pressed.key, joy |-> moved, visible |-> pressed.visible,
               pad |-> pressed.pad, ptr |-> pressed.ptr]
       /\ moved \in [Port -> JoyStates]
  BY <1>1, <1>2, <1>7, <1>9 DEF WholeGood, Whole, JoyStates
<1> HIDE DEF moved
<1>11. /\ v.key = pressed.key /\ v.joy = moved /\ v.visible = pressed.visible
       /\ v.pad = pressed.pad /\ v.ptr = pressed.ptr /\ Whole(v)
  BY <1>10 DEF Whole
<1>12. WholeGood(v)
  BY <1>7, <1>10, <1>11 DEF WholeGood
<1>13. JoyCounted(v.key, v.joy)
  <2> SUFFICES ASSUME NEW c \in Code PROVE pressed.key.Joy2KeyRefs[c] = JoyHolders(moved, c)
    BY <1>11 DEF JoyCounted
  <2>1. JoyHolders(moved, c) = JoyHolders(w.joy, c) + One(new, c) - One(old, c)
    BY <1>4, <1>9 DEF moved
  <2>2. One(new, c) \in Int /\ One(old, c) \in Int /\ come(c) \in Int /\ gone(c) \in Int
    BY DEF One
  <2> HIDE DEF come, gone
  <2> QED
    BY <1>5, <1>7, <1>8, <2>1, <2>2
<1> QED
  BY <1>7, <1>11, <1>12, <1>13 DEF v

(* All of its buttons.                                                     *)
LEMMA JoyDone ==
  ASSUME NEW w, WholeGood(w), JoyCounted(w.key, w.joy), NEW p \in Port, NEW res,
         NEW sends \in BOOLEAN, menu \in BOOLEAN
  PROVE  LET v == joy2key_update(w, p, res, sends)
         IN  /\ WholeGood(v) /\ JoyCounted(v.key, v.joy)
             /\ \A H : DownHeld(w.key, H) => DownHeld(v.key, H)
<1> DEFINE seq == SetToSeq(Button)
<1>1. seq \in Seq(Button)
  BY InTurn, SizeAssumption
<1> HIDE DEF seq
<1>2. Len(seq) \in Nat /\ \A i \in 1 .. Len(seq) : seq[i] \in Button
  BY <1>1
<1>3. PICK after : UpdateTrace(after, w, p, res, sends, seq)
  BY <1>2, UpdateRun DEF seq
<1>4. /\ after[0] = w /\ joy2key_update(w, p, res, sends) = after[Len(seq)]
      /\ \A n \in 1 .. Len(seq) : after[n] = joy2key_action(after[n - 1], p, seq[n], res, sends)
  BY <1>3 DEF UpdateTrace
<1> DEFINE Kept(v) == /\ WholeGood(v) /\ JoyCounted(v.key, v.joy)
                      /\ \A H : DownHeld(w.key, H) => DownHeld(v.key, H)
           T == {n \in Nat : Kept(after[n])}
<1>5. 0 \in T
  BY <1>4
<1>6. ASSUME NEW n \in 1 .. Len(seq), n - 1 \in T PROVE n \in T
  <2> DEFINE u == after[n - 1]
             v == after[n]
             b == seq[n]
  <2>1. Kept(u) /\ n \in Nat /\ b \in Button
    BY <1>2, <1>6
  <2>2. v = joy2key_action(u, p, b, res, sends)
    BY <1>4
  <2> HIDE DEF u, v, b
  <2>3. /\ WholeGood(v) /\ JoyCounted(v.key, v.joy)
        /\ \A H : DownHeld(u.key, H) => DownHeld(v.key, H)
    BY <2>1, <2>2, JoyStep
  <2> QED
    BY <2>1, <2>3 DEF v
<1> HIDE DEF T
<1>7. \A n \in 0 .. Len(seq) : n \in T
  <2>1. \A n \in 1 .. Len(seq) : n - 1 \in T => n \in T
    BY <1>6
  <2> QED
    BY <1>2, <1>5, <2>1, Steps, Zenon
<1>8. Len(seq) \in T
  BY <1>2, <1>7
<1>9. Kept(after[Len(seq)])
  BY <1>8 DEF T
<1> HIDE DEF Kept
<1>10. Kept(joy2key_update(w, p, res, sends))
  BY <1>4, <1>9
<1> QED
  BY <1>10 DEF Kept

-----------------------------------------------------------------------------
(* The inductive invariant: the counts are those of the holders, what the  *)
(* holders hold is in line with what they show, and without COMPOSE a key  *)
(* that is down has a holder.                                              *)
IInv ==
  /\ OsdGood(key, visible, pad, ptr)
  /\ joy \in [Port -> JoyStates] /\ JoyCounted(key, joy)
  /\ host \in SUBSET HostKey /\ menu \in BOOLEAN /\ turn \in Port
  /\ "COMPOSE" \notin HostKey => DownHeld(key, host)

(* Nobody holds a key at first.                                            *)
LEMMA Initially == Init => IInv
<1> SUFFICES ASSUME Init PROVE IInv
  OBVIOUS
<1>0. /\ key.osd_latched = {} /\ \A c \in Code : key.osd_refs[c] = 0 /\ key.Joy2KeyRefs[c] = 0
      /\ visible = FALSE /\ menu = FALSE /\ turn = 0 /\ host = {}
  BY DEF Init
<1>1. GoodKeys(key) /\ key.down = {}
  BY SizeAssumption DEF Init, GoodKeys, KeyStates
<1>2. /\ pad \in [Port -> PadStates] /\ ptr \in [Pointer -> PtrStates]
      /\ \A p \in Port : NothingOn(pad[p])
      /\ \A q \in Pointer : ptr[q].code = NoKey
  BY DEF Init, NoPad, NoAux, NoPtr, PadStates, PtrStates, NothingOn
<1>3. OsdCounted(key, pad, ptr)
  <2> SUFFICES ASSUME NEW c \in Code
               PROVE  key.osd_refs[c] = OsdHolders(pad, ptr, key.osd_latched, c)
    BY DEF OsdCounted
  <2>1. OsdHolders(pad, ptr, {}, c) = 0
    BY <1>2, NobodyHolds, Zenon
  <2> QED
    BY <1>0, <2>1
<1>4. joy \in [Port -> JoyStates] /\ \A p \in Port : \A b \in Button : joy[p].Previous[b] = NoKey
  BY DEF Init, JoyStates
<1>5. JoyCounted(key, joy)
  <2> SUFFICES ASSUME NEW c \in Code PROVE JoyHolders(joy, c) = 0
    BY <1>0 DEF JoyCounted
  <2>1. JoySet(joy, c) = {}
    BY <1>4, CodeAssumption DEF JoySet
  <2> QED
    BY <2>1, FS_EmptySet DEF JoyHolders, JoySet
<1>6. \A p \in Port : PadKeeps(pad[p])
  BY <1>2 DEF PadKeeps, NothingOn
<1>7. OsdGood(key, visible, pad, ptr)
  <2>1. visible \in BOOLEAN
    BY <1>0, Zenon
  <2> QED
    BY <1>1, <1>2, <1>3, <1>6, <2>1 DEF OsdGood
<1>8. host \in SUBSET HostKey /\ menu \in BOOLEAN /\ turn \in Port
  <2>1. host \in SUBSET HostKey /\ menu \in BOOLEAN
    BY <1>0, Zenon
  <2>2. turn \in Port
    BY <1>0, PortAssumption DEF Port
  <2> QED
    BY <2>1, <2>2
<1> QED
  BY <1>1, <1>4, <1>5, <1>7, <1>8 DEF IInv, DownHeld

-----------------------------------------------------------------------------
(* Each action keeps it.                                                   *)
LEMMA GoodKeysHere ==
  ASSUME IInv
  PROVE  /\ GoodKeys(key) /\ key \in KeyStates
         /\ pad \in [Port -> PadStates] /\ ptr \in [Pointer -> PtrStates]
         /\ OsdCounted(key, pad, ptr)
  BY DEF IInv, OsdGood, GoodKeys

(* An action that leaves the counts and the holders alone.                 *)
LEMMA OnlyEvents ==
  ASSUME IInv, GoodKeys(key'), SameOsd(key', key), SameJoy(key', key),
         UNCHANGED <<joy, osdVars, menu, turn>>, host' \in SUBSET HostKey,
         "COMPOSE" \notin HostKey => DownHeld(key', host')
  PROVE  IInv'
<1>1. OsdGood(key', visible, pad, ptr)
  BY DEF IInv, OsdGood, OsdCounted, SameOsd
<1>2. JoyCounted(key', joy)
  BY DEF IInv, JoyCounted, SameJoy
<1>3. visible' = visible /\ pad' = pad /\ ptr' = ptr /\ joy' = joy /\ menu' = menu /\ turn' = turn
  BY DEF osdVars
<1> QED
  BY <1>1, <1>2, <1>3 DEF IInv

(* Keyboard_Init clears the counts and the holders they count.             *)
LEMMA KeyboardIsReset == IInv /\ Reset => IInv'
<1> SUFFICES ASSUME IInv, Reset PROVE IInv'
  OBVIOUS
<1>1. GoodKeys(key) /\ key \in KeyStates
  BY GoodKeysHere
<1>2. /\ GoodKeys(key') /\ key'.down = {} /\ key'.osd_latched = {} /\ SameJoy(key', key)
      /\ \A c \in Code : key'.osd_refs[c] = 0
  <2> DEFINE zero == [c \in Code |-> 0]
  <2>1. key' = [waiting |-> << >>, down |-> {}, repeat |-> NoKey,
                Joy2KeyRefs |-> key.Joy2KeyRefs, osd_refs |-> zero, osd_latched |-> {}]
    BY <1>1 DEF Reset, KeyStates
  <2>2. zero \in [Code -> Nat] /\ key.Joy2KeyRefs \in [Code -> Nat] /\ << >> \in Seq(Event)
    BY <1>1 DEF KeyStates
  <2> HIDE DEF zero
  <2>3. /\ key'.waiting = << >> /\ key'.down = {} /\ key'.repeat = NoKey
        /\ key'.osd_latched = {} /\ key'.osd_refs = zero /\ SameJoy(key', key)
        /\ key' \in KeyStates
    BY <2>1, <2>2 DEF SameJoy, KeyStates
  <2> QED
    BY <2>3, SizeAssumption DEF GoodKeys, zero
<1>3. /\ pad' \in [Port -> PadStates] /\ ptr' \in [Pointer -> PtrStates]
      /\ \A p \in Port : NothingOn(pad'[p])
      /\ \A q \in Pointer : ptr'[q].code = NoKey
  BY DEF Reset, NoPad, NoAux, NoPtr, PadStates, PtrStates, NothingOn
<1>4. OsdCounted(key', pad', ptr')
  <2> SUFFICES ASSUME NEW c \in Code
               PROVE  key'.osd_refs[c] = OsdHolders(pad', ptr', key'.osd_latched, c)
    BY DEF OsdCounted
  <2>1. OsdHolders(pad', ptr', {}, c) = 0
    BY <1>3, NobodyHolds, Zenon
  <2> QED
    BY <1>2, <2>1
<1>5. \A p \in Port : PadKeeps(pad'[p])
  BY <1>3 DEF PadKeeps, NothingOn
<1>6. UNCHANGED <<host, joy, visible, menu, turn>>
  BY DEF Reset
<1>7. OsdGood(key', visible', pad', ptr')
  BY <1>2, <1>3, <1>4, <1>5, <1>6 DEF OsdGood, IInv
<1>8. JoyCounted(key', joy')
  BY <1>2, <1>6 DEF JoyCounted, SameJoy, IInv
<1> QED
  BY <1>2, <1>6, <1>7, <1>8 DEF IInv, DownHeld

(* Without COMPOSE there is one table: a key that is down is one the host  *)
(* holds, and a key the host let go of is up.                              *)
LEMMA HostMoves ==
  ASSUME IInv, NEW held \in SUBSET HostKey, handle_retrok(held)
  PROVE  IInv'
<1> DEFINE table == IF "COMPOSE" \in held THEN KeyTable1 ELSE KeyTable
           Changed == {h \in DOMAIN table : (h \in held) # (h \in host)}
           changed == SetToSeq(Changed)
           events == [i \in DOMAIN changed |->
                        [code |-> table[changed[i]], up |-> changed[i] \notin held]]
<1>1. key' = Sends(key, events) /\ host' = held /\ UNCHANGED <<joy, osdVars, menu, turn>>
  BY DEF handle_retrok
<1>2. IsFiniteSet(DOMAIN table) /\ \A h \in DOMAIN table : table[h] \in Code
  BY MapAssumption DEF Range
<1>3. "COMPOSE" \notin HostKey => table = KeyTable
  OBVIOUS
<1> HIDE DEF table
<1>4. IsFiniteSet(Changed)
  BY <1>2, FS_Subset
<1>5. /\ changed \in Seq(Changed) /\ DOMAIN changed = 1 .. Len(changed)
      /\ \A h \in Changed : \E i \in DOMAIN changed : changed[i] = h
  BY <1>4, InTurn
<1> HIDE DEF changed
<1>6. Len(changed) \in Nat /\ \A i \in 1 .. Len(changed) : changed[i] \in Changed
  BY <1>5
<1>7. events = [i \in 1 .. Len(changed) |->
                  [code |-> table[changed[i]], up |-> changed[i] \notin held]]
  BY <1>5
<1>8. /\ Len(events) \in Nat /\ Len(events) = Len(changed)
      /\ \A i \in 1 .. Len(events) :
           events[i].code = table[changed[i]] /\ events[i].up = (changed[i] \notin held)
  BY <1>6, <1>7
<1> HIDE DEF events
<1>9. \A i \in 1 .. Len(events) : events[i].code \in Code /\ events[i].up \in BOOLEAN
  BY <1>2, <1>6, <1>8
<1>10. /\ GoodKeys(key') /\ SameOsd(key', key) /\ SameJoy(key', key)
       /\ \A c \in key'.down :
            \/ \E i \in 1 .. Len(events) : events[i].code = c /\ ~events[i].up
            \/ c \in key.down /\ \A i \in 1 .. Len(events) : events[i].code = c => ~events[i].up
  <2>1. GoodKeys(key)
    BY GoodKeysHere
  <2> QED
    BY <1>1, <1>8, <1>9, <2>1, AllSent
<1>11. ASSUME "COMPOSE" \notin HostKey PROVE DownHeld(key', host')
  <2> SUFFICES ASSUME NEW c \in key'.down
               PROVE  key.osd_refs[c] > 0 \/ key.Joy2KeyRefs[c] > 0 \/ HeldBy(held, c)
    BY <1>1, <1>10 DEF DownHeld, SameOsd, SameJoy
  <2>1. CASE \E i \in 1 .. Len(events) : events[i].code = c /\ ~events[i].up
    <3>1. PICK i \in 1 .. Len(events) : events[i].code = c /\ ~events[i].up
      BY <2>1
    <3>2. changed[i] \in held /\ changed[i] \in DOMAIN KeyTable /\ KeyTable[changed[i]] = c
      BY <1>3, <1>6, <1>8, <1>11, <3>1
    <3> QED
      BY <3>2 DEF HeldBy
  <2>2. CASE c \in key.down /\ \A i \in 1 .. Len(events) : events[i].code = c => ~events[i].up
    <3>1. key.osd_refs[c] > 0 \/ key.Joy2KeyRefs[c] > 0 \/ HeldBy(host, c)
      BY <1>11, <2>2 DEF IInv, DownHeld
    <3>2. ASSUME HeldBy(host, c) PROVE HeldBy(held, c)
      <4>1. PICK h \in host \intersect DOMAIN KeyTable : KeyTable[h] = c
        BY <3>2 DEF HeldBy
      <4>2. h \in held
        <5> SUFFICES ASSUME h \notin held PROVE FALSE
          OBVIOUS
        <5>1. PICK i \in 1 .. Len(changed) : changed[i] = h
          BY <1>3, <1>5, <1>11, <4>1
        <5> QED
          BY <1>3, <1>8, <1>11, <2>2, <4>1, <5>1
      <4> QED
        BY <4>1, <4>2 DEF HeldBy
    <3> QED
      BY <3>1, <3>2
  <2> QED
    BY <1>10, <2>1, <2>2
<1> QED
  BY <1>1, <1>10, <1>11, OnlyEvents

(* A repeat sends a key that is down.                                      *)
LEMMA Repeats == IInv /\ Keyboard_RepeatTick => IInv'
<1> SUFFICES ASSUME IInv, Keyboard_RepeatTick PROVE IInv'
  OBVIOUS
<1>1. /\ GoodKeys(key) /\ key \in KeyStates /\ key.repeat # NoKey
      /\ UNCHANGED <<host, joy, osdVars, menu, turn>>
  BY GoodKeysHere DEF Keyboard_RepeatTick
<1> DEFINE c == key.repeat
<1>2. c \in Code /\ c \in key.down
  BY <1>1, CodeAssumption DEF GoodKeys, KeyStates
<1>3. PICK n \in 1 .. 3 : key' = Sends(key, [i \in 1 .. n |-> [code |-> c, up |-> FALSE]])
  BY <1>2 DEF Keyboard_RepeatTick
<1> DEFINE events == [i \in 1 .. n |-> [code |-> c, up |-> FALSE]]
<1>4. /\ Len(events) \in Nat
      /\ \A i \in 1 .. Len(events) : events[i].code = c /\ events[i].up = FALSE
  OBVIOUS
<1> HIDE DEF events, c
<1>5. /\ GoodKeys(key') /\ SameOsd(key', key) /\ SameJoy(key', key)
      /\ \A x \in key'.down :
           \/ \E i \in 1 .. Len(events) : events[i].code = x /\ ~events[i].up
           \/ x \in key.down /\ \A i \in 1 .. Len(events) : events[i].code = x => ~events[i].up
  <2>1. key' = Sends(key, events)
    BY <1>3 DEF events
  <2>2. \A i \in 1 .. Len(events) : events[i].code \in Code /\ events[i].up \in BOOLEAN
    BY <1>2, <1>4
  <2> QED
    BY <1>1, <1>4, <2>1, <2>2, AllSent
<1>6. key'.down \subseteq key.down
  BY <1>2, <1>4, <1>5
<1>7. "COMPOSE" \notin HostKey => DownHeld(key', host')
  BY <1>1, <1>5, <1>6 DEF IInv, DownHeld, SameOsd, SameJoy
<1> QED
  BY <1>1, <1>5, <1>7, OnlyEvents DEF IInv

LEMMA RepeatStops == IInv /\ Keyboard_SetRepeatOptions => IInv'
<1> SUFFICES ASSUME IInv, Keyboard_SetRepeatOptions PROVE IInv'
  OBVIOUS
<1>1. GoodKeys(key) /\ key \in KeyStates
  BY GoodKeysHere
<1>2. /\ GoodKeys(key') /\ SameOsd(key', key) /\ SameJoy(key', key) /\ key'.down = key.down
      /\ UNCHANGED <<host, joy, osdVars, menu, turn>>
  BY <1>1 DEF Keyboard_SetRepeatOptions, GoodKeys, KeyStates, SameOsd, SameJoy
<1>3. "COMPOSE" \notin HostKey => DownHeld(key', host')
  BY <1>2 DEF IInv, DownHeld, SameOsd, SameJoy
<1> QED
  BY <1>2, <1>3, OnlyEvents DEF IInv

(* The program takes an event out of the queue.                            *)
LEMMA ProgramMoves == IInv /\ ProgramReads => IInv'
<1> SUFFICES ASSUME IInv, ProgramReads PROVE IInv'
  OBVIOUS
<1>1. GoodKeys(key) /\ key \in KeyStates
  BY GoodKeysHere
<1>2. /\ Tail(key.waiting) \in Seq(Event) /\ Len(Tail(key.waiting)) <= Capacity
  BY <1>1, SizeAssumption DEF ProgramReads, GoodKeys, KeyStates
<1>3. /\ GoodKeys(key') /\ SameOsd(key', key) /\ SameJoy(key', key) /\ key'.down = key.down
      /\ UNCHANGED <<host, joy, osdVars, menu, turn>>
  BY <1>1, <1>2 DEF ProgramReads, GoodKeys, KeyStates, SameOsd, SameJoy
<1>4. "COMPOSE" \notin HostKey => DownHeld(key', host')
  BY <1>3 DEF IInv, DownHeld, SameOsd, SameJoy
<1> QED
  BY <1>3, <1>4, OnlyEvents DEF IInv

(* The menu lets go of the OSD, wherever it is.                            *)
LEMMA MenuOpens == IInv /\ OpenMenu => IInv'
<1> SUFFICES ASSUME IInv, OpenMenu PROVE IInv'
  OBVIOUS
<1>1. /\ key' = ReleasedKeys(key) /\ pad' = ReleasedPads(pad) /\ ptr' = ReleasedPtrs(ptr)
      /\ menu' = TRUE /\ UNCHANGED <<host, joy, visible, turn>>
  BY DEF OpenMenu
<1>2. OsdGood(key', visible, pad', ptr') /\ OsdKeeps(key, key')
  <2>1. OsdGood(key, visible, pad, ptr) /\ visible \in BOOLEAN
    BY DEF IInv, OsdGood
  <2> QED
    BY <1>1, <2>1, LetGoOfAll
<1>3. JoyCounted(key', joy)
  BY <1>2 DEF OsdKeeps, SameJoy, IInv, JoyCounted
<1> QED
  BY <1>1, <1>2, <1>3 DEF IInv, OsdKeeps

(* A pad: Joy2Key first, which may open or close the OSD, then the OSD.    *)
LEMMA PadsMove ==
  ASSUME IInv, NEW held \in SUBSET Button, NEW c \in Code, NEW clears \in BOOLEAN,
         Joystick_Update(held, c, clears)
  PROVE  IInv'
<1> DEFINE p == turn
           block == joy[p].JoyBlock \intersect held
           res == held \ block
           sends == ~menu /\ ~visible
           all == [key |-> key, joy |-> joy, visible |-> visible, pad |-> pad, ptr |-> ptr]
           buttons == res \ OsdButton
           closed(w) == ~menu /\ ~w.visible /\ joy[p].WasOsd
           upd(w) == IF ~menu /\ w.visible
                     THEN Keyboard_OSDPadUpdate(w.key, w.pad[p], buttons, c, clears)
                     ELSE [key |-> w.key, pad |-> w.pad[p]]
<1>0. PICK w \in {joy2key_update(all, p, res, sends)} :
        /\ key' = upd(w).key /\ pad' = [w.pad EXCEPT ![p] = upd(w).pad]
        /\ joy' = [w.joy EXCEPT ![p].JoyBlock = IF closed(w) THEN buttons ELSE block,
                                ![p].WasOsd = IF menu THEN @ ELSE w.visible]
        /\ visible' = w.visible /\ ptr' = w.ptr
        /\ turn' = (IF menu THEN 0 ELSE (turn + 1) % Ports)
        /\ UNCHANGED <<host, menu>>
  BY Zenon DEF Joystick_Update
<1> DEFINE u == upd(w)
<1>1. /\ w = joy2key_update(all, p, res, sends)
      /\ key' = u.key /\ pad' = [w.pad EXCEPT ![p] = u.pad]
      /\ joy' = [w.joy EXCEPT ![p].JoyBlock = IF closed(w) THEN buttons ELSE block,
                              ![p].WasOsd = IF menu THEN @ ELSE w.visible]
      /\ visible' = w.visible /\ ptr' = w.ptr
      /\ turn' = (IF menu THEN 0 ELSE (turn + 1) % Ports)
      /\ UNCHANGED <<host, menu>>
  BY <1>0, Zenon
<1>2. p \in Port /\ menu \in BOOLEAN /\ visible \in BOOLEAN /\ joy \in [Port -> JoyStates]
  BY DEF IInv, OsdGood
<1>3. sends \in BOOLEAN
  BY <1>2
<1>4. WholeGood(all) /\ JoyCounted(all.key, all.joy) /\ all.key = key
  <2>1. /\ all.key = key /\ all.joy = joy /\ all.visible = visible /\ all.pad = pad
        /\ all.ptr = ptr
    OBVIOUS
  <2> HIDE DEF all
  <2>2. Whole(all)
    BY <2>1 DEF Whole, all
  <2> QED
    BY <2>1, <2>2 DEF WholeGood, IInv
<1> HIDE DEF all, sends
<1>5. /\ WholeGood(w) /\ JoyCounted(w.key, w.joy)
      /\ \A H : DownHeld(key, H) => DownHeld(w.key, H)
  <2> HIDE DEF res, p
  <2> QED
    BY <1>1, <1>2, <1>3, <1>4, JoyDone
<1>6. block \in SUBSET Button /\ buttons \in SUBSET Button
  OBVIOUS
<1> HIDE DEF block, buttons, closed
<1>7. /\ OsdGood(w.key, w.visible, w.pad, w.ptr) /\ w.joy \in [Port -> JoyStates]
      /\ GoodKeys(w.key) /\ w.visible \in BOOLEAN
      /\ w.pad \in [Port -> PadStates] /\ OsdCounted(w.key, w.pad, w.ptr)
      /\ \A x \in Port : PadKeeps(w.pad[x])
  BY <1>5 DEF WholeGood, OsdGood
<1> DEFINE new == [w.pad EXCEPT ![p] = u.pad]
<1>8. /\ GoodKeys(u.key) /\ u.pad \in PadStates /\ OsdCounted(u.key, new, w.ptr)
      /\ OsdKeeps(w.key, u.key) /\ PadKeeps(u.pad)
      /\ ~w.visible => \A x \in Port : NothingOn(new[x])
  <2>1. CASE ~menu /\ w.visible
    <3> DEFINE d == Keyboard_OSDPadUpdate(w.key, w.pad[p], buttons, c, clears)
    <3> HIDE DEF p
    <3>1. AtPad(d, w.pad, p, w.ptr) /\ OsdKeeps(w.key, d.key) /\ PadKeeps(d.pad)
      BY <1>2, <1>6, <1>7, PadUpdated
    <3>2. u = d
      BY <2>1
    <3> HIDE DEF d, u
    <3> QED
      BY <2>1, <3>1, <3>2 DEF AtPad
  <2>2. CASE ~(~menu /\ w.visible)
    <3>1. u = [key |-> w.key, pad |-> w.pad[p]]
      BY <2>2
    <3> HIDE DEF u
    <3>2. u.key = w.key /\ u.pad = w.pad[p]
      BY <3>1
    <3>3. new = w.pad
      BY <1>2, <1>7, <3>2
    <3>4. OsdKeeps(w.key, w.key)
      BY <1>7 DEF OsdKeeps, SameJoy
    <3>5. ~w.visible => \A x \in Port : NothingOn(w.pad[x])
      BY <1>7 DEF OsdGood
    <3> HIDE DEF new
    <3> QED
      BY <1>2, <1>7, <3>2, <3>3, <3>4, <3>5
  <2> QED
    BY <2>1, <2>2
<1> HIDE DEF u
<1>9. new \in [Port -> PadStates] /\ \A x \in Port : PadKeeps(new[x])
  BY <1>2, <1>7, <1>8
<1>10. pad' = new
  BY <1>1
<1> HIDE DEF new
<1>11. \A q \in Pointer : w.ptr[q].code # NoKey => w.ptr[q].down
  BY <1>7 DEF OsdGood
<1>12. w.ptr \in [Pointer -> PtrStates]
  BY <1>7 DEF OsdGood
<1>13. OsdGood(key', visible', pad', ptr')
  BY <1>1, <1>7, <1>8, <1>9, <1>10, <1>11, <1>12 DEF OsdGood
<1>14. joy' \in [Port -> JoyStates] /\ JoyCounted(key', joy')
  <2> DEFINE d == w.joy[p]
             jb == IF closed(w) THEN buttons ELSE block
             wo == IF menu THEN d.WasOsd ELSE w.visible
             t == [d EXCEPT !.JoyBlock = jb, !.WasOsd = wo]
  <2>1. d \in JoyStates
    BY <1>2, <1>7
  <2>2. joy' = [w.joy EXCEPT ![p] = t]
    BY <1>1, <1>2, <1>7, <2>1 DEF JoyStates
  <2> HIDE DEF d
  <2>3. jb \in SUBSET Button /\ wo \in BOOLEAN
    BY <1>2, <1>6, <1>7, <2>1 DEF JoyStates
  <2> HIDE DEF jb, wo
  <2>6. t \in JoyStates /\ t.Previous = d.Previous
    BY <2>1, <2>3 DEF JoyStates
  <2> HIDE DEF t, p
  <2>4. joy' \in [Port -> JoyStates] /\ \A x \in Port : joy'[x].Previous = w.joy[x].Previous
    BY <1>2, <1>7, <2>2, <2>6 DEF d
  <2>5. \A x \in Code : JoyHolders(joy', x) = JoyHolders(w.joy, x)
    BY <2>4 DEF JoyHolders
  <2>7. key'.Joy2KeyRefs = w.key.Joy2KeyRefs
    BY <1>1, <1>8 DEF OsdKeeps, SameJoy
  <2> QED
    BY <1>5, <2>4, <2>5, <2>7 DEF JoyCounted
<1>15. host' \in SUBSET HostKey /\ menu' \in BOOLEAN /\ turn' \in Port
  <2>1. host' \in SUBSET HostKey /\ menu' \in BOOLEAN
    BY <1>1 DEF IInv
  <2>2. turn' \in Port
    BY <1>1, <1>2, PortAssumption DEF Port
  <2> QED
    BY <2>1, <2>2
<1>16. "COMPOSE" \notin HostKey => DownHeld(key', host')
  BY <1>1, <1>5, <1>8 DEF OsdKeeps, IInv
<1> QED
  BY <1>13, <1>14, <1>15, <1>16 DEF IInv

(* A button that is given another key lets go of the one it holds.         *)
LEMMA MappingMoves ==
  ASSUME IInv, NEW p \in Port, NEW b \in Button, Joystick_SetKeyMapping(p, b)
  PROVE  IInv'
<1> DEFINE c == joy[p].Previous[b]
           moved == [joy EXCEPT ![p].Previous[b] = NoKey]
<1>1. /\ c # NoKey /\ key' = (IF c = OsdKeyboard THEN key ELSE joy2key_release(key, c))
      /\ joy' = moved /\ UNCHANGED <<host, osdVars, menu, turn>>
  BY DEF Joystick_SetKeyMapping
<1>2. /\ joy \in [Port -> JoyStates] /\ c \in Code \union {NoKey, OsdKeyboard}
      /\ GoodKeys(key) /\ key.Joy2KeyRefs \in [Code -> Nat]
  BY DEF IInv, OsdGood, GoodKeys, KeyStates, JoyStates
<1>3. moved \in [Port -> JoyStates] /\ JoyMoved(moved, joy, p, b, NoKey)
  BY <1>2 DEF JoyMoved, JoyStates
<1>4. JoyMoved(joy, moved, p, b, c)
  BY <1>2 DEF JoyMoved, JoyStates
<1> HIDE DEF moved
<1>5. \A x \in Code : /\ JoyHolders(joy, x) \in Nat /\ JoyHolders(moved, x) \in Nat
                      /\ JoyHolders(moved, x) = JoyHolders(joy, x) + One(NoKey, x) - One(c, x)
  BY <1>3, <1>4, JoyMoves
<1>6. \A x \in Code : One(NoKey, x) = 0 /\ One(OsdKeyboard, x) = 0
  BY CodeAssumption DEF One
<1> HIDE DEF c
<1>7. \A x \in Code : JoyHolders(moved, x) = key.Joy2KeyRefs[x] - One(c, x)
  <2> SUFFICES ASSUME NEW x \in Code PROVE JoyHolders(moved, x) = key.Joy2KeyRefs[x] - One(c, x)
    OBVIOUS
  <2>1. key.Joy2KeyRefs[x] = JoyHolders(joy, x)
    BY DEF IInv, JoyCounted
  <2>2. One(c, x) \in Int
    BY DEF One
  <2> QED
    BY <1>5, <1>6, <2>1, <2>2
<1>8. /\ JoyKeeps(key, key') /\ JoyCounted(key', moved)
  <2>1. CASE c = OsdKeyboard
    <3>1. key' = key
      BY <1>1, <2>1
    <3> QED
      BY <1>2, <1>6, <1>7, <2>1, <3>1 DEF JoyKeeps, SameOsd, JoyCounted
  <2>2. CASE c # OsdKeyboard
    <3> DEFINE j == joy2key_release(key, c)
    <3>1. c \in Code /\ key' = j
      BY <1>1, <1>2, <2>2
    <3>2. key.Joy2KeyRefs[c] > 0
      BY <1>2, <1>5, <1>7, <3>1 DEF One
    <3>3. /\ GoodKeys(j) /\ SameOsd(j, key)
          /\ j.Joy2KeyRefs = [key.Joy2KeyRefs EXCEPT ![c] = @ - 1]
          /\ \A H : DownHeld(key, H) => DownHeld(j, H)
      BY <1>2, <3>1, <3>2, Released
    <3> HIDE DEF j
    <3>4. \A x \in Code : j.Joy2KeyRefs[x] = key.Joy2KeyRefs[x] - One(c, x)
      BY <1>2, <3>1, <3>3 DEF One
    <3> QED
      BY <1>7, <3>1, <3>3, <3>4 DEF JoyKeeps, JoyCounted
  <2> QED
    BY <2>1, <2>2
<1>9. visible' = visible /\ pad' = pad /\ ptr' = ptr /\ host' = host /\ menu' = menu /\ turn' = turn
  BY <1>1 DEF osdVars
<1>10. OsdGood(key', visible, pad, ptr)
  BY <1>8 DEF IInv, OsdGood, OsdCounted, SameOsd, JoyKeeps
<1>11. joy' = moved
  BY <1>1
<1> QED
  BY <1>3, <1>8, <1>9, <1>10, <1>11 DEF IInv, JoyKeeps

(* A touch takes a key and lets go of it.                                  *)
LEMMA PointersMove ==
  ASSUME IInv, NEW q \in Pointer, NEW pressed \in BOOLEAN, NEW c \in Code \union {NoKey},
         Keyboard_OSDPointerUpdate(q, pressed, c)
  PROVE  IInv'
<1> DEFINE t == ptr[q]
<1>1. /\ visible = TRUE /\ UNCHANGED <<host, joy, visible, pad, menu, turn>>
      /\ GoodKeys(key) /\ t \in PtrStates /\ ptr \in [Pointer -> PtrStates]
      /\ pad \in [Port -> PadStates] /\ OsdCounted(key, pad, ptr)
  BY DEF Keyboard_OSDPointerUpdate, IInv, OsdGood
<1>2. \A x \in Code : One(NoKey, x) = 0
  BY CodeAssumption DEF One
<1>3. \A y \in Pointer : ptr[y].code # NoKey => ptr[y].down
  BY DEF IInv, OsdGood
<1>4. OsdKeeps(key, key)
  BY <1>1 DEF OsdKeeps, SameJoy
(* What is left to show of each case.                                      *)
<1>5. ASSUME NEW d \in PtrStates, ptr' = [ptr EXCEPT ![q] = d], d.code # NoKey => d.down,
             OsdKeeps(key, key'), OsdCounted(key', pad, ptr')
      PROVE  IInv'
  <2>1. /\ ptr' \in [Pointer -> PtrStates]
        /\ \A y \in Pointer : ptr'[y].code # NoKey => ptr'[y].down
    BY <1>1, <1>3, <1>5
  <2>2. OsdGood(key', visible, pad, ptr')
    BY <1>5, <2>1 DEF IInv, OsdGood, OsdKeeps
  <2>3. JoyCounted(key', joy)
    BY <1>5 DEF IInv, JoyCounted, OsdKeeps, SameJoy
  <2> QED
    BY <1>1, <1>5, <2>2, <2>3 DEF IInv, OsdKeeps
<1>6. ASSUME NEW d \in PtrStates, ptr' = [ptr EXCEPT ![q] = d]
      PROVE  \A latched : \A x \in Code :
               /\ OsdHolders(pad, ptr, latched, x) \in Nat
               /\ OsdHolders(pad, ptr', latched, x) =
                    OsdHolders(pad, ptr, latched, x) + One(d.code, x) - One(t.code, x)
  <2> DEFINE new == ptr'
  <2>1. PtrMoved(new, ptr, q, d.code)
    BY <1>1, <1>6 DEF PtrMoved
  <2> HIDE DEF new
  <2>2. \A latched : \A x \in Code :
          OsdHolders(pad, new, latched, x) =
            OsdHolders(pad, ptr, latched, x) + One(d.code, x) - One(ptr[q].code, x)
    BY <2>1, PtrMoves
  <2> QED
    BY <2>2, HoldersNat DEF new
<1>7. CASE ptr[q].wait
  <2> DEFINE d == [t EXCEPT !.wait = pressed]
  <2>1. ptr' = [ptr EXCEPT ![q] = d] /\ key' = key
    BY <1>1, <1>7 DEF Keyboard_OSDPointerUpdate
  <2>2. d \in PtrStates /\ d.code = t.code /\ d.down = t.down
    BY <1>1 DEF PtrStates
  <2> HIDE DEF d
  <2>3. OsdCounted(key', pad, ptr')
    <3> SUFFICES ASSUME NEW x \in Code
                 PROVE  key.osd_refs[x] = OsdHolders(pad, ptr', key.osd_latched, x)
      BY <2>1 DEF OsdCounted
    <3>1. key.osd_refs[x] = OsdHolders(pad, ptr, key.osd_latched, x)
      BY <1>1 DEF OsdCounted
    <3>2. One(t.code, x) \in Int
      BY DEF One
    <3> HIDE DEF t
    <3>3. /\ OsdHolders(pad, ptr, key.osd_latched, x) \in Nat
          /\ OsdHolders(pad, ptr', key.osd_latched, x) =
               OsdHolders(pad, ptr, key.osd_latched, x) + One(d.code, x) - One(t.code, x)
      BY <1>6, <2>1, <2>2
    <3> QED
      BY <2>2, <3>1, <3>2, <3>3
  <2> QED
    BY <1>3, <1>4, <1>5, <2>1, <2>2, <2>3
<1>8. CASE ~ptr[q].wait /\ pressed /\ ~ptr[q].down
  <2> DEFINE x == IF c = NoKey THEN NoKey ELSE ToRelease(c)
             d == [t EXCEPT !.down = TRUE, !.code = x]
  <2>1. /\ ptr' = [ptr EXCEPT ![q] = d]
        /\ key' = IF c = NoKey THEN key ELSE osd_key_press(key, c)
    BY <1>1, <1>8 DEF Keyboard_OSDPointerUpdate
  <2>2. x \in (Code \ Modifier) \union {NoKey}
    BY DEF ToRelease
  <2>3. t.code = NoKey
    BY <1>3, <1>8
  <2> HIDE DEF x
  <2>4. d \in PtrStates /\ d.code = x /\ d.down = TRUE
    BY <1>1, <2>2 DEF PtrStates
  <2> HIDE DEF d, t
  <2>5. \A latched : \A y \in Code :
          OsdHolders(pad, ptr', latched, y) = OsdHolders(pad, ptr, latched, y) + One(x, y)
    <3> SUFFICES ASSUME NEW latched, NEW y \in Code
                 PROVE  OsdHolders(pad, ptr', latched, y) =
                          OsdHolders(pad, ptr, latched, y) + One(x, y)
      OBVIOUS
    <3>1. /\ OsdHolders(pad, ptr, latched, y) \in Nat
          /\ OsdHolders(pad, ptr', latched, y) =
               OsdHolders(pad, ptr, latched, y) + One(x, y) - One(NoKey, y)
      BY <1>6, <2>1, <2>3, <2>4
    <3>2. One(x, y) \in Nat /\ One(NoKey, y) = 0
      BY <1>2 DEF One
    <3> QED
      BY <3>1, <3>2
  <2>6. OsdKeeps(key, key') /\ OsdCounted(key', pad, ptr')
    <3>1. CASE c = NoKey
      <4>1. x = NoKey /\ key' = key
        BY <2>1, <3>1 DEF x
      <4>2. OsdCounted(key, pad, ptr')
        <5> SUFFICES ASSUME NEW y \in Code
                     PROVE  key.osd_refs[y] = OsdHolders(pad, ptr', key.osd_latched, y)
          BY DEF OsdCounted
        <5>1. key.osd_refs[y] = OsdHolders(pad, ptr, key.osd_latched, y)
          BY <1>1 DEF OsdCounted
        <5>2. OsdHolders(pad, ptr, key.osd_latched, y) \in Nat /\ One(x, y) = 0
          BY <1>2, <4>1, HoldersNat
        <5> QED
          BY <2>5, <5>1, <5>2
      <4> QED
        BY <1>4, <4>1, <4>2
    <3>2. CASE c # NoKey
      <4>1. x = ToRelease(c) /\ c \in Code /\ key' = osd_key_press(key, c)
        BY <2>1, <3>2 DEF x
      <4> DEFINE new == ptr'
      <4>2. \A latched : \A y \in Code :
              OsdHolders(pad, new, latched, y) =
                OsdHolders(pad, ptr, latched, y) + One(ToRelease(c), y)
        BY <2>5, <4>1
      <4> HIDE DEF new
      <4>3. OsdKeeps(key, osd_key_press(key, c)) /\ OsdCounted(osd_key_press(key, c), pad, new)
        BY <1>1, <4>1, <4>2, Takes
      <4> QED
        BY <4>1, <4>3 DEF new
    <3> QED
      BY <3>1, <3>2
  <2> QED
    BY <1>5, <2>1, <2>4, <2>6
<1>9. CASE ~ptr[q].wait /\ ~(pressed /\ ~ptr[q].down)
  <2> DEFINE d == [t EXCEPT !.down = FALSE, !.code = NoKey]
             x == t.code
  <2>1. /\ ptr' = [ptr EXCEPT ![q] = d]
        /\ key' = IF x = NoKey THEN key ELSE osd_code_up(key, x)
    BY <1>1, <1>9 DEF Keyboard_OSDPointerUpdate
  <2>2. d \in PtrStates /\ d.code = NoKey /\ x \in Code \union {NoKey}
    BY <1>1 DEF PtrStates
  <2> HIDE DEF d, t
  <2>3. \A latched : \A y \in Code :
          OsdHolders(pad, ptr', latched, y) = OsdHolders(pad, ptr, latched, y) - One(x, y)
    <3> SUFFICES ASSUME NEW latched, NEW y \in Code
                 PROVE  OsdHolders(pad, ptr', latched, y) =
                          OsdHolders(pad, ptr, latched, y) - One(x, y)
      OBVIOUS
    <3>1. /\ OsdHolders(pad, ptr, latched, y) \in Nat
          /\ OsdHolders(pad, ptr', latched, y) =
               OsdHolders(pad, ptr, latched, y) + One(NoKey, y) - One(x, y)
      BY <1>6, <2>1, <2>2
    <3>2. One(x, y) \in Nat /\ One(NoKey, y) = 0
      BY <1>2 DEF One
    <3> QED
      BY <3>1, <3>2
  <2> HIDE DEF x
  <2>4. OsdKeeps(key, key') /\ OsdCounted(key', pad, ptr')
    <3>1. CASE x = NoKey
      <4>1. key' = key
        BY <2>1, <3>1
      <4>2. OsdCounted(key, pad, ptr')
        <5> SUFFICES ASSUME NEW y \in Code
                     PROVE  key.osd_refs[y] = OsdHolders(pad, ptr', key.osd_latched, y)
          BY DEF OsdCounted
        <5>1. key.osd_refs[y] = OsdHolders(pad, ptr, key.osd_latched, y)
          BY <1>1 DEF OsdCounted
        <5>2. OsdHolders(pad, ptr, key.osd_latched, y) \in Nat /\ One(x, y) = 0
          BY <1>2, <3>1, HoldersNat
        <5> QED
          BY <2>3, <5>1, <5>2
      <4> QED
        BY <1>4, <4>1, <4>2
    <3>2. CASE x # NoKey
      <4>1. x \in Code /\ key' = osd_code_up(key, x)
        BY <2>1, <2>2, <3>2
      <4> DEFINE new == ptr'
      <4>2. \A y \in Code : OsdHolders(pad, new, key.osd_latched, y) =
                OsdHolders(pad, ptr, key.osd_latched, y) - One(x, y)
        BY <2>3
      <4> HIDE DEF new
      <4>3. OsdKeeps(key, osd_code_up(key, x)) /\ OsdCounted(osd_code_up(key, x), pad, new)
        BY <1>1, <4>1, <4>2, LetGo
      <4> QED
        BY <4>1, <4>3 DEF new
    <3> QED
      BY <3>1, <3>2
  <2> QED
    BY <1>5, <2>1, <2>2, <2>4
<1> QED
  BY <1>7, <1>8, <1>9

LEMMA MenuCloses == IInv /\ CloseMenu => IInv'
<1> SUFFICES ASSUME IInv, CloseMenu PROVE IInv'
  OBVIOUS
<1>1. UNCHANGED <<key, host, joy, visible, pad, ptr, turn>> /\ menu' = FALSE
  BY DEF CloseMenu, osdVars
<1>2. menu' \in BOOLEAN
  BY <1>1, Zenon
<1> QED
  BY <1>1, <1>2 DEF IInv

LEMMA Stutters == IInv /\ UNCHANGED vars => IInv'
  BY DEF IInv, vars, osdVars

(* One action after the other.                                             *)
LEMMA Inductive == IInv /\ [Next]_vars => IInv'
<1> SUFFICES ASSUME IInv, [Next]_vars PROVE IInv'
  OBVIOUS
<1>1. CASE Reset
  BY <1>1, KeyboardIsReset
<1>2. CASE \E held \in SUBSET HostKey : handle_retrok(held)
  BY <1>2, HostMoves
<1>3. CASE \E held \in SUBSET Button, c \in Code, clears \in BOOLEAN :
             Joystick_Update(held, c, clears)
  BY <1>3, PadsMove
<1>4. CASE \E p \in Port, b \in Button : Joystick_SetKeyMapping(p, b)
  BY <1>4, MappingMoves
<1>5. CASE \E q \in Pointer, pressed \in BOOLEAN, c \in Code \union {NoKey} :
             Keyboard_OSDPointerUpdate(q, pressed, c)
  BY <1>5, PointersMove
<1>6. CASE Keyboard_RepeatTick
  BY <1>6, Repeats
<1>7. CASE Keyboard_SetRepeatOptions
  BY <1>7, RepeatStops
<1>8. CASE OpenMenu
  BY <1>8, MenuOpens
<1>9. CASE CloseMenu
  BY <1>9, MenuCloses
<1>10. CASE ProgramReads
  BY <1>10, ProgramMoves
<1>11. CASE UNCHANGED vars
  BY <1>11, Stutters
<1> QED
  BY <1>1, <1>2, <1>3, <1>4, <1>5, <1>6, <1>7, <1>8, <1>9, <1>10, <1>11, Zenon DEF Next

LEMMA AlwaysIInv == Spec => []IInv
  BY Initially, Inductive, PTL DEF Spec

-----------------------------------------------------------------------------
(* For any tables and any number of pads and touches the variables stay in *)
(* their ranges: the queue never holds more than it has room for, and a    *)
(* touch that is up holds no key.                                          *)
THEOREM TypeCorrect == Spec => []TypeOK
<1>1. IInv => TypeOK
  <2> SUFFICES ASSUME IInv PROVE TypeOK
    OBVIOUS
  <2>1. /\ key \in KeyStates /\ Len(key.waiting) <= Capacity
        /\ joy \in [Port -> JoyStates] /\ pad \in [Port -> PadStates]
        /\ visible \in BOOLEAN /\ menu \in BOOLEAN /\ turn \in Port /\ host \subseteq HostKey
        /\ \A q \in Pointer : ptr[q].code # NoKey => ptr[q].down
    BY DEF IInv, OsdGood, GoodKeys
  <2> QED
    BY <2>1 DEF TypeOK, KeyStates, JoyStates, PadStates
<1> QED
  BY <1>1, AlwaysIInv, PTL

(* For any tables, pads and touches, a key's counts are the numbers of its *)
(* holders: no sequence of opening and closing the keyboard on screen,     *)
(* resets, menus and remapped buttons loses a holder or counts one twice.  *)
THEOREM HoldersAreCounted == Spec => []RefsCountHolders
<1>1. IInv => RefsCountHolders
  BY DEF IInv, OsdGood, OsdCounted, JoyCounted, RefsCountHolders
<1> QED
  BY <1>1, AlwaysIInv, PTL

(* Where the host has no COMPOSE key, and so one table of keys, no key is  *)
(* down without somebody who holds it, and the one that repeats is down.   *)
THEOREM NoKeyStaysDown ==
  ASSUME "COMPOSE" \notin HostKey
  PROVE  Spec => []DownOnlyIfHeld
<1>1. IInv => DownOnlyIfHeld
  BY DEF IInv, OsdGood, GoodKeys, DownHeld, HeldBy, DownOnlyIfHeld, Held, HeldByHost
<1> QED
  BY <1>1, AlwaysIInv, PTL

=============================================================================
