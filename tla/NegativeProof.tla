---------------------------- MODULE NegativeProof ----------------------------
(***************************************************************************)
(* The shares of the threads are disjoint and cover the picture, for every *)
(* number of threads and every size of the picture, and what is saved is   *)
(* the negative of what was read.                                          *)
(***************************************************************************)
EXTENDS Negative, TLAPS

(***************************************************************************)
(* Shares of q values each, the last one open to above: as long as q is    *)
(* 256 or the width divided by the number of threads and rounded down, the *)
(* last share also takes the rest.                                         *)
(***************************************************************************)

LEMMA QuotientIsNat == ASSUME NEW a \in Nat, NEW n \in Nat \ {0} PROVE a \div n \in Nat
  OBVIOUS

LEMMA ProductsGrow == ASSUME NEW q \in Nat, NEW a \in Nat, NEW b \in Nat, a <= b
                      PROVE  q * a <= q * b
  OBVIOUS

\* Every value is in a share.
LEMMA SharesCover ==
    ASSUME NEW q \in Nat, NEW n \in Nat \ {0}, NEW v \in Nat
    PROVE  \E t \in 0..(n - 1) : q * t <= v /\ (t # n - 1 => v < q * (t + 1))
<1>1. CASE q = 0
  <2>1. q * (n - 1) <= v
    BY <1>1
  <2> QED
    BY <2>1
<1>2. CASE q # 0
  <2>1. v \div q \in Nat /\ q * (v \div q) <= v /\ v < q * (v \div q + 1)
    BY <1>2
  <2>2. CASE v \div q < n - 1
    <3>1. v \div q \in 0..(n - 1)
      BY <2>1, <2>2
    <3> QED
      BY <2>1, <3>1
  <2>3. CASE n - 1 <= v \div q
    <3>1. q * (n - 1) <= q * (v \div q)
      BY <2>1, <2>3, ProductsGrow
    <3>2. q * (n - 1) \in Nat /\ q * (v \div q) \in Nat
      BY <2>1
    <3>3. q * (n - 1) <= v
      BY <2>1, <3>1, <3>2
    <3> QED
      BY <3>3
  <2> QED
    BY <2>1, <2>2, <2>3
<1> QED
  BY <1>1, <1>2

\* No value is in two.
LEMMA SharesApart ==
    ASSUME NEW q \in Nat, NEW n \in Nat, NEW t \in 0..(n - 1), NEW u \in 0..(n - 1), NEW v \in Nat,
           t < u, q * u <= v, t # n - 1 => v < q * (t + 1)
    PROVE  FALSE
<1>1. q * (t + 1) <= q * u
  BY ProductsGrow
<1>2. q * (t + 1) \in Nat /\ q * u \in Nat
  OBVIOUS
<1> QED
  BY <1>1, <1>2
-----------------------------------------------------------------------------
(* The shares of the program.                                              *)

\* The quotient both methods use, and the value they look at.
Quotient == IF method = "numbers" THEN 256 \div threads_number ELSE width \div threads_number
Value(p) == IF method = "numbers" THEN image[p] ELSE p[2]

\* Both methods give a thread the pixels whose value is in its share.
LEMMA ShareOfValues ==
    ASSUME TypeOK, NEW t \in Threads, NEW p \in Pixels(width, height)
    PROVE  /\ Quotient \in Nat /\ Value(p) \in Nat
           /\ p \in Share(t) <=>
                Quotient * t <= Value(p) /\ (t # threads_number - 1 => Value(p) < Quotient * (t + 1))
<1> DEFINE n == threads_number
<1>1. n \in Nat \ {0} /\ t \in 0..(n - 1) /\ width \in Nat /\ height \in Nat
  BY DEF TypeOK, Threads
<1>2. image[p] \in 0..255 /\ p[2] \in 0..(width - 1)
  BY DEF TypeOK, Pixels
<1>3. 256 \div n \in Nat /\ width \div n \in Nat
  BY <1>1, QuotientIsNat
<1>4. CASE method = "numbers"
  <2>1. Quotient = 256 \div n /\ Value(p) = image[p]
    BY <1>4 DEF Quotient, Value
  <2>2. p \in Share(t) <=> numbers_from(t) <= image[p] /\ image[p] < numbers_to(t)
    BY <1>4 DEF Share
  <2>3. numbers_from(t) = Quotient * t
    BY <2>1 DEF numbers_from
  <2>4. numbers_to(t) = IF t = n - 1 THEN 256 ELSE Quotient * (t + 1)
    BY <2>1 DEF numbers_to, Last
  <2> QED
    BY <1>2, <1>3, <2>1, <2>2, <2>3, <2>4
<1>5. CASE method # "numbers"
  <2>1. Quotient = width \div n /\ Value(p) = p[2]
    BY <1>5 DEF Quotient, Value
  <2>2. p \in Share(t) <=> block_from(t) <= p[2] /\ p[2] <= block_to(t)
    BY <1>5 DEF Share
  <2> DEFINE q == width \div n
  <2>3. q \in Nat /\ q * (t + 1) = (t + 1) * q /\ q * t = t * q /\ (t + 1) * q \in Nat /\ t * q \in Nat
    BY <1>1, <1>3
  <2>4. block_from(t) = t * q
    BY DEF block_from
  <2>5. block_to(t) = IF t = n - 1 THEN width - 1 ELSE (t + 1) * q - 1
    BY DEF block_to, Last
  <2> HIDE DEF q
  <2>6. Quotient = q
    BY <2>1 DEF q
  <2>7. p[2] <= block_to(t) <=> (t # n - 1 => p[2] < (t + 1) * q)
    BY <1>1, <1>2, <2>3, <2>5
  <2> QED
    BY <1>2, <2>1, <2>2, <2>3, <2>4, <2>6, <2>7
<1> QED
  BY <1>4, <1>5

\* Every pixel is in the share of a thread, for both methods.
LEMMA PixelsCovered ==
    ASSUME TypeOK, NEW p \in Pixels(width, height)
    PROVE  \E t \in Threads : p \in Share(t)
<1>1. threads_number \in Nat \ {0}
  BY DEF TypeOK
<1>2. 0 \in Threads
  BY <1>1 DEF Threads
<1>3. Quotient \in Nat /\ Value(p) \in Nat
  BY <1>2, ShareOfValues
<1>4. PICK t \in 0..(threads_number - 1) :
        /\ Quotient * t <= Value(p)
        /\ t # threads_number - 1 => Value(p) < Quotient * (t + 1)
  BY <1>1, <1>3, SharesCover
<1> QED
  BY <1>4, ShareOfValues DEF Threads

\* No pixel is in the share of two threads.
LEMMA PixelsApart == TypeOK => SharesAreDisjoint
<1>1. SUFFICES ASSUME TypeOK, NEW t \in Threads, NEW u \in Threads, t < u,
                      NEW p \in Pixels(width, height), p \in Share(t), p \in Share(u)
               PROVE  FALSE
  <2>1. \A t \in Threads : Share(t) \subseteq Pixels(width, height)
    BY DEF Share
  <2>2. TypeOK => \A t, u \in Threads : t # u => t < u \/ u < t
    BY DEF TypeOK, Threads
  <2> QED
    BY <2>1, <2>2 DEF SharesAreDisjoint
<1>2. /\ Quotient \in Nat /\ Value(p) \in Nat
      /\ t # threads_number - 1 => Value(p) < Quotient * (t + 1)
  BY <1>1, ShareOfValues
<1>3. Quotient * u <= Value(p)
  BY <1>1, ShareOfValues
<1>4. threads_number \in Nat /\ t \in 0..(threads_number - 1) /\ u \in 0..(threads_number - 1)
  BY <1>1 DEF TypeOK, Threads
<1> QED
  BY <1>1, <1>2, <1>3, <1>4, SharesApart
-----------------------------------------------------------------------------
(* The picture that is saved.  A pixel of a thread that runs or has run is *)
(* still to be written, or right; a thread that has been joined has        *)
(* written them all.                                                       *)

Written == \A t \in 0..(created - 1) : \A p \in Share(t) :
               p \in todo[t] \/ negative_image[p] = 255 - image[p]
Order == /\ joined <= created
         /\ main \in {"join", "done"} => created = threads_number
         /\ main = "load" => created = 0
         /\ \A t \in Threads : t < joined \/ created <= t => todo[t] = {}

Inv == TypeOK /\ Written /\ Order /\ SavedIsNegative

LEMMA InitInv == Init => Inv
<1> SUFFICES ASSUME Init PROVE Inv
  OBVIOUS
<1>1. TypeOK
  <2>1. threads_number \in Nat \ {0}
    BY NegativeAssumption DEF Init
  <2> QED
    BY <2>1 DEF Init, TypeOK, Threads, Pixels, black
<1>2. Written /\ Order
  BY <1>1 DEF Init, Written, Order, TypeOK
<1>3. SavedIsNegative
  BY DEF Init, SavedIsNegative
<1> QED
  BY <1>1, <1>2, <1>3 DEF Inv

LEMMA LoadInv == Inv /\ load_picture => Inv'
<1> SUFFICES ASSUME Inv, load_picture PROVE Inv'
  OBVIOUS
<1> USE DEF Inv
<1>1. created' = created /\ created = 0 /\ joined' = joined /\ threads_number' = threads_number
      /\ method' = method /\ todo' = todo /\ main' \in {"create", "failed"}
  BY DEF load_picture, Order, arguments
<1>2. TypeOK'
  <2>1. CASE picture' = picture /\ negative_image' = negative_image
    BY <1>1, <2>1, SMTT(30) DEF picture, TypeOK, Threads
  <2>2. ASSUME NEW w, NEW h, <<w, h>> \in Sizes,
               image' \in [Pixels(w, h) -> Values], width' = w, height' = h, negative_image' = black(w, h)
        PROVE  TypeOK'
    <3>1. w \in Nat /\ h \in Nat /\ image' \in [Pixels(w, h) -> 0..255]
      BY <2>2, NegativeAssumption
    <3>2. negative_image' \in [Pixels(w, h) -> 0..255]
      BY <2>2 DEF black
    <3>3. \A t \in Threads : todo[t] = {}
      BY <1>1 DEF Order, TypeOK, Threads
    <3>4. todo' \in [Threads -> SUBSET Pixels(w, h)]
      BY <1>1, <3>3 DEF TypeOK
    <3> QED
      BY <1>1, <2>2, <3>1, <3>2, <3>4 DEF TypeOK, Threads
  <2>3. \A size \in Sizes : <<size[1], size[2]>> \in Sizes
    BY NegativeAssumption
  <2> QED
    BY <2>1, <2>2, <2>3 DEF load_picture, picture
<1>3. Written' /\ Order'
  BY <1>1, <1>2 DEF Written, Order, TypeOK, Threads
<1>4. SavedIsNegative'
  BY <1>1 DEF SavedIsNegative
<1> QED
  BY <1>2, <1>3, <1>4

LEMMA CreateInv == Inv /\ pthread_create => Inv'
<1> SUFFICES ASSUME Inv, pthread_create PROVE Inv'
  OBVIOUS
<1> USE DEF Inv
<1>1. /\ created' = created + 1 /\ created \in 0..(threads_number - 1) /\ joined' = joined
      /\ threads_number' = threads_number /\ method' = method /\ main' = main /\ main = "create"
      /\ width' = width /\ height' = height /\ image' = image /\ negative_image' = negative_image
      /\ saved' = saved
  BY DEF pthread_create, arguments, picture, TypeOK
<1>2. todo' = [todo EXCEPT ![created] = Share(created)]
  BY DEF pthread_create
<1>3. \A t \in Threads : Share(t)' = Share(t)
  BY <1>1 DEF Share, numbers_from, numbers_to, block_from, block_to, Last
<1>4. Threads' = Threads /\ created \in Threads
  BY <1>1 DEF Threads
<1>5. TypeOK'
  <2>1. Share(created) \subseteq Pixels(width, height)
    BY DEF Share
  <2> QED
    BY <1>1, <1>2, <1>4, <2>1 DEF TypeOK
<1>6. Written'
  <2> SUFFICES ASSUME NEW t \in 0..created, NEW p \in Share(t)
               PROVE  p \in todo'[t] \/ negative_image[p] = 255 - image[p]
    BY <1>1, <1>3, <1>4 DEF Written, Threads, TypeOK
  <2>1. t \in Threads
    BY <1>1 DEF Threads, TypeOK
  <2>2. CASE t = created
    BY <1>2, <1>4, <2>2 DEF TypeOK
  <2>3. CASE t # created
    BY <1>1, <1>2, <2>1, <2>3 DEF Written, TypeOK
  <2> QED
    BY <2>2, <2>3
<1>7. Order'
  <2>1. \A t \in Threads : t < joined \/ created + 1 <= t => todo'[t] = {}
    BY <1>1, <1>2 DEF Order, TypeOK, Threads
  <2> QED
    BY <1>1, <1>4, <2>1 DEF Order, TypeOK
<1>8. SavedIsNegative'
  BY <1>1 DEF SavedIsNegative
<1> QED
  BY <1>5, <1>6, <1>7, <1>8

LEMMA ThreadInv == ASSUME NEW t \in Threads PROVE Inv /\ Thread(t) => Inv'
<1> SUFFICES ASSUME Inv, Thread(t) PROVE Inv'
  OBVIOUS
<1> USE DEF Inv
<1>1. /\ created' = created /\ joined' = joined /\ main' = main /\ main # "done"
      /\ threads_number' = threads_number /\ method' = method
      /\ width' = width /\ height' = height /\ image' = image /\ saved' = saved
  BY DEF Thread, arguments, picture
<1>2. PICK p \in todo[t] : /\ negative_image' = [negative_image EXCEPT ![p] = 255 - image[p]]
                           /\ todo' = [todo EXCEPT ![t] = @ \ {p}]
  BY DEF Thread
<1>3. Threads' = Threads /\ p \in Pixels(width, height) /\ 255 - image[p] \in 0..255
  <2>1. Threads' = Threads
    BY <1>1 DEF Threads
  <2>2. p \in Pixels(width, height)
    BY <1>2 DEF TypeOK
  <2>3. image[p] \in 0..255
    BY <2>2 DEF TypeOK
  <2> QED
    BY <2>1, <2>2, <2>3
<1>4. \A u \in Threads : Share(u)' = Share(u) /\ Share(u) \subseteq Pixels(width, height)
  BY <1>1 DEF Share, numbers_from, numbers_to, block_from, block_to, Last
<1>5. TypeOK'
  BY <1>1, <1>2, <1>3 DEF TypeOK
<1>6. Written'
  <2> SUFFICES ASSUME NEW u \in 0..(created - 1), NEW q \in Share(u)
               PROVE  q \in todo'[u] \/ negative_image'[q] = 255 - image[q]
    BY <1>1, <1>3, <1>4 DEF Written, Threads, TypeOK
  <2>1. u \in Threads /\ q \in Pixels(width, height)
    BY <1>4 DEF Threads, TypeOK
  <2>2. CASE q = p
    BY <1>2, <1>3, <2>2 DEF TypeOK
  <2>3. CASE q # p
    BY <1>2, <2>1, <2>3 DEF Written, TypeOK
  <2> QED
    BY <2>2, <2>3
<1>7. Order'
  BY <1>1, <1>2, <1>3 DEF Order, TypeOK
<1>8. SavedIsNegative'
  BY <1>1 DEF SavedIsNegative
<1> QED
  BY <1>5, <1>6, <1>7, <1>8

\* The other steps of the main thread leave the threads alone.
LEMMA MainInv ==
    Inv /\ (save_to_times \/ pthread_join \/ save_negative_picture) => Inv'
<1> SUFFICES ASSUME Inv, save_to_times \/ pthread_join \/ save_negative_picture PROVE Inv'
  OBVIOUS
<1> USE DEF Inv
<1>1. /\ threads_number' = threads_number /\ method' = method
      /\ width' = width /\ height' = height /\ image' = image
      /\ created' = created /\ todo' = todo /\ negative_image' = negative_image
  BY DEF save_to_times, pthread_join, save_negative_picture, exit, arguments, picture
<1>2. Threads' = Threads /\ \A t \in Threads : Share(t)' = Share(t)
  BY <1>1 DEF Threads, Share, numbers_from, numbers_to, block_from, block_to, Last
<1>3. Written'
  BY <1>1, <1>2 DEF Written, Threads, TypeOK
<1>4. CASE save_to_times
  <2>1. joined' = joined /\ main' \in {"join", "failed"} /\ created = threads_number
    BY <1>4 DEF save_to_times, exit
  <2> QED
    BY <1>1, <1>2, <1>3, <2>1 DEF TypeOK, Order, SavedIsNegative
<1>5. CASE pthread_join
  <2>1. joined' = joined + 1 /\ main' = main /\ main = "join" /\ joined < threads_number /\ todo[joined] = {}
    BY <1>5 DEF pthread_join
  <2>2. joined' \in 0..threads_number
    BY <2>1 DEF TypeOK
  <2>3. TypeOK'
    BY <1>1, <1>2, <2>1, <2>2 DEF TypeOK
  <2>4. Order'
    BY <1>1, <1>2, <2>1 DEF TypeOK, Order, Threads
  <2> QED
    BY <1>3, <2>1, <2>3, <2>4 DEF SavedIsNegative
<1>6. CASE save_negative_picture
  <2>1. joined' = joined /\ joined = threads_number /\ main = "join" /\ main' \in {"done", "failed"}
    BY <1>6 DEF save_negative_picture, exit
  <2>2. TypeOK' /\ Order'
    BY <1>1, <1>2, <2>1 DEF TypeOK, Order
  <2>3. \A p \in Pixels(width, height) : negative_image[p] = 255 - image[p]
    <3> SUFFICES ASSUME NEW p \in Pixels(width, height) PROVE negative_image[p] = 255 - image[p]
      OBVIOUS
    <3>1. PICK t \in Threads : p \in Share(t)
      BY PixelsCovered
    <3>2. t \in 0..(created - 1) /\ todo[t] = {}
      BY <2>1 DEF Order, Threads, TypeOK
    <3> QED
      BY <3>1, <3>2 DEF Written
  <2>4. SavedIsNegative'
    <3>1. main' = "done" => saved' = negative_image
      BY <1>6 DEF save_negative_picture, exit
    <3>2. negative_image = [p \in Pixels(width, height) |-> 255 - image[p]]
      BY <2>3 DEF TypeOK
    <3> QED
      BY <1>1, <3>1, <3>2 DEF SavedIsNegative
  <2> QED
    BY <1>3, <2>2, <2>4
<1> QED
  BY <1>4, <1>5, <1>6

LEMMA NextInv == Inv /\ [Next]_vars => Inv'
<1> SUFFICES ASSUME Inv, [Next]_vars PROVE Inv'
  OBVIOUS
<1>1. CASE UNCHANGED vars
  <2>1. \A t \in Threads : Share(t)' = Share(t)
    BY <1>1 DEF vars, Share, numbers_from, numbers_to, block_from, block_to, Last
  <2>2. Written'
    BY <1>1, <2>1 DEF vars, Inv, Written, TypeOK, Threads
  <2> QED
    BY <1>1, <2>2, SMTT(30) DEF vars, Inv, TypeOK, Order, SavedIsNegative, Threads
<1>2. CASE Next
  BY <1>2, LoadInv, CreateInv, MainInv, ThreadInv DEF Next, MainThread
<1> QED
  BY <1>1, <1>2
-----------------------------------------------------------------------------
(* The theorems.                                                           *)

\* For every picture and every number of threads, what main saves after its joins is the
\* negative of what it has read.
THEOREM SavedPicture == Spec => []SavedIsNegative
<1>1. Spec => []Inv
  BY InitInv, NextInv, PTL DEF Spec
<1>2. Inv => SavedIsNegative
  BY DEF Inv
<1> QED
  BY <1>1, <1>2, PTL

\* No two threads ever write the same pixel, for both ways to divide the picture.
THEOREM ThreadsApart == Spec => []SharesAreDisjoint
<1>1. Spec => []Inv
  BY InitInv, NextInv, PTL DEF Spec
<1>2. Inv => SharesAreDisjoint
  BY PixelsApart DEF Inv
<1> QED
  BY <1>1, <1>2, PTL
=============================================================================
