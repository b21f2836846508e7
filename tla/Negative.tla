------------------------------- MODULE Negative -------------------------------
(***************************************************************************)
(* cw08/zad1/main.c: the negative of a picture, computed by threads that   *)
(* divide it by the values of its pixels or by its columns, and saved by   *)
(* the main thread once it has joined them all.                            *)
(***************************************************************************)
EXTENDS Integers

CONSTANTS ThreadCounts, Sizes, Values       \* bounds: what the program is given; the width comes first

ASSUME NegativeAssumption == /\ ThreadCounts \subseteq Nat \ {0}
                             /\ Sizes \subseteq Nat \X Nat
                             /\ Values \subseteq 0..255

VARIABLES threads_number, method,
          width, height, image,     \* what load_picture has read
          main,                     \* "load", "create", "join", "done" or "failed"
          created, joined,          \* how many threads main has created, and joined
          todo,                     \* the pixels each thread has yet to write
          negative_image,
          saved                     \* the output file

vars == <<threads_number, method, width, height, image, main, created, joined, todo, negative_image, saved>>
picture == <<width, height, image>>
arguments == <<threads_number, method>>

Threads == 0..(threads_number - 1)
Pixels(w, h) == (0..(h - 1)) \X (0..(w - 1))        \* the row comes first
black(w, h) == [p \in Pixels(w, h) |-> 0]

Init == /\ threads_number \in ThreadCounts /\ method \in {"numbers", "block"}
        /\ width = 0 /\ height = 0 /\ image = black(0, 0)
        /\ main = "load" /\ created = 0 /\ joined = 0
        /\ todo = [t \in Threads |-> {}]
        /\ negative_image = black(0, 0) /\ saved = black(0, 0)
-----------------------------------------------------------------------------
(* The shares of the threads.                                              *)

Last(t) == t = threads_number - 1

\* Values from "from", below "to".
numbers_from(t) == (256 \div threads_number) * t
numbers_to(t) == IF Last(t) THEN 256 ELSE (256 \div threads_number) * (t + 1)

\* A mutant of numbers_to: the last thread does not take the rest.
numbers_to_Equal(t) == (256 \div threads_number) * (t + 1)

\* Columns "from" to "to"; the quotient is an integer before ceil is applied to it.
block_from(t) == t * (width \div threads_number)

\* A mutant of block_to: the next column, too.
block_to_OneMore(t) == IF Last(t) THEN width - 1 ELSE (t + 1) * (width \div threads_number)

block_to(t) == IF Last(t) THEN width - 1 ELSE (t + 1) * (width \div threads_number) - 1

Share(t) == IF method = "numbers"
            THEN {p \in Pixels(width, height) : numbers_from(t) <= image[p] /\ image[p] < numbers_to(t)}
            ELSE {p \in Pixels(width, height) : block_from(t) <= p[2] /\ p[2] <= block_to(t)}
-----------------------------------------------------------------------------
(* The main thread.                                                        *)

exit == main' = "failed" /\ UNCHANGED <<arguments, picture, created, joined, todo, negative_image, saved>>

\* get_max_pixel is read before it is set.  If it happens to be true, the line with the width
\* is taken for the one with the greatest value, and the picture stays empty.
load_picture ==
    /\ main = "load"
    /\ \E size \in Sizes :
        LET w == size[1]
            h == size[2]
        IN \/ /\ \E read \in [Pixels(w, h) -> Values] : image' = read
              /\ width' = w /\ height' = h
              /\ negative_image' = black(w, h)
              /\ main' = "create"
              /\ UNCHANGED <<arguments, created, joined, todo, saved>>
           \/ /\ main' = IF w = 255 THEN "create" ELSE "failed"
              /\ UNCHANGED <<arguments, picture, created, joined, todo, negative_image, saved>>

\* A mutant of pthread_create: the last thread is not created.
pthread_create_OneShort ==
    /\ main = "create" /\ created < threads_number - 1
    /\ todo' = [todo EXCEPT ![created] = Share(created)]
    /\ created' = created + 1
    /\ UNCHANGED <<arguments, picture, main, joined, negative_image, saved>>

pthread_create ==
    /\ main = "create" /\ created < threads_number
    /\ todo' = [todo EXCEPT ![created] = Share(created)]
    /\ created' = created + 1
    /\ UNCHANGED <<arguments, picture, main, joined, negative_image, saved>>

\* The file with the times may not open.
save_to_times == /\ main = "create" /\ created = threads_number
                 /\ \/ /\ main' = "join"
                       /\ UNCHANGED <<arguments, picture, created, joined, todo, negative_image, saved>>
                    \/ exit

\* A mutant of pthread_join: it does not wait.
pthread_join_NoWait ==
    /\ main = "join" /\ joined < threads_number
    /\ joined' = joined + 1
    /\ UNCHANGED <<arguments, picture, main, created, todo, negative_image, saved>>

pthread_join ==
    /\ main = "join" /\ joined < threads_number
    /\ todo[joined] = {}
    /\ joined' = joined + 1
    /\ UNCHANGED <<arguments, picture, main, created, todo, negative_image, saved>>

save_negative_picture ==
    /\ main = "join" /\ joined = threads_number
    /\ \/ /\ main' = "done" /\ saved' = negative_image
          /\ UNCHANGED <<arguments, picture, created, joined, todo, negative_image>>
       \/ exit

MainThread == load_picture \/ pthread_create \/ save_to_times \/ pthread_join \/ save_negative_picture
-----------------------------------------------------------------------------
(* The other threads, row by row; they end with the main thread.           *)

Before(p, q) == p[1] < q[1] \/ (p[1] = q[1] /\ p[2] <= q[2])

Thread(t) ==
    /\ main \notin {"done", "failed"}
    /\ \E p \in todo[t] :
         /\ \A q \in todo[t] : Before(p, q)
         /\ negative_image' = [negative_image EXCEPT ![p] = 255 - image[p]]
         /\ todo' = [todo EXCEPT ![t] = @ \ {p}]
    /\ UNCHANGED <<arguments, picture, main, created, joined, saved>>

Next == MainThread \/ \E t \in Threads : Thread(t)

Spec == Init /\ [][Next]_vars
FairSpec == Spec /\ WF_vars(MainThread) /\ WF_vars(\E t \in Threads : Thread(t))
-----------------------------------------------------------------------------
(* Properties.                                                             *)

TypeOK == /\ threads_number \in Nat \ {0} /\ method \in {"numbers", "block"}
          /\ width \in Nat /\ height \in Nat
          /\ image \in [Pixels(width, height) -> 0..255]
          /\ main \in {"load", "create", "join", "done", "failed"}
          /\ created \in 0..threads_number /\ joined \in 0..threads_number
          /\ todo \in [Threads -> SUBSET Pixels(width, height)]
          /\ negative_image \in [Pixels(width, height) -> 0..255]

\* The picture that is saved is the negative of the one that was read, in every pixel: each
\* pixel is in the share of a thread, also when the number of threads does not divide 256 or
\* the width, or exceeds them, and no thread is still writing.
SavedIsNegative == main = "done" => saved = [p \in Pixels(width, height) |-> 255 - image[p]]

\* No pixel is in the share of two threads: they write without a lock.
SharesAreDisjoint == \A t, u \in Threads : t # u => Share(t) \cap Share(u) = {}

\* The program ends, with its picture saved or for one of its errors.
Ends == <>(main \in {"done", "failed"})
=============================================================================
