------------------------------- MODULE Blocks -------------------------------
(***************************************************************************)
(* cw01: the table of blocks of zad1/lib.c, and the commands of zad2 that  *)
(* fill it with the counts of wc and free it.                              *)
(***************************************************************************)
EXTENDS Integers, Sequences

CONSTANTS Sizes,        \* bound: the sizes a table is created with
          MaxBlocks     \* bound: how many counts are saved

ASSUME BlocksAssumption == Sizes \subseteq Int /\ MaxBlocks \in Nat

VARIABLES phase,        \* of the program: "commands", "ended" or "crashed"
          size,         \* of the table; 0: array is NULL
          blocks,       \* the block at each index, 0 for NULL
          saved,        \* the index that was returned for each block, -1: in a former table
          freed         \* how often each block was freed

blocksVars == <<phase, size, blocks, saved, freed>>

BlocksInit == /\ phase = "commands" /\ size = 0 /\ blocks = <<>>
              /\ saved = <<>> /\ freed = [k \in 1..MaxBlocks |-> 0]

\* An entry of blocks is given the room of two, so that there is one at index size too.
\* The blocks of a former table are out of reach.
create_table(n) == /\ phase = "commands"
                   /\ IF n <= 0 THEN UNCHANGED blocksVars
                      ELSE /\ size' = n /\ blocks' = [i \in 0..n |-> 0]
                           /\ saved' = [k \in DOMAIN saved |-> -1]
                           /\ UNCHANGED <<phase, freed>>

\* A mutant of EmptyPlace: the last place of a full table is taken.
EmptyPlace_OneShort(i) == /\ i \in 0..(size - 1)
                          /\ blocks[i] = 0 \/ i = size - 1
                          /\ \A j \in 0..(i - 1) : blocks[j] # 0

\* Where the search for an empty place ends.
EmptyPlace(i) == /\ i \in 0..size
                 /\ blocks[i] = 0 \/ i = size
                 /\ \A j \in 0..(i - 1) : blocks[j] # 0

\* The first empty place is taken, or else the one behind the table, whatever is there.
save_in_memory == \E i \in 0..size : /\ EmptyPlace(i)
                                     /\ blocks' = [blocks EXCEPT ![i] = Len(saved) + 1]
                                     /\ saved' = Append(saved, i)

\* Without a table the access to it ends the program.
wc_files == /\ phase = "commands" /\ Len(saved) < MaxBlocks
            /\ IF size = 0
               THEN phase' = "crashed" /\ UNCHANGED <<size, blocks, saved, freed>>
               ELSE save_in_memory /\ UNCHANGED <<phase, size, freed>>

\* A mutant of free: the pointer is kept.
free_KeepsPointer(S) == /\ freed' = [k \in DOMAIN freed |-> freed[k] + (IF \E i \in S : blocks[i] = k THEN 1 ELSE 0)]
                        /\ UNCHANGED blocks

\* The blocks at some indices are freed and their pointers set to NULL.
free(S) == /\ freed' = [k \in DOMAIN freed |-> freed[k] + (IF \E i \in S : blocks[i] = k THEN 1 ELSE 0)]
           /\ blocks' = [i \in DOMAIN blocks |-> IF i \in S THEN 0 ELSE blocks[i]]

remove_block(index) ==
    /\ phase = "commands"
    /\ IF index >= 0 /\ size = 0 THEN phase' = "crashed" /\ UNCHANGED <<size, blocks, saved, freed>>
       ELSE IF index < 0 \/ index >= size \/ blocks[index] = 0 THEN UNCHANGED blocksVars
       ELSE free({index}) /\ UNCHANGED <<phase, size, saved>>

\* After the last command.
remove_array == /\ phase = "commands" /\ phase' = "ended"
                /\ IF size = 0 THEN UNCHANGED <<blocks, freed>> ELSE free(0..(size - 1))
                /\ UNCHANGED <<size, saved>>

BlocksNext == \/ \E n \in Sizes : create_table(n)
              \/ wc_files \/ remove_array
              \/ \E index \in -1..(MaxBlocks + 1) : remove_block(index)
-----------------------------------------------------------------------------
\* Until it is freed, a block that was given an index of the table is found there, whatever
\* holes the commands leave and fill; it is freed once, at the end at the latest.  A block
\* that comes when the table is full is behind it, where the next one takes its place and
\* nothing frees it.
TableKept ==
    \A k \in DOMAIN saved :
        /\ freed[k] <= 1
        /\ saved[k] \in 0..(size - 1) => /\ blocks[saved[k]] = k <=> freed[k] = 0
                                         /\ phase = "ended" => freed[k] = 1
=============================================================================
