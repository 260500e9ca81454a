---------------------------- MODULE MCAllocators ----------------------------
(***************************************************************************)
(* The bump, pool, slab and buddy allocators and the linked free list, for *)
(* TLC: one of them runs, the others stay in their initial state.  NULL    *)
(* and the sizes are shared where they mean the same.                      *)
(***************************************************************************)
EXTENDS Integers

CONSTANTS ArenaBase, ArenaBytes, ArenaRequests, SizeMod,
          PoolSlots, PoolData,
          MaxSlabs, objs_per_slab, Foreign,
          Data, Chunks, NULL,
          MAX_ORDER, PageRequests

VARIABLES
  running,                                            \* the one that runs
  bump, mapped, held,                                 \* Bump
  word, free_head, live, pool_mapped,                 \* Pool
  list_head, prev_free, next_free,                    \* FreeLinks
  nslabs, partial, next_partial, free, in_use, slab_word, slab_live, \* Slab
  fl, pages_live                                      \* Buddy

Bump == INSTANCE Bump WITH Base <- ArenaBase, Cap <- ArenaBytes, Requests <- ArenaRequests
Pool == INSTANCE Pool WITH Cap <- PoolSlots, Data <- PoolData, mapped <- pool_mapped
Links == INSTANCE FreeLinks WITH free_head <- list_head
Slab == INSTANCE Slab WITH word <- slab_word, live <- slab_live
Buddy == INSTANCE Buddy WITH Requests <- PageRequests, live <- pages_live

ASSUME AllocatorsAssumption == /\ Bump!RequestsAssumption
                               /\ Pool!PoolAssumption
                               /\ Links!NullAssumption
                               /\ Slab!SlabAssumption /\ Slab!ForeignAssumption
                               /\ Buddy!BuddyAssumption

bumpVars == <<bump, mapped, held>>
poolVars == <<word, free_head, live, pool_mapped>>
linksVars == <<list_head, prev_free, next_free>>
slabVars == <<nslabs, partial, next_partial, free, in_use, slab_word, slab_live>>
buddyVars == <<fl, pages_live>>

vars == <<running, bumpVars, poolVars, linksVars, slabVars, buddyVars>>

Init == /\ running \in {"bump", "pool", "links", "slab", "buddy"}
        /\ Bump!Init /\ Pool!Init /\ Links!Init /\ Slab!Init /\ Buddy!Init
        /\ running = "bump" \/ mapped
        /\ running = "pool" \/ pool_mapped

Next ==
  \/ /\ running = "bump" /\ Bump!Next
     /\ UNCHANGED <<running, poolVars, linksVars, slabVars, buddyVars>>
  \/ /\ running = "pool" /\ Pool!Next
     /\ UNCHANGED <<running, bumpVars, linksVars, slabVars, buddyVars>>
  \/ /\ running = "links" /\ Links!Next
     /\ UNCHANGED <<running, bumpVars, poolVars, slabVars, buddyVars>>
  \/ /\ running = "slab" /\ Slab!Next
     /\ UNCHANGED <<running, bumpVars, poolVars, linksVars, buddyVars>>
  \/ /\ running = "buddy" /\ Buddy!Next
     /\ UNCHANGED <<running, bumpVars, poolVars, linksVars, slabVars>>

Spec == Init /\ [][Next]_vars
-----------------------------------------------------------------------------
(* 01_bump.c: blocks handed out between two resets lie in the arena and    *)
(* are disjoint.                                                           *)
BumpImplementsBlocks == Bump!ImplementsBlocks

(* Lists kept in memory that callers write are sound.  02_pool.c: the list *)
(* through the free slots holds exactly the slots nobody holds, each once. *)
(* 04_freelist.c: forward and backward links agree although those of       *)
(* swallowed chunks are overwritten.                                       *)
ListsAreSound == /\ Bump!TypeOK /\ Pool!TypeOK
                 /\ Pool!ListIsFree
                 /\ Links!WellLinked

(* 04_freelist.c: fl_insert() and fl_remove() implement the sequence that  *)
(* Freelist keeps in place of the links.                                   *)
ImplementsSequence == Links!ImplementsSequence

(* 03_slab.c: each slab's list holds the objects of that slab nobody       *)
(* holds, in_use counts the others, and the partial list is exactly the    *)
(* slabs with a free object.                                               *)
SlabIsSound == Slab!TypeOK /\ Slab!SlabAccounts /\ Slab!PartialHasRoom

(* 05_buddy.c: free and used blocks tile the arena, aligned to their size, *)
(* and no block is free together with its buddy.                           *)
BuddyIsSound == Buddy!Tiling /\ Buddy!NoFreeBuddies

(* 05_buddy.c: buddy_alloc() returns NULL only if no aligned run of free   *)
(* pages would do.                                                         *)
NullOnlyIfNoRoom == Buddy!NullOnlyIfNoRoom

(* 05_buddy.c: the pages callers asked for are in the arena and nobody     *)
(* else's.                                                                 *)
BuddyImplementsBlocks == Buddy!ImplementsBlocks
=============================================================================
