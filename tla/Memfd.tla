------------------------------- MODULE Memfd --------------------------------
(***************************************************************************)
(* 10_ipc_memory/06_memfd_create.c: a memfd is sized, mapped, written      *)
(* through the mapping, sealed and unmapped.  The kernel refuses           *)
(* F_SEAL_WRITE (EBUSY, and then adds none of the seals asked for) while   *)
(* the file has a writable shared mapping.                                 *)
(***************************************************************************)
EXTENDS Naturals

Seals == {"F_SEAL_SHRINK", "F_SEAL_GROW", "F_SEAL_WRITE"}

VARIABLES pc,      \* the next statement of main()
          exists,  \* whether the memfd is open
          mapped,  \* whether it is mapped, shared and writable
          content,
          seals

vars == <<pc, exists, mapped, content, seals>>

Init == /\ pc = "create"
        /\ exists = FALSE
        /\ mapped = FALSE
        /\ content = "empty"
        /\ seals = {}

(* memfd_create() with MFD_ALLOW_SEALING, and ftruncate() *)
Create == /\ pc = "create"
          /\ \/ exists' = TRUE /\ pc' = "mmap"
             \/ exists' = FALSE /\ pc' = "failed"
          /\ UNCHANGED <<mapped, content, seals>>

(* mmap(), which is not checked, and strcpy(), which then dies. *)
MmapAndWrite == /\ pc = "mmap"
                /\ \/ mapped' = TRUE /\ content' = "hello" /\ pc' = "seal"
                   \/ pc' = "segv" /\ UNCHANGED <<mapped, content>>
                /\ UNCHANGED <<exists, seals>>

(* fcntl(F_ADD_SEALS); a failure is reported and main() goes on. *)
AddSeals == /\ pc = "seal"
            /\ seals' = IF mapped THEN seals ELSE seals \cup Seals
            /\ pc' = "munmap"
            /\ UNCHANGED <<exists, mapped, content>>

MunmapAndClose == /\ pc = "munmap"
                  /\ mapped' = FALSE
                  /\ exists' = FALSE
                  /\ pc' = "exited"
                  /\ UNCHANGED <<content, seals>>

Next == Create \/ MmapAndWrite \/ AddSeals \/ MunmapAndClose

Spec == Init /\ [][Next]_vars /\ WF_vars(Next)
-----------------------------------------------------------------------------
(* "lock down further changes to the size / content" (the comment before   *)
(* the call): after it the file has the seals.  It has none, because main()*)
(* asks for them before it unmaps the file.                                *)
LockedDown == pc = "munmap" => seals = Seals
=============================================================================
