------------------------------- MODULE Paging -------------------------------
(***************************************************************************)
(* The page-frame manager (src/memory/paging.c): the map of used physical  *)
(* frames with its counter of free ones, and one page directory per        *)
(* process.  All pages are 4 MiB, so a directory is a function from page   *)
(* index to the frame its entry names (lower_address).  An entry that was  *)
(* never written reads as frame 0, exactly as the zeroed table of the code *)
(* does; frame 0 holds the kernel.                                         *)
(***************************************************************************)
EXTENDS Integers, FiniteSets

CONSTANTS
  PAGE_FRAME_MAX_COUNT,  \* physical frames of the machine
  KERNEL_PAGE_COUNT,     \* frames of the kernel image, from frame 0
  HEAP_PAGE_COUNT,       \* frames of the kernel heap, right after it
  MAX_PROCESS,           \* slots of the process table
  MAX_PROCESS_FRAMES,    \* most pages one process may own
  HEAP_INDEX,            \* page index of HEAP_VMEMORY_OFFSET (0x2C0)
  KERNEL_INDEX           \* page index of KERNEL_VMEMORY_OFFSET (0x300)

Reserved == KERNEL_PAGE_COUNT + HEAP_PAGE_COUNT

ASSUME PagingAssumption ==
  /\ KERNEL_PAGE_COUNT \in Nat \ {0}
  /\ HEAP_PAGE_COUNT \in Nat
  /\ PAGE_FRAME_MAX_COUNT \in Nat
  /\ Reserved <= PAGE_FRAME_MAX_COUNT
  /\ MAX_PROCESS \in Nat \ {0}
  /\ MAX_PROCESS_FRAMES \in Nat
  /\ KERNEL_PAGE_COUNT <= MAX_PROCESS_FRAMES
  /\ HEAP_INDEX \in Nat
  /\ KERNEL_INDEX \in Nat
  /\ MAX_PROCESS_FRAMES <= HEAP_INDEX
  /\ HEAP_INDEX + HEAP_PAGE_COUNT <= KERNEL_INDEX

Frame == 0 .. PAGE_FRAME_MAX_COUNT - 1
Pid   == 0 .. MAX_PROCESS - 1
Index == 0 .. KERNEL_INDEX + MAX_PROCESS - 1

VARIABLES
  page_frame_map,         \* the frames marked used
  free_page_frame_count,  \* how many are not
  page_dir                \* process_page_dir: a directory for each slot

pagingVars == <<page_frame_map, free_page_frame_count, page_dir>>

\* The directory of the kernel once the heap is mapped: page 0 and the
\* kernel's page both name frame 0.
KernelDirectory ==
  [i \in Index |-> IF i \in HEAP_INDEX .. HEAP_INDEX + HEAP_PAGE_COUNT - 1
                   THEN KERNEL_PAGE_COUNT + (i - HEAP_INDEX)
                   ELSE 0]

\* memory_initialize, then paging_dirtable_init of the kernel's directory.
PagingInit ==
  /\ page_frame_map = 0 .. Reserved - 1
  /\ free_page_frame_count = PAGE_FRAME_MAX_COUNT - Reserved
  /\ page_dir = [p \in Pid |-> IF p = 0 THEN KernelDirectory
                                        ELSE [i \in Index |-> 0]]

\* What paging_dir_update leaves in directory d: it does nothing when the
\* physical frame is already used.
DirUpdate(phys, virt, d) ==
  IF phys \in page_frame_map THEN d ELSE [d EXCEPT ![virt] = phys]

\* Faulty: the entry is not copied.
CloneEntryOmitted(virt, src, dest) == dest

\* What paging_clone_directory_entry leaves in directory dest.
CloneEntry(virt, src, dest) == [dest EXCEPT ![virt] = src[virt]]

\* paging_allocate_check
AllocateCheck(amount) == free_page_frame_count >= amount

\* The frame the search of paging_allocate_page_frame stops at.
IsFirstFree(f) == f \notin page_frame_map /\ 0 .. f - 1 \subseteq page_frame_map

\* Faulty: the frame is handed out and not marked.
AllocateUnmarked(p, virt) ==
  \E f \in Frame :
    /\ IsFirstFree(f)
    /\ page_dir' = [page_dir EXCEPT ![p] = DirUpdate(f, virt, page_dir[p])]
    /\ UNCHANGED <<page_frame_map, free_page_frame_count>>

\* paging_allocate_page_frame(virt, &process_page_dir[p])
AllocatePageFrame(p, virt) ==
  \E f \in Frame :
    /\ IsFirstFree(f)
    /\ page_dir' = [page_dir EXCEPT ![p] = DirUpdate(f, virt, page_dir[p])]
    /\ page_frame_map' = page_frame_map \cup {f}
    /\ free_page_frame_count' = free_page_frame_count - 1

\* Faulty: the frame is given back and not counted.
FreeUncounted(p, virt) ==
  /\ page_dir' = [page_dir EXCEPT ![p] = DirUpdate(0, virt, page_dir[p])]
  /\ page_frame_map' = page_frame_map \ {page_dir[p][virt]}
  /\ UNCHANGED free_page_frame_count

\* paging_free_page_frame(virt, &process_page_dir[p]).  The update of the
\* directory is asked for physical address 0.
FreePageFrame(p, virt) ==
  LET f == page_dir[p][virt]
  IN  IF f \notin page_frame_map
      THEN UNCHANGED pagingVars
      ELSE /\ page_dir' = [page_dir EXCEPT ![p] = DirUpdate(0, virt, page_dir[p])]
           /\ page_frame_map' = page_frame_map \ {f}
           /\ free_page_frame_count' = free_page_frame_count + 1
=============================================================================
