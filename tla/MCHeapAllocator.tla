-------------------------- MODULE MCHeapAllocator --------------------------
(* The allocator on a memory of a few dozen words.                         *)
EXTENDS HeapAllocator

(* No elements, a few words, and a product that wraps to a few words.      *)
MCProducts == {<<0, 3>>, <<3, 1>>, <<3, 22>>}
============================================================================
