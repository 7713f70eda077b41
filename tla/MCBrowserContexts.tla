------------------------- MODULE MCBrowserContexts --------------------------
(* Model values for the browser and its contexts. *)
EXTENDS BrowserContexts, TLC

(* Threads and pages are interchangeable. *)
Symmetry == Permutations(Threads) \cup Permutations(Pages)
=============================================================================
