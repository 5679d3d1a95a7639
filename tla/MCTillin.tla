------------------------------ MODULE MCTillin ------------------------------
(***************************************************************************)
(* Instances for TLC of the modules about Tillin as a shared service:      *)
(* whose token a call is made with (Tenancy), what a client remembers of   *)
(* the catalogue (BrandCache), who edits a gallery (ProductGallery).  They *)
(* share no state, so a behaviour is about one of them.                    *)
(***************************************************************************)
EXTENDS Tenancy, BrandCache, ProductGallery, TLC

CONSTANTS member, operator, support, k1, k2, t1, t2

VARIABLE about

\* Two clients in the API process, one in the worker's.
TwoProcesses == [c \in Clients |-> IF c = "polling" THEN "worker" ELSE "api"]

TillinInit ==
  /\ about \in {"identity", "sites", "gallery"}
  /\ Init /\ SitesInit /\ GalleryInit
  /\ about # "identity" => home = [u \in Users |-> k1]

TillinNext ==
  /\ UNCHANGED about
  /\ \/ about = "identity" /\ Next /\ UNCHANGED <<sitesVars, galleryVars>>
     \/ about = "sites" /\ SitesNext /\ UNCHANGED <<vars, galleryVars>>
     \/ about = "gallery" /\ GalleryNext /\ UNCHANGED <<vars, sitesVars>>

Symmetry ==
  Permutations(Companies) \cup Permutations(Admins) \cup Permutations(Tasks)
=============================================================================
