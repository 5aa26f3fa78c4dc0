--------------------------- MODULE InterestProfile ---------------------------
(***************************************************************************)
(* A project's interest profile (backend/feed): seeded by a model from the *)
(* focus seed on the first read that finds it empty, saved by the          *)
(* researcher, and unioned weekly with what a model makes of the library.  *)
(* A read that seeds holds its transaction open over the model call; the   *)
(* re-extraction reads in one transaction and writes in another. Both      *)
(* write back the profile they computed from what they read.               *)
(***************************************************************************)
EXTENDS Naturals

CONSTANTS
    Terms,      \* categories and keywords
    Readers,    \* callers of get_interest_profile: the route, a poll, a re-extraction
    MaxSaves,   \* bound: the researcher's saves
    None        \* no read pending

VARIABLES
    profile,    \* projects.interest_profile
    seeding,    \* readers that found it empty and wait for the model
    reextract,  \* the profile interest_profile_reextract_job read
    fresh,      \* the re-extraction started from the profile as it is
    edited      \* saves so far

vars == <<profile, seeding, reextract, fresh, edited>>

TypeOK ==
    /\ profile \subseteq Terms /\ seeding \subseteq Readers
    /\ reextract \in (SUBSET Terms) \cup {None}
    /\ fresh \in BOOLEAN /\ edited \in 0 .. MaxSaves

Init ==
    /\ profile = {} /\ seeding = {} /\ reextract = None
    /\ fresh = FALSE /\ edited = 0

\* get_interest_profile on an empty profile: the row is read, then the model asked.
GetProfile(r) ==
    /\ r \notin seeding /\ profile = {}
    /\ seeding' = seeding \cup {r}
    /\ UNCHANGED <<profile, reextract, fresh, edited>>

\* _seed_from_focus_seed; a model that fails seeds the empty profile.
SeedProfile(r) ==
    /\ r \in seeding
    /\ \E seed \in SUBSET Terms :
          /\ profile' = seed
          /\ fresh' = (fresh /\ seed \subseteq reextract)
    /\ seeding' = seeding \ {r}
    /\ UNCHANGED <<reextract, edited>>

\* update_interest_profile behind PUT .../interest-profile.
UpdateInterestProfile(terms) ==
    /\ edited < MaxSaves /\ edited' = edited + 1
    /\ profile' = terms /\ fresh' = FALSE
    /\ UNCHANGED <<seeding, reextract>>

(***************************************************************************)
(* interest_profile_reextract_job.                                         *)
(***************************************************************************)
ReextractRead ==
    /\ reextract = None
    /\ reextract' = profile /\ fresh' = TRUE
    /\ UNCHANGED <<profile, seeding, edited>>

\* Mutant: the extraction replaces the profile.
ReextractWrite_Replace ==
    /\ reextract # None
    /\ \E extraction \in SUBSET Terms : profile' = extraction
    /\ reextract' = None /\ fresh' = FALSE
    /\ UNCHANGED <<seeding, edited>>

ReextractWrite ==
    /\ reextract # None
    /\ \E extraction \in SUBSET Terms : profile' = reextract \cup extraction
    /\ reextract' = None /\ fresh' = FALSE
    /\ UNCHANGED <<seeding, edited>>

\* The model fails, or the job is gone: the profile is kept.
ReextractFails ==
    /\ reextract # None
    /\ reextract' = None /\ fresh' = FALSE
    /\ UNCHANGED <<profile, seeding, edited>>

Next ==
    \/ ReextractRead \/ ReextractWrite \/ ReextractFails
    \/ \E r \in Readers : GetProfile(r) \/ SeedProfile(r)
    \/ \E terms \in SUBSET Terms : UpdateInterestProfile(terms)

Spec == Init /\ [][Next]_vars

(***************************************************************************)
(* Properties.                                                             *)
(***************************************************************************)
ReextractEnds == reextract # None /\ reextract' = None

\* The re-extraction only adds, as long as nobody saved or seeded since it
\* read: a manual edit made in between is lost.
AdditiveIfUndisturbed == [][ReextractEnds /\ fresh => profile \subseteq profile']_vars
=============================================================================
