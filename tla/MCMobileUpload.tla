-------------------------- MODULE MCMobileUpload --------------------------
(***************************************************************************)
(* Two small instances of MobileUpload in one run; `scene` says which one   *)
(* an execution is about.                                                   *)
(*                                                                          *)
(*   "link"  one upload over a link that may damage bytes, across a session *)
(*           refresh                                                        *)
(*   "pair"  two uploads of one original in one session: duplicates, the    *)
(*           trash and the unique index                                     *)
(***************************************************************************)
EXTENDS MobileUpload, TLC

CONSTANTS u1, u2, s1, s2, photo

VARIABLE scene

MCPhotoOf == [u \in Uploads |-> photo]

\* The uploads of a pair are alike: u1 is reserved first.
Scene ==
    IF scene = "link"
    THEN mem.uploads[u2] = None
    ELSE /\ mem.sessions[s2] = "none" /\ s2 \notin expired
         /\ mem.uploads[u2] # None => mem.uploads[u1] # None
         /\ \A u \in Uploads : Intact(staged[u])

UploadInit == Init /\ scene \in {"link", "pair"}

UploadSpec == UploadInit /\ [][Next /\ UNCHANGED scene /\ Scene']_<<vars, scene>>
=============================================================================
