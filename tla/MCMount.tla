------------------------------ MODULE MCMount ------------------------------
(* Two inodes beside the directory.                                         *)
EXTENDS Mount

\* Bound: from the first listing on, for which owners and permissions are nothing, all
\* inodes have those of the defaults.
PlainWhenListed ==
    listing.state # "none" =>
        \A i \in Inos : attr[i].perm = NoPerm /\ attr[i].uid = RootUser
=============================================================================
