------------------------------ MODULE MCDisk45 ------------------------------
(***************************************************************************)
(* Instances of Disk45: four data sectors, two entries in a directory      *)
(* sector and three names, so that the third file extends the directory    *)
(* and takes its sector from the files.                                    *)
(***************************************************************************)
EXTENDS Disk45

CONSTANTS fa, fb, fc, v, zero

MCNames == {fa, fb, fc}
MCValues == {v, zero}
MCWriteData == {v}

\* A copy brings two files, the second of two sectors.
MCCopyLists ==
    {<<[name |-> f, content |-> <<v>>], [name |-> g, content |-> <<v, v>>]>> :
        <<f, g>> \in {p \in MCNames \X MCNames : p[1] # p[2]}}

\* The names play no part but as themselves.
NameSymmetry == Permutations(MCNames)

\* The reply is an observation that no action reads.
WithoutReply == <<mounted, g_img, saved>>
=============================================================================
