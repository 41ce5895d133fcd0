------------------------------ MODULE MCImages ------------------------------
(* Small instances of Images: a user with a supplier profile, a product    *)
(* and an additional image, a few uploads, one or two sizes of thumbnails, *)
(* and one retry or none.                                                   *)
EXTENDS Images, TLC

HandlerSymmetry == Permutations(Handlers)
=============================================================================
