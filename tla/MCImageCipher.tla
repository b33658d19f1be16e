--------------------------- MODULE MCImageCipher ---------------------------
(* A small instance of ImageCipher for TLC: blocks of two bytes, chunks of  *)
(* two blocks, pictures of up to three blocks.                              *)
EXTENDS ImageCipher
=============================================================================
