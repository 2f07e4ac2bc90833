----------------------------- MODULE MCAlgorithms -----------------------------
(* The pure parts on bounded inputs, with the catalogue of models.rs.         *)
(*                                                                           *)
(* Health only takes products of 0.6, 0.9 and 0.95, so the configuration      *)
(* draws Scores from those: 0.6 * 0.9 and 0.95^12 are within the tolerance of *)
(* each other, as are the neighbours of 0.95^120, 0.95^130, 0.95^149.         *)
EXTENDS Algorithms, ModelCatalogue
===============================================================================
