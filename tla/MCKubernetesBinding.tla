------------------------- MODULE MCKubernetesBinding -------------------------
(* Small instances of KubernetesBinding, whose constants are model values  *)
(* and numbers: they are given in the configuration.                       *)
EXTENDS KubernetesBinding
=============================================================================
