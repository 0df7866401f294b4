------------------------------ MODULE MCPlugins ------------------------------
(* Plugins with a few of everything: the bounds are explained in the README. *)
EXTENDS Plugins

MCItems ==
  {[plugin |-> "p", scope |-> "all", types |-> {"key"}],
   [plugin |-> "q", scope |-> "private", types |-> {"secret", "key"}]}
MCKeyAlgorithm ==
  {[kty |-> "EC", size |-> 0], [kty |-> "RSA", size |-> 0], [kty |-> "RSA", size |-> 4]}
=============================================================================
