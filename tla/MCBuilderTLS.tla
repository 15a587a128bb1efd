---------------------------- MODULE MCBuilderTLS ----------------------------
(***************************************************************************)
(* A namespace of two builders for TLC.  The informer may trail for the CA *)
(* and for the Secret of builder x.                                        *)
(***************************************************************************)
EXTENDS BuilderTLS

CONSTANTS x, y, h1, h2

MCBuilders == {x, y}
MCLagging == {"ca", x}

=============================================================================
