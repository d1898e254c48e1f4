--------------------------- MODULE MCProxyPipeline ---------------------------
(* ProxyPipeline on one or two requests.                                    *)
EXTENDS ProxyPipeline
=============================================================================
