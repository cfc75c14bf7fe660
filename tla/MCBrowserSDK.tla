----------------------------- MODULE MCBrowserSDK -----------------------------
(* A small instance of BrowserSDK for TLC. *)
EXTENDS BrowserSDK

\* A keyboard's variance, the largest one accepted, and one above it.
MCVariance == {0, 10, 11}

=============================================================================
