---------------------------- MODULE MCFetchStream ----------------------------
(* A small instance of FetchStream for TLC.                                *)
EXTENDS FetchStream

MCOptions ==
  {o \in [maxRedirects : 0..2, disableRedirects : BOOLEAN,
          asyncDnsLoookup : BOOLEAN, maxResponseLength : {0, 1, 3}] :
     o.disableRedirects => o.maxRedirects = 0}
MCBodyLengths == 0..6
=============================================================================
