----------------------- MODULE MCHttpCacheInvalidation -----------------------
(* Small instances of HttpCacheInvalidation for TLC.                       *)
EXTENDS HttpCacheInvalidation

CONSTANTS b1, b2, a1, a2, w1, w2, r1

(* The mapping of a book with the association to a resource first, and     *)
(* with it after an association to a class that is no resource.            *)
MCAuthorFirst == <<"author", "file">>
MCFileFirst == <<"file", "author">>

MCUrls == ItemUrls \cup SubresourceUrls \cup {CollectionUrl}
MCBookUrls == {BookUrl(b) : b \in Books}
MCAuthorUrls == {AuthorUrl(a) : a \in Authors}
=============================================================================
