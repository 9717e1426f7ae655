------------------------------ MODULE MCCatalogue ------------------------------
(***************************************************************************)
(* Two shops.  "a" has a collection page and a feed.  "b" has a feed at two *)
(* origins, the first of them disallowed, a search that is not admitted,   *)
(* and a sitemap that its robots file declares and that names another. A   *)
(* shop may answer each page with any of Pages: a full page, a full page   *)
(* whose first product has no handle, the same page again.  11 and 13 are  *)
(* a collection and a search, 12 and 14 sitemaps, 21 to 23 feeds.          *)
(***************************************************************************)
EXTENDS Catalogue

Entry(url, named, words, about) ==
    [url |-> url, named |-> named, words |-> words, about |-> about]

MCPaths == ("a" :> [collection_slug |-> {11}, site_search |-> {},
                    catalog_feed |-> {21}, sitemap |-> {}])
        @@ ("b" :> [collection_slug |-> {}, site_search |-> {13},
                    catalog_feed |-> {22, 23}, sitemap |-> {}])
MCOrigins == ("a" :> <<21>>) @@ ("b" :> <<22, 23>>)
MCDeclared == ("a" :> {}) @@ ("b" :> {12})
MCStrategy == (11 :> "collection_slug") @@ (12 :> "sitemap") @@ (14 :> "sitemap")
MCSeedDepth == [u \in Indexes |-> 0]
MCAdmitted == Products \cup Indexes
MCQueries == {{"bag", "red"}, {"bag"}}

MCPages == {<<Entry(1, TRUE, {"bag"}, {}), Entry(2, TRUE, {"bag", "red"}, {})>>,
            <<Entry(4, FALSE, {"bag"}, {}), Entry(3, TRUE, {}, {})>>}
Body(json, products, list, locs, links) ==
    [error |-> FALSE, json |-> json, products |-> products, list |-> list, locs |-> locs,
     links |-> links]
Plain(u) == Entry(u, TRUE, {}, {})
MCBodies == [u \in Products \cup Indexes |->
    CASE u = 11 -> {Body("products", <<Entry(3, TRUE, {}, {}), Entry(2, TRUE, {"bag"}, {"red"}),
                                       Entry(1, TRUE, {"bag"}, {})>>, <<>>, <<>>, <<>>)}
      [] u = 12 -> {Body("none", <<>>, <<>>, <<Plain(14), Plain(11), Plain(3), Plain(1)>>, <<>>)}
      [] u = 14 -> {Body("none", <<>>, <<>>, <<Plain(2)>>, <<>>)}
      [] u = 3 -> {[Body("none", <<>>, <<>>, <<>>, <<>>) EXCEPT !.error = TRUE]}
      [] OTHER -> {Body("none", <<>>, <<>>, <<>>, <<>>)}]
===============================================================================
