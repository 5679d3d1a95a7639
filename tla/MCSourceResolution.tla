-------------------------- MODULE MCSourceResolution --------------------------
EXTENDS SourceResolution

CONSTANTS p1, p2, p3

McPages == {p1, p2, p3}
McSiteOf == [p \in McPages |-> IF p = p3 THEN 2 ELSE 1]

\* Two pages on the first site, the second without JSON-LD: a barcode, a sibling color
\* beside the color, or a longer code that bears the color beside a sibling.  One on the
\* other site, of a sibling color, which may keep its visitors waiting, or of another
\* product.
Facts(says, bears, p, waiting) ==
  [says |-> says, bears |-> bears, jsonld |-> p # p2, busy |-> waiting]
Pairs == {<<"barcode", TRUE, "reference", FALSE>>, <<"reference", FALSE, "reference", TRUE>>,
          <<"contained", TRUE, "reference", FALSE>>}
Thirds == {<<"reference", FALSE>>, <<"reference", TRUE>>, <<"title", FALSE>>}

McWorlds ==
  {[p \in McPages |-> CASE p = p1 -> Facts(f[1], f[2], p, FALSE)
                        [] p = p2 -> Facts(f[3], f[4], p, FALSE)
                        [] p = p3 -> Facts(h[1], FALSE, p, h[2])] : f \in Pairs, h \in Thirds}

Usual == [method |-> "auto", firecrawl |-> TRUE, claude |-> TRUE, copy |-> TRUE,
          images |-> TRUE, color |-> TRUE, online |-> TRUE, override |-> NoPage]

McConfigs ==
  {[Usual EXCEPT !.method = m] : m \in {"auto", "shopify_json", "firecrawl"}}
  \cup {[Usual EXCEPT !.method = m, !.firecrawl = FALSE] : m \in {"auto", "firecrawl"}}
  \cup {[Usual EXCEPT !.method = m, !.color = FALSE] : m \in {"auto", "firecrawl"}}
  \cup {[Usual EXCEPT !.claude = FALSE], [Usual EXCEPT !.copy = FALSE],
        [Usual EXCEPT !.images = FALSE], [Usual EXCEPT !.online = FALSE],
        [Usual EXCEPT !.override = p2],
        [Usual EXCEPT !.copy = FALSE, !.images = FALSE]}
===============================================================================
