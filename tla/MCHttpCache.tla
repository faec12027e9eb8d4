---------------------------- MODULE MCHttpCache ----------------------------
(* A small instance of HttpCache: two articles, a browser, two PUTs and a    *)
(* POST /reset, within three seconds.                                         *)
EXTENDS HttpCache

CONSTANTS a1, a2, b1, p1, p2, r1, x, y

MCArticles == {a1, a2}
MCBrowsers == {b1}
MCPuts == {p1, p2}
MCResets == {r1}
MCBodies == {x, y}
============================================================================
