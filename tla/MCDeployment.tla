----------------------------- MODULE MCDeployment -----------------------------
(***************************************************************************)
(* A small instance of Deployment: two sites in a file, each fault an      *)
(* operator may put in it or in the environment, and the one site of a     *)
(* gateway without a file.                                                 *)
(***************************************************************************)
EXTENDS Deployment

Secret(name, bytes) == [name |-> name, bytes |-> bytes]
Name(labels) == [labels |-> labels, upper |-> FALSE, port |-> FALSE, dot |-> FALSE]

Shop == [key |-> "shop", secret |-> Secret("shop", 16), hosts |-> {[wild |-> FALSE,
           host |-> [Name(<<"shop", "org">>) EXCEPT !.upper = TRUE]]},
         bind |-> TRUE, tokenTTL |-> 0, challengeTTL |-> 900, rateLimit |-> 0,
         thresholds |-> NoPolicy]
Blog == [key |-> "blog", secret |-> Secret("blog", 40), hosts |-> {[wild |-> TRUE,
           host |-> [Name(<<"blog", "org">>) EXCEPT !.dot = TRUE]]},
         bind |-> FALSE, tokenTTL |-> 30, challengeTTL |-> 0, rateLimit |-> 5,
         thresholds |-> [pow |-> 20, interactive |-> 0, block |-> 100]]

Plain ==
    [env |-> {"production"}, signing |-> {Secret("first", 32)}, kid |-> {"k0"},
     previous |-> {}, binding |-> {Secret("binding", 32)}, file |-> {<<Shop, Blog>>},
     siteKey |-> {}, siteSecret |-> {}, hosts |-> {}, bind |-> {}, trusted |-> {"edge"},
     malformed |-> {}]
WithBlog(b) == [Plain EXCEPT !.file = {<<Shop, b>>}]

Blogs ==
    {[Blog EXCEPT !.key = k] : k \in {"", "shop", "more than 128 bytes"}}
    \cup {[Blog EXCEPT !.secret = s] : s \in {Secret("blog", 15), Secret("change_me", 40), Shop.secret}}
    \cup {[Blog EXCEPT !.hosts = {}]}
    \cup {[Blog EXCEPT !.tokenTTL = n] : n \in {-1, 29, 600, 601}}
    \cup {[Blog EXCEPT !.challengeTTL = n] : n \in {-1, 29, 901}}
    \cup {[Blog EXCEPT !.rateLimit = -1]}
    \cup {[Blog EXCEPT !.thresholds = t] :
             t \in {[pow |-> 70, interactive |-> 0, block |-> 0],
                    [pow |-> -5, interactive |-> 31, block |-> 101],
                    [pow |-> 10, interactive |-> 92, block |-> 0]}}

Alone == [Plain EXCEPT !.file = {}, !.env = {}, !.signing = {}, !.kid = {}, !.binding = {}]

MCEnvironments ==
    {Plain, Alone, [Plain EXCEPT !.binding = {}]}
    \cup {WithBlog(b) : b \in Blogs}
    \cup {[WithBlog([Blog EXCEPT !.secret = Secret("change_me", 23)]) EXCEPT !.env = e] :
            e \in {{"Production"}, {"staging"}, {}}}
    \cup {[Plain EXCEPT !.env = e, !.signing = {}] : e \in {{"production"}, {"Production"}, {}}}
    \cup {[Plain EXCEPT !.signing = {Secret("short", 31)}],
          [Plain EXCEPT !.binding = {Secret("short", 31)}],
          [Plain EXCEPT !.malformed = {"trusted proxies"}],
          [Plain EXCEPT !.file = {<<>>}],
          [Plain EXCEPT !.previous = {[k \in {"k0"} |-> Secret("first", 32)]}],
          [Plain EXCEPT !.previous = {[k \in {"k9"} |-> Secret("old", 31)]}],
          [Plain EXCEPT !.previous = {[k \in {"k9"} |-> Secret("old", 32)]}],
          [Alone EXCEPT !.env = {"Production"}, !.signing = {Secret("first", 32)}],
          [Alone EXCEPT !.siteKey = {"shop"}, !.siteSecret = {Secret("shop", 16)},
                        !.hosts = {Shop.hosts}, !.bind = {FALSE}]}

Visit(site, page, expected, origin, address, route) ==
    [site |-> site, page |-> page, expected |-> expected, origin |-> origin,
     address |-> address, route |-> route]
Route(peer, cf, forwarded) == [peer |-> peer, cf |-> cf, forwarded |-> forwarded]

ShopPage == Name(<<"shop", "org">>)
BlogPage == Name(<<"en", "blog", "org">>)

MCVisits ==
    {Visit("shop", ShopPage, [ShopPage EXCEPT !.dot = TRUE], {ShopPage}, "home",
           Route("home", "lan", <<"lan">>)),
     Visit("shop", [ShopPage EXCEPT !.port = TRUE], ShopPage, {}, "home",
           Route("edge", "junk", <<"junk", "home", "lan">>)),
     Visit("shop", ShopPage, [ShopPage EXCEPT !.upper = TRUE],
           {[ShopPage EXCEPT !.port = TRUE]}, "home", Route("edge", "home", <<"lan">>)),
     Visit("blog", [BlogPage EXCEPT !.dot = TRUE], BlogPage, {BlogPage}, "home",
           Route("home", "junk", <<>>)),
     Visit("blog", Name(<<"blog", "org">>), Name(<<"blog", "org">>), {}, "home",
           Route("home", "junk", <<>>)),
     Visit("bs_dev_public", Name(<<"localhost">>), Name(<<"localhost">>), {}, "home",
           Route("home", "junk", <<>>))}

MCNewKeys == [kid : {"k0", "k1"}, secret : {Secret("second", 32), Secret("third", 32)}]

=============================================================================
