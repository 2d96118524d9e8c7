-------------------------------- MODULE Bundle --------------------------------
(***************************************************************************)
(* The messages of the ExtJS application: the bundle of the user's         *)
(* language, or the one without a language when there is none, before the  *)
(* application is launched; then the messages of each page, asked for by   *)
(* the components that open it, several at a time.                         *)
(*                                                                         *)
(* A message is its key; a component keeps the text it got when it was     *)
(* created.                                                                *)
(***************************************************************************)
EXTENDS Integers, FiniteSets

CONSTANTS
    Pages,    \* the pages with messages of their own
    PageOf    \* the page that each component opens

Components == DOMAIN PageOf

ASSUME PagesOpened == PageOf \in [Components -> Pages]

VARIABLES
    format,     \* of the bundle: "json" or "property"
    url,        \* what the bundle is read from: "language" or "parent"
    loading,    \* its request is in flight
    launched,   \* how often the application was launched
    messages,   \* where the messages come from that the bundle holds
    pagename,   \* the pages that it believes are loaded
    requests,   \* the components whose request for their page is in flight
    asked,      \* those that asked for it
    calledBack, \* those whose callback ran
    texts,      \* what they wrote when it ran
    misread     \* the pages that had an answer nobody could read

bundleVars == <<format, url, loading, launched, messages, pagename, requests, asked,
                calledBack, texts, misread>>
pages == <<pagename, requests, asked, calledBack, texts, misread>>

Application == "application"
Sources == Pages \union {Application}
NoText == "no text"

BundleTypeOK ==
    /\ format \in {"json", "property"}
    /\ url \in {"language", "parent"}
    /\ loading \in BOOLEAN
    /\ launched \in 0..1
    /\ messages \subseteq Sources
    /\ pagename \subseteq Pages /\ misread \subseteq Pages
    /\ requests \subseteq asked /\ calledBack \subseteq asked
    /\ asked \subseteq Components
    /\ texts \in [Components -> {NoText, "the message", "undefined"}]

\* The constructor, with autoLoad: its first request is on its way.
BundleInit ==
    /\ format \in {"json", "property"}
    /\ url = "language"
    /\ loading = TRUE
    /\ launched = 0
    /\ messages = {}
    /\ pagename = {}
    /\ requests = {} /\ asked = {} /\ calledBack = {}
    /\ texts = [c \in Components |-> NoText]
    /\ misread = {}

-----------------------------------------------------------------------------
\* The bundle of the application.

\* The listener of loaded, which onBeforeLaunch gave the bundle.
Launch == launched' = launched + 1

\* onBundleLoad, of a load that succeeded.
OnBundleLoad ==
    /\ loading
    /\ loading' = FALSE
    /\ messages' = {Application}
    /\ Launch
    /\ UNCHANGED <<format, url, pages>>

\* loadParent, on the first exception of the proxy only; after a second one
\* nothing is launched.
LoadParent ==
    /\ loading
    /\ url' = "parent"
    /\ loading' = (url = "language")
    /\ UNCHANGED <<format, launched, messages, pages>>

-----------------------------------------------------------------------------
\* The messages of a page.

\* getMsg: of a key nobody has loaded, the key and "undefined".
GetMsg(source, held) == IF source \in held THEN "the message" ELSE "undefined"

\* initConfig: the components of a page are configured with its messages once.
InitConfig(c, held) == texts' = [texts EXCEPT ![c] = GetMsg(PageOf[c], held)]

CallBack(c, held) ==
    /\ calledBack' = calledBack \union {c}
    /\ InitConfig(c, held)

\* Variant: the page counts as loaded as soon as it is asked for.
LoadPage_MarksAtOnce(c) ==
    /\ launched > 0 /\ c \notin asked
    /\ asked' = asked \union {c}
    /\ IF PageOf[c] \in pagename
         THEN CallBack(c, messages) /\ UNCHANGED <<requests, pagename>>
         ELSE /\ requests' = requests \union {c}
              /\ pagename' = pagename \union {PageOf[c]}
              /\ UNCHANGED <<calledBack, texts>>
    /\ UNCHANGED <<format, url, loading, launched, messages, misread>>

\* loadPtradsByPagename: a page that is only asked for is asked for again.
LoadPage(c) ==
    /\ launched > 0 /\ c \notin asked
    /\ asked' = asked \union {c}
    /\ IF PageOf[c] \in pagename
         THEN CallBack(c, messages) /\ UNCHANGED requests
         ELSE requests' = requests \union {c} /\ UNCHANGED <<calledBack, texts>>
    /\ UNCHANGED <<format, url, loading, launched, messages, pagename, misread>>

\* The readers: that of properties looks for the text of an answer, and finds no
\* message in the data of a page.
Adds(c, wellFormed) == IF wellFormed /\ format = "json" THEN {PageOf[c]} ELSE {}

\* Its success: the data is added, and the page counts as loaded even when
\* nothing could be read.
PageLoaded(c, wellFormed) ==
    /\ c \in requests
    /\ requests' = requests \ {c}
    /\ messages' = messages \union Adds(c, wellFormed)
    /\ misread' = misread \union ({PageOf[c]} \ Adds(c, wellFormed))
    /\ pagename' = pagename \union {PageOf[c]}
    /\ CallBack(c, messages')
    /\ UNCHANGED <<format, url, loading, launched, asked>>

\* It has no failure function: the component waits for ever.
PageFails(c) ==
    /\ c \in requests
    /\ requests' = requests \ {c}
    /\ UNCHANGED <<format, url, loading, launched, messages, pagename, asked, calledBack,
                   texts, misread>>

BundleNext ==
    \/ OnBundleLoad
    \/ LoadParent
    \/ \E c \in Components :
         \/ LoadPage(c)
         \/ \E wellFormed \in BOOLEAN : PageLoaded(c, wellFormed)
         \/ PageFails(c)

BundleSpec == BundleInit /\ [][BundleNext]_bundleVars

-----------------------------------------------------------------------------
\* Properties.

\* In whatever order the answers of pages asked for at the same time come, a
\* component that was called back found the messages of its page, unless an
\* answer for that page could not be read; and none is called back before there
\* is an application, with messages of its own.
CalledBackWithMessages ==
    \A c \in calledBack :
      /\ texts[c] = "the message" \/ PageOf[c] \in misread
      /\ launched = 1 /\ Application \in messages

================================================================================
