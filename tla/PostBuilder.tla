--------------------------- MODULE PostBuilder ---------------------------
(***************************************************************************)
(* PostBuilder::send (embed.rs): it checks what was composed, uploads the  *)
(* media of the one kind there may be, builds the embed and writes the     *)
(* post.  The PDS, the page a link card is made of, and the video service  *)
(* answer as they like.                                                    *)
(***************************************************************************)
EXTENDS Repo, SequencesExt

CONSTANTS
  PostDrafts,   \* [images, video, external, quote, text]: what a caller may build
  MaxImages,    \* MAX_IMAGES
  MaxPolls      \* VIDEO_POLL_ATTEMPTS

ASSUME MaxImagesAssumption == MaxImages \in Nat
ASSUME DraftsAssumption ==
  \A p \in PostDrafts :
    /\ p.images \in Seq(Range(p.images)) /\ p.video \in BOOLEAN
    /\ p.external # Nil =>
         LET page == p.external.page IN
         page \in Seq(Range(page)) /\ \A tag \in Range(page) : tag.content # Nil
ASSUME PollsAssumption == MaxPolls \in Nat
ASSUME TitleAssumption == Nil # "given"

\* post.images: for each image its MIME type as declared or sniffed from its
\* bytes, Nil for neither; post.external: Nil, or [fetch, page], a card as given
\* or one to make of the page fetched, a sequence of tags [key, content].

VARIABLES
  post,      \* The builder, as send takes it over
  blobs,     \* Blobs the PDS or the video service stored, in order: [of, mime]
  media,     \* The media embedded so far: sequence of [of, mime, blob], or the card
  polls,     \* Job states asked for
  step       \* Where send stands, At("...") or, failed there, Error("...")

postVars == <<post, blobs, media, polls, step>>

At(s)    == <<"at", s>>
Error(s) == <<"error", s>>

Steps == {"check", "images", "external", "thumb", "video", "poll", "text", "write"}

PostInit ==
  /\ post \in PostDrafts
  /\ blobs = <<>> /\ media = <<>> /\ polls = 0
  /\ step = At("check")

Kinds(p) == {k \in {"images", "video", "external"} :
               \/ k = "images"   /\ p.images # <<>>
               \/ k = "video"    /\ p.video
               \/ k = "external" /\ p.external # Nil}

\* send's checks, made before anything is sent.
SendPost ==
  /\ step = At("check")
  /\ step' = CASE \/ \E k, l \in Kinds(post) : k # l
                  \/ Len(post.images) > MaxImages -> Error("check")
               [] Kinds(post) = {}               -> At("text")
               [] OTHER                          -> At(CHOOSE k \in Kinds(post) : TRUE)
  /\ UNCHANGED <<post, blobs, media, polls, repo>>

\* upload_blob and set_blob_mime: the PDS records a type of its own, and what is
\* embedded is stamped with the known one.
Stored(of) == Append(blobs, [of |-> of, mime |-> "*/*"])
Embedded(of, mime) ==
  Append(media, [of |-> of, blob |-> Len(blobs) + 1,
                 mime |-> IF mime = Nil THEN "*/*" ELSE mime])

\* Mutant: an image that cannot be uploaded is left out.
UploadImageOrSkip ==
  /\ step = At("images")
  /\ LET i == Len(media) + 1 IN
     \/ /\ blobs' = Stored(i) /\ media' = Embedded(i, post.images[i])
        /\ step' = IF i = Len(post.images) THEN At("text") ELSE At("images")
     \/ /\ step' = At("text") /\ UNCHANGED <<blobs, media>>
  /\ UNCHANGED <<post, polls, repo>>

\* upload_images: one image after the other.
UploadImage ==
  /\ step = At("images")
  /\ LET i == Len(media) + 1 IN
     \/ /\ blobs' = Stored(i) /\ media' = Embedded(i, post.images[i])
        /\ step' = IF i = Len(post.images) THEN At("text") ELSE At("images")
     \/ /\ step' = Error("images") /\ UNCHANGED <<blobs, media>>
  /\ UNCHANGED <<post, polls, repo>>

-----------------------------------------------------------------------------
\* A link card.

\* extract_link_meta: the first meta tag, by the precedence of `keys`, whose
\* content is not empty; of one key the first such tag.  A key stands for every
\* spelling the code takes for it (og:image:url for og:image).
FirstOf(page, keys) ==
  LET given(k) == {i \in 1..Len(page) : page[i].key = k /\ page[i].content # ""}
      found    == {k \in 1..Len(keys) : given(keys[k]) # {}}
      lowest(S) == CHOOSE i \in S : \A j \in S : i <= j
  IN  IF found = {} THEN Nil
      ELSE page[lowest(given(keys[lowest(found)]))].content

\* extract_title_tag: the page's first title element decides, even an empty one
\* (of white space, or never closed) before another.
TitleTag(page) ==
  LET titles == {i \in 1..Len(page) : page[i].key = "title"}
      first  == CHOOSE i \in titles : \A j \in titles : i <= j
  IN  IF titles = {} \/ page[first].content = "" THEN Nil ELSE page[first].content

LinkMeta(page) ==
  LET given == FirstOf(page, <<"og:title", "twitter:title">>) IN
  [title |-> IF given # Nil THEN given ELSE TitleTag(page),
   image |-> FirstOf(page, <<"og:image", "twitter:image">>)]

Card(title, thumb) == <<[title |-> title, thumb |-> thumb]>>

\* build_external: a card given as it is, or a page to fetch, retried by nobody.
\* Of a page longer than LINK_CARD_HTML_LIMIT the bytes beyond it are cut off, and
\* a cut in the middle of a character ends the call with a panic.
BuildExternal ==
  /\ step = At("external")
  /\ IF ~post.external.fetch
     THEN media' = Card("given", Nil) /\ step' = At("text")
     ELSE \/ /\ media' = Card(LinkMeta(post.external.page).title, Nil)
             /\ step' = IF LinkMeta(post.external.page).image = Nil THEN At("text") ELSE At("thumb")
          \/ media' = media /\ step' \in {Error("external"), At("panicked")}
  /\ UNCHANGED <<post, blobs, polls, repo>>

\* fetch_and_upload_thumb: whatever is wrong with it (not found, too large, not
\* uploaded), the card goes on without it.
Thumb ==
  /\ step = At("thumb")
  /\ \/ /\ blobs' = Stored("thumb")
        /\ media' = Card(media[1].title, Len(blobs) + 1)
     \/ UNCHANGED <<blobs, media>>
  /\ step' = At("text")
  /\ UNCHANGED <<post, polls, repo>>

-----------------------------------------------------------------------------
\* A video.

JobStates == [state : {"COMPLETED", "FAILED", "other"}, blob : BOOLEAN]

\* finished_blob of a job's state, and what upload_video_blob does next: a failed
\* job or a completed one without a blob is an error, a blob ends the wait even
\* early, and the last poll ends it without one.
JobDone(job, at) ==
  IF job.blob /\ job.state # "FAILED"
  THEN /\ blobs' = Stored("video") /\ media' = Embedded("video", Nil) /\ step' = At("text")
  ELSE /\ step' = IF job.state # "other" \/ polls' = MaxPolls THEN Error(at) ELSE At("poll")
       /\ UNCHANGED <<blobs, media>>

\* upload_video_blob up to its loop: the audience, a token, the upload, whose
\* answer may already hold the finished blob, and a token for the polls.  Each
\* may fail, and an answer that is no job is an error too.
UploadVideo ==
  /\ step = At("video")
  /\ polls' = 0
  /\ \/ step' = Error("video") /\ UNCHANGED <<blobs, media>>
     \/ \E job \in JobStates : JobDone(job, "video")
  /\ UNCHANGED <<post, repo>>

\* Mutant: the wait starts anew while the service shows progress.
PollWhileProgress ==
  /\ step = At("poll")
  /\ polls' \in {0, polls + 1}
  /\ \/ step' = Error("poll") /\ UNCHANGED <<blobs, media>>
     \/ \E job \in JobStates : JobDone(job, "poll")
  /\ UNCHANGED <<post, repo>>

\* One turn of the poll loop; a state that cannot be read is an error.
Poll ==
  /\ step = At("poll")
  /\ polls' = polls + 1
  /\ \/ step' = Error("poll") /\ UNCHANGED <<blobs, media>>
     \/ \E job \in JobStates : JobDone(job, "poll")
  /\ UNCHANGED <<post, repo>>

-----------------------------------------------------------------------------
\* assemble_embed: the media, the quoted record, or both in one.
AssembleEmbed ==
  [media |-> media, record |-> post.quote]

\* Facets are detected in a text that is not empty, which may fail; then the post
\* is written (post_record).
WritePost(outcome) ==
  /\ step = At("text")
  /\ \/ post.text /\ step' = Error("text") /\ UNCHANGED repo
     \/ /\ repo' = Created([embed |-> AssembleEmbed, text |-> post.text], outcome)
        /\ step' = IF outcome = "ok" THEN At("sent") ELSE Error("write")
  /\ UNCHANGED <<post, blobs, media, polls>>

PostStep ==
  \/ UploadImage
  \/ BuildExternal
  \/ Thumb
  \/ UploadVideo
  \/ Poll
  \/ \E outcome \in Outcomes : WritePost(outcome)

PostNext == SendPost \/ PostStep

PostSpec == PostInit /\ repo = <<>> /\ [][PostNext]_<<postVars, repo>>

PostFairness == WF_<<postVars, repo>>(PostStep)

-----------------------------------------------------------------------------
\* Every og:title and twitter:title is empty, and so is the first title element.
Untitled(page) ==
  /\ \A tag \in Range(page) : tag.key \in {"og:title", "twitter:title"} => tag.content = ""
  /\ \A i \in 1..Len(page) :
       page[i].key = "title" /\ page[i].content # "" =>
         \E j \in 1..(i - 1) : page[j].key = "title"

\* A call leaves at most one post, none if it failed before the write itself, and
\* the post carries exactly what was composed: every image, in the order given and
\* with its own blob, a video only with a blob the service made for it, a card
\* with a thumbnail that was stored or none and without a title only if the page's
\* meta tags and its first title element give none, beside the quoted record.
EmbedsAsComposed ==
  step # At("check") =>
  /\ Len(repo) <= 1
  /\ repo # <<>> => step \in {At("sent"), Error("write")}
  /\ step = At("sent") => repo # <<>>
  /\ \A r \in 1..Len(repo) :
    LET embed == repo[r].embed IN
    /\ embed.record = post.quote
    /\ post.images # <<>> => Len(embed.media) = Len(post.images)
    /\ post.video \/ post.external # Nil => Len(embed.media) = 1
    /\ \A i \in 1..Len(post.images) :
         /\ blobs[embed.media[i].blob].of = i
         /\ post.images[i] # Nil => embed.media[i].mime = post.images[i]
    /\ post.video => /\ embed.media[1].blob \in 1..Len(blobs)
                     /\ blobs[embed.media[1].blob].of = "video"
    /\ post.external # Nil =>
         /\ embed.media[1].thumb # Nil => blobs[embed.media[1].thumb].of = "thumb"
         /\ embed.media[1].title = Nil => Untitled(post.external.page)

\* send comes to an end, sent, failed or panicked: a video job that is never done
\* is waited for only as many polls as the code allows, provided the requests are
\* answered or time out.
SendEnds ==
  step # At("check") ~>
    (step \in {At("sent"), At("panicked")} \/ \E s \in Steps : step = Error(s))
============================================================================
