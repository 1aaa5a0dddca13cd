---------------------------- MODULE GammaEndpoints ----------------------------
(***************************************************************************)
(* The single-request operations of package gamma: catalogue reads, all    *)
(* through polyhttp without authentication and without retry.              *)
(***************************************************************************)
EXTENDS Endpoints

Catalogue == Plain("GET")

\* validateOffset: limit and offset, with or without a largest offset.
validateOffset(bounded) ==
    {"limit and offset nonnegative"} \cup (IF bounded THEN {"offset within the boundary"} ELSE {})
\* validateFilters of events and of markets
validateVersions == {"at most two versions", "known versions"}
validateFilters == validateVersions \cup {"selectors not combined", "at most 100 values"}
\* keysetPage: what the cursor and the answer must be
KeysetCursor == {"cursor of this query", "keyset cursor"}
KeysetAnswer == {"array present", "items decode", "next_cursor valid", "next_cursor advances"}

GetStatus == Catalogue
GetMarketClarifications == Checked(Catalogue, validateOffset(FALSE))
GetComments == Checked(Catalogue, validateOffset(TRUE))
GetCommentsPage ==
    Fitting(Checked(Catalogue,
                    validateOffset(FALSE) \cup KeysetCursor
                        \cup {"parent entity", "no offset or unordered listing"}),
            KeysetAnswer)
offsetCommentPage ==
    Checked(Catalogue, validateOffset(TRUE) \cup {"cursor of this query", "offset cursor"})
GetComment == Catalogue
GetCommentsByUserAddressPage == Checked(Catalogue, validateOffset(TRUE))
GetEvent == Catalogue
GetEventBySlug == Catalogue
GetEvents == Checked(Catalogue, validateVersions \cup validateOffset(FALSE))
GetEventTags == Catalogue
GetEventsPage ==
    Fitting(Checked(Catalogue,
                    validateOffset(FALSE) \cup validateVersions \cup KeysetCursor \cup {"no offset"}),
            KeysetAnswer)
GetMarket == Catalogue
GetMarketBySlug == Catalogue
GetMarkets == Checked(Catalogue, validateFilters \cup validateOffset(FALSE))
GetMarketTags == Catalogue
GetMarketsPage ==
    Fitting(Checked(Catalogue,
                    validateOffset(FALSE) \cup validateFilters \cup KeysetCursor \cup {"no offset"}),
            KeysetAnswer)
GetPublicProfile == Catalogue
Search == Checked(Catalogue, validateOffset(FALSE) \cup {"query", "sort"})
GetSeries == Catalogue
GetSeriesPage == Checked(Catalogue, validateOffset(FALSE))
GetSports == Catalogue
GetTeamsPage == Checked(Catalogue, validateOffset(FALSE))
GetMarketTypes == Catalogue
GetTag == Catalogue
GetTagBySlug == Catalogue
GetRelatedTags == Catalogue
GetRelatedTagsBySlug == Catalogue
GetTagsRelatedToTag == Catalogue
GetTagsRelatedToTagBySlug == Catalogue
GetRelatedTagResources == Catalogue
GetRelatedTagResourcesBySlug == Catalogue
GetTagsPage == Checked(Catalogue, validateOffset(FALSE))
\* polymarketSlug takes the slug out of a page's URL.
polymarketSlug == {"Polymarket HTTPS URL", "URL of this resource"}
GetMarketByURL == Checked(GetMarketBySlug, polymarketSlug)
GetEventByURL == Checked(GetEventBySlug, polymarketSlug)

GammaOperations ==
    {GetStatus, GetMarketClarifications, GetComments, GetCommentsPage, offsetCommentPage,
     GetComment, GetCommentsByUserAddressPage, GetEvent, GetEventBySlug, GetEvents,
     GetEventTags, GetEventsPage, GetMarket, GetMarketBySlug, GetMarkets, GetMarketTags,
     GetMarketsPage, GetPublicProfile, Search, GetSeries, GetSeriesPage, GetSports,
     GetTeamsPage, GetMarketTypes, GetTag, GetTagBySlug, GetRelatedTags, GetRelatedTagsBySlug,
     GetTagsRelatedToTag, GetTagsRelatedToTagBySlug, GetRelatedTagResources,
     GetRelatedTagResourcesBySlug, GetTagsPage, GetMarketByURL, GetEventByURL}
=============================================================================
