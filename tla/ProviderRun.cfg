SPECIFICATION FairSpec
CONSTANTS
    Day <- MCDay
    NoDay = NoDay
    MaxPages = 3
    Listing <- MCListing
    Answer <- MCAnswer
    MaxAttempts = 3
INVARIANTS TypeOK ReturnsWholeListing BoundedTraffic OutcomeMatchesAnswer BrowserIsClosed
PROPERTIES AdaptersImplementContract RunsEnd
