SPECIFICATION FairSpec
CONSTANTS
    s1 = s1
    s2 = s2
    s3 = s3
    Source = {s1, s2, s3}
    FirstSources = {s2}
    Sitemap = {s1}
    Merchantless = {s3}
    Texts <- MCTexts
    Answers <- MCAnswers
    Limit = 2
    MaxItems = 2
    Trust = 600
    MaxUses = 2
INVARIANTS
    TypeOK
    LiveIsRecognised
    OnlyOriginalIsUnpenalised
    CountMatchesRows
    RescoringNeverFlatters
PROPERTIES
    SourcesGetCrawled
